------------------------ MODULE MCPrincipleLifecycle ------------------------
(* Small instances of PrincipleLifecycle. *)
EXTENDS PrincipleLifecycle, TLC
CONSTANTS a, b, c, t1, t2, t3

Symmetry == Permutations(Ids) \cup Permutations(Titles)
=============================================================================
