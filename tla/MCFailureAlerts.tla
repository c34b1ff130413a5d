--------------------------- MODULE MCFailureAlerts ---------------------------
(* FailureAlerts on small instances. *)
EXTENDS FailureAlerts, TLC

CONSTANTS c1, c2, m1, h1, h2, h3, i1, i2, i3

Symmetry == Permutations(Ids) \cup Permutations(Observers)
=============================================================================
