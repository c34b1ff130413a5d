-------------------------- MODULE MCDaemonLifecycle --------------------------
(* DaemonLifecycle on small instances. *)
EXTENDS DaemonLifecycle, TLC

CONSTANTS d1, d2, d3, s1, s2, s3, x1

Symmetry == Permutations(Daemons) \cup Permutations(Starters)
=============================================================================
