-------------------------- MODULE MCSessionDistill --------------------------
(* SessionDistill on small instances. *)
EXTENDS SessionDistill

CONSTANTS s1, s2, u, p1, p2
=============================================================================
