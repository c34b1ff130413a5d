--------------------------- MODULE MCEventDelivery ---------------------------
(* EventDelivery on small instances. *)
EXTENDS EventDelivery

CONSTANTS s1, u
=============================================================================
