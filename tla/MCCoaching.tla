----------------------------- MODULE MCCoaching -----------------------------
(* Two sessions: the first fails badly, the second changes code without a    *)
(* test and later passes the whole suite, a success of low confidence.       *)
EXTENDS Coaching
CONSTANTS s1, s2, o1, o2, o3, g, u1, u2
MCDrafts == (s1 :> <<o1>>) @@ (s2 :> <<o2, o3>>)
MCDraftsSmall == (s1 :> <<o1>>) @@ (s2 :> <<o2>>)
MCSymmetry == Permutations({u1, u2})
MCSkillOf == [o \in Obs |-> IF o = g THEN "knowledge_gap" ELSE "verification"]
MCConfidence == [o \in Obs |-> CASE o = o1 -> 2 [] o = o3 -> 0 [] OTHER -> 1]
=============================================================================
