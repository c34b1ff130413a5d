------------------------------- MODULE Lists -------------------------------
(***************************************************************************)
(* Lists that are filtered and sorted, by the places of their members and  *)
(* without a recursive definition: what they contain can be proved.        *)
(***************************************************************************)
EXTENDS Naturals, Sequences, FiniteSets

Members(s) == {s[i] : i \in DOMAIN s}
IsList(s) == s \in Seq(Members(s))

\* The members of s at the places I, in the order that Precedes gives these.
Arranged(s, I, Precedes(_, _)) ==
  [n \in 1 .. Cardinality(I) |->
     s[CHOOSE i \in I : Cardinality({k \in I : Precedes(k, i)}) = n - 1]]

\* A list with the members at the places I, in their order.
Keep(s, I) == Arranged(s, I, <)
Having(s, Test(_)) == Keep(s, {i \in DOMAIN s : Test(s[i])})

\* sort.SliceStable: what is not before the other keeps its place.
Sorted(s, Before(_, _)) ==
  Arranged(s, DOMAIN s, LAMBDA k, i : Before(s[k], s[i]) \/ (k < i /\ ~Before(s[i], s[k])))
=============================================================================
