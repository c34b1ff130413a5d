-------------------------- MODULE AlgorithmsProofs --------------------------
(***************************************************************************)
(* Proofs about Algorithms: what each computation answers, for every input.*)
(***************************************************************************)
EXTENDS Algorithms, Lists, FiniteSetTheorems, FunctionTheorems, WellFoundedInduction, TLAPS

-----------------------------------------------------------------------------
(* Lists that are filtered and sorted. *)

(* Q puts the members of P in a row. *)
Row(P, Q) ==
  /\ IsFiniteSet(P)
  /\ \A i \in P : <<i, i>> \notin Q
  /\ \A i, j, k \in P : <<i, j>> \in Q /\ <<j, k>> \in Q => <<i, k>> \in Q
  /\ \A i, j \in P : i # j => <<i, j>> \in Q \/ <<j, i>> \in Q

Before(P, Q, i) == {k \in P : <<k, i>> \in Q}

(* Every place has exactly one member. *)
Places(P, Q) ==
  /\ Cardinality(P) \in Nat
  /\ \A i \in P : Cardinality(Before(P, Q, i)) \in 0..(Cardinality(P) - 1)
  /\ \A i, j \in P : Cardinality(Before(P, Q, i)) = Cardinality(Before(P, Q, j)) => i = j
  /\ \A n \in 1..Cardinality(P) : \E i \in P : Cardinality(Before(P, Q, i)) = n - 1

(* The numbers of predecessors are injective into 0..N-1, a set as large: they fill it. *)
LEMMA RowPlaces ==
  ASSUME NEW P, NEW Q, Row(P, Q)
  PROVE  Places(P, Q)
<1> DEFINE N == Cardinality(P)
           rank == [i \in P |-> Cardinality(Before(P, Q, i))]
<1>1. N \in Nat
  BY FS_CardinalityType DEF Row
<1>2. ASSUME NEW i \in P
      PROVE  IsFiniteSet(Before(P, Q, i)) /\ rank[i] \in 0..(N - 1)
  <2>1. Before(P, Q, i) \in SUBSET P /\ Before(P, Q, i) # P
    BY DEF Row, Before
  <2>2. IsFiniteSet(Before(P, Q, i)) /\ rank[i] <= N /\ rank[i] # N
    BY <2>1, FS_Subset DEF Row
  <2>3. rank[i] \in Nat
    BY <2>2, FS_CardinalityType
  <2> QED BY <2>2, <2>3, <1>1
<1>3. ASSUME NEW i \in P, NEW j \in P, <<i, j>> \in Q
      PROVE  rank[i] < rank[j]
  <2>1. Before(P, Q, i) \in SUBSET Before(P, Q, j) /\ i \in Before(P, Q, j) /\ i \notin Before(P, Q, i)
    BY <1>3 DEF Row, Before
  <2>2. rank[i] <= rank[j] /\ rank[i] # rank[j]
    BY <2>1, <1>2, FS_Subset
  <2> QED BY <2>2, <1>2
<1>4. ASSUME NEW i \in P, NEW j \in P, rank[i] = rank[j] PROVE i = j
  <2> SUFFICES ASSUME i # j PROVE FALSE
    OBVIOUS
  <2>1. rank[i] < rank[j] \/ rank[j] < rank[i]
    BY <1>3 DEF Row
  <2>2. rank[i] \in 0..(N - 1) /\ rank[j] \in 0..(N - 1)
    BY <1>2
  <2> HIDE DEF rank, N
  <2> QED BY <2>1, <2>2, <1>4, <1>1
<1>5. rank \in Injection(P, 0..(N - 1))
  <2>1. rank \in [P -> 0..(N - 1)]
    BY <1>2
  <2> HIDE DEF rank
  <2> QED BY <2>1, <1>4, Fun_IsInj
<1>6. IsFiniteSet(0..(N - 1)) /\ Cardinality(0..(N - 1)) = N
  BY <1>1, FS_Interval
<1>7. rank \in Surjection(P, 0..(N - 1))
  BY <1>5, <1>6, FS_Injection
<1>8. \A m \in 0..(N - 1) : \E i \in P : rank[i] = m
  <2> HIDE DEF rank
  <2> QED BY <1>7, Fun_SurjectionProperties
<1>9. ASSUME NEW n \in 1..N PROVE \E i \in P : Cardinality(Before(P, Q, i)) = n - 1
  <2>1. n - 1 \in 0..(N - 1)
    BY <1>1
  <2>2. PICK i \in P : rank[i] = n - 1
    BY <2>1, <1>8
  <2> QED BY <2>2
<1> QED BY <1>1, <1>2, <1>4, <1>9 DEF Places

(* t is the list of the members of s at the places P, in their order. *)
KeptAt(t, s, P) ==
  /\ Cardinality(P) \in Nat
  /\ DOMAIN t = 1..Cardinality(P)
  /\ \E pos \in [1..Cardinality(P) -> P] :
        /\ \A n \in 1..Cardinality(P) : t[n] = s[pos[n]]
        /\ \A i \in P : \E n \in 1..Cardinality(P) : pos[n] = i
        /\ \A m, n \in 1..Cardinality(P) : m < n => pos[m] < pos[n]

(* Keep puts the members at the places P in their order. *)
LEMMA KeepIs ==
  ASSUME NEW s, NEW P, IsFiniteSet(P), P \subseteq Nat
  PROVE  KeptAt(Keep(s, P), s, P)
<1> DEFINE Q == {x \in P \X P : x[1] < x[2]}
           N == Cardinality(P)
           Rank(i) == Cardinality({k \in P : k < i})
           pos == [n \in 1..N |-> CHOOSE i \in P : Rank(i) = n - 1]
<1>1. Row(P, Q)
  BY DEF Row
<1>2. \A i \in P : Cardinality(Before(P, Q, i)) = Rank(i)
  <2>1. \A i \in P : Before(P, Q, i) = {k \in P : k < i}
    BY DEF Before
  <2> QED BY <2>1
<1> HIDE DEF Q
<1>3. /\ N \in Nat
      /\ \A i \in P : Rank(i) \in 0..(N - 1)
      /\ \A i, j \in P : Rank(i) = Rank(j) => i = j
      /\ \A n \in 1..N : \E i \in P : Rank(i) = n - 1
  <2> HIDE DEF Rank
  <2>1. /\ N \in Nat
        /\ \A i \in P : Cardinality(Before(P, Q, i)) \in 0..(N - 1)
        /\ \A i, j \in P : Cardinality(Before(P, Q, i)) = Cardinality(Before(P, Q, j)) => i = j
        /\ \A n \in 1..N : \E i \in P : Cardinality(Before(P, Q, i)) = n - 1
    <3>1. Places(P, Q)
      BY <1>1, RowPlaces
    <3> QED BY <3>1 DEF Places
  <2> HIDE DEF N
  <2> QED BY <2>1, <1>2
<1>4. Keep(s, P) = [n \in 1..N |-> s[pos[n]]]
  BY DEF Keep, Arranged
<1>5. ASSUME NEW n \in 1..N PROVE pos[n] \in P /\ Rank(pos[n]) = n - 1
  BY <1>3
<1>6. ASSUME NEW i, NEW j, i \in P, j \in P, Rank(i) < Rank(j) PROVE i < j
  <2> SUFFICES ASSUME ~ (i < j) PROVE FALSE
    OBVIOUS
  <2>0. i \in Nat /\ j \in Nat
    BY <1>6
  <2>1. {k \in P : k < j} \in SUBSET {k \in P : k < i}
    <3>1. \A k \in P : k < j => k < i
      <4> TAKE k \in P
      <4>1. k \in Nat
        OBVIOUS
      <4> QED BY <4>1, <2>0
    <3> QED BY <3>1
  <2>2. IsFiniteSet({k \in P : k < i})
    BY FS_Subset
  <2>3. Rank(j) <= Rank(i)
    BY <2>1, <2>2, FS_Subset
  <2>4. Rank(i) \in 0..(N - 1) /\ Rank(j) \in 0..(N - 1)
    BY <1>3, <1>6
  <2> HIDE DEF Rank, N
  <2> QED BY <2>3, <2>4, <1>6, <1>3
<1>7. \A i \in P : \E n \in 1..N : pos[n] = i
  <2> TAKE i \in P
  <2>1. Rank(i) + 1 \in 1..N /\ (Rank(i) + 1) - 1 = Rank(i)
    <3>1. Rank(i) \in 0..(N - 1)
      BY <1>3
    <3> HIDE DEF Rank, N
    <3> QED BY <3>1, <1>3
  <2>2. pos[Rank(i) + 1] \in P /\ Rank(pos[Rank(i) + 1]) = Rank(i)
    BY <2>1, <1>5
  <2>3. pos[Rank(i) + 1] = i
    <3> HIDE DEF pos, Rank
    <3> QED BY <2>2, <1>3
  <2> QED BY <2>1, <2>3
<1>8. \A m, n \in 1..N : m < n => pos[m] < pos[n]
  <2> TAKE m, n \in 1..N
  <2> HAVE m < n
  <2>1. pos[m] \in P /\ Rank(pos[m]) = m - 1 /\ pos[n] \in P /\ Rank(pos[n]) = n - 1
    BY <1>5
  <2> HIDE DEF pos
  <2>2. Rank(pos[m]) < Rank(pos[n])
    BY <2>1, <1>3
  <2> QED BY <2>1, <2>2, <1>6
<1>9. pos \in [1..N -> P]
  BY <1>5
<1>10. \A n \in 1..N : Keep(s, P)[n] = s[pos[n]]
  BY <1>4
<1>11. DOMAIN Keep(s, P) = 1..N
  BY <1>4
<1> HIDE DEF pos, N
<1> QED BY <1>3, <1>7, <1>8, <1>9, <1>10, <1>11 DEF N, KeptAt

(* What a list keeps of a list. *)
Kept(t, s, P) ==
  /\ Len(t) = Cardinality(P) /\ DOMAIN t = 1..Len(t) /\ Len(t) \in Nat
  /\ \A n \in DOMAIN t : \E i \in P : t[n] = s[i]
  /\ \A i \in P : \E n \in DOMAIN t : t[n] = s[i]

(* A list over T keeps a list over T, with the members at P and no others. *)
LEMMA KeepKeeps ==
  ASSUME NEW T, NEW s \in Seq(T), NEW P \in SUBSET DOMAIN s
  PROVE  Keep(s, P) \in Seq(T) /\ Kept(Keep(s, P), s, P)
<1> DEFINE N == Cardinality(P)
           t == Keep(s, P)
<1>0. Len(s) \in Nat /\ DOMAIN s = 1..Len(s) /\ \A i \in DOMAIN s : s[i] \in T
  OBVIOUS
<1>1. IsFiniteSet(P) /\ P \subseteq Nat
  <2>1. IsFiniteSet(1..Len(s)) /\ P \in SUBSET (1..Len(s))
    BY <1>0, FS_Interval
  <2>2. IsFiniteSet(P)
    BY <2>1, FS_Subset
  <2> QED BY <2>1, <2>2
<1>a. KeptAt(t, s, P)
  BY <1>1, KeepIs
<1>2. N \in Nat /\ DOMAIN t = 1..N
  BY <1>a DEF KeptAt
<1>3. PICK pos \in [1..N -> P] :
        /\ \A n \in 1..N : t[n] = s[pos[n]]
        /\ \A i \in P : \E n \in 1..N : pos[n] = i
        /\ \A m, n \in 1..N : m < n => pos[m] < pos[n]
  BY <1>a DEF KeptAt
<1>4. t = [n \in 1..N |-> s[pos[n]]]
  <2>1. t = [n \in DOMAIN t |-> t[n]]
    BY DEF Keep, Arranged
  <2> HIDE DEF t
  <2> QED BY <2>1, <1>2, <1>3
<1> HIDE DEF t, N
<1>5. \A n \in 1..N : s[pos[n]] \in T
  BY <1>0, <1>3
<1>6. t \in Seq(T) /\ Len(t) = N
  BY <1>4, <1>5, <1>2
<1>7. \A n \in 1..N : \E i \in P : t[n] = s[i]
  BY <1>3
<1>8. \A i \in P : \E n \in 1..N : t[n] = s[i]
  BY <1>3
<1> QED BY <1>6, <1>2, <1>7, <1>8 DEF Kept, t, N

-----------------------------------------------------------------------------
(* Recall. *)

(* A list of members of a set is a list over that set. *)
LEMMA SeqNarrows ==
  ASSUME NEW T, NEW s \in Seq(T), NEW D, \A i \in DOMAIN s : s[i] \in D
  PROVE  s \in Seq(D)
<1>1. s = [i \in 1..Len(s) |-> s[i]] /\ Len(s) \in Nat /\ DOMAIN s = 1..Len(s)
  OBVIOUS
<1> DEFINE n == Len(s)
<1>2. s = [i \in 1..n |-> s[i]] /\ n \in Nat /\ \A i \in 1..n : s[i] \in D
  BY <1>1
<1> HIDE DEF n
<1> QED BY <1>2

(* A list is one over its own members. *)
LEMMA SeqMembers ==
  ASSUME NEW T, NEW s \in Seq(T)
  PROVE  s \in Seq(Members(s)) /\ Members(s) \subseteq T
BY SeqNarrows DEF Members

(* What is kept of a table is over any set that holds the kept rows. *)
LEMMA RKeepNarrows ==
  ASSUME NEW T, NEW s \in Seq(T), NEW P \in SUBSET DOMAIN s, NEW D, \A i \in P : s[i] \in D
  PROVE  R!Keep(s, P) \in Seq(D)
<1>1. R!Keep(s, P) = Keep(s, P)
  BY DEF R!Keep, R!Arranged, R!Cardinality, Keep, Arranged, Cardinality
<1>2. Keep(s, P) \in Seq(T) /\ Kept(Keep(s, P), s, P)
  BY KeepKeeps
<1>3. \A n \in DOMAIN Keep(s, P) : Keep(s, P)[n] \in D
  BY <1>2 DEF Kept
<1> QED BY <1>1, <1>2, <1>3, SeqNarrows

(* The newest rows of a list are over the same set. *)
LEMMA LatestNarrows ==
  ASSUME NEW D, NEW t \in Seq(D), NEW n \in Nat
  PROVE  R!Latest(t, n) \in Seq(D)
<1> DEFINE m == IF Len(t) < n THEN Len(t) ELSE n
<1>1. m \in 0..Len(t)
  OBVIOUS
<1>2. R!Latest(t, n) = SubSeq(t, 1, m)
  BY DEF R!Latest
<1> HIDE DEF m
<1>3. \A i \in 1..m : i \in 1..Len(t)
  BY <1>1
<1>4. SubSeq(t, 1, m) \in Seq(D)
  BY <1>1, <1>3
<1> QED BY <1>2, <1>4

(* The rows of a table that an answer for a project may show. *)
IsOwn(x, r) == IF None \in {x.key, r.key} THEN r.project = x.project ELSE r.key = x.key
OwnRows(x) ==
  {r \in Members(x.principles) : r.active /\ (x.project = None \/ R!OfProject(x, r))}
GlobalRows(x) == {r \in Members(x.principles) : r.active /\ r.global}
InScope(x) == {r \in Members(x.principles) : r.active /\ (r.global \/ IsOwn(x, r))}

(* What a query takes for the project's own rows are rows of the project. *)
LEMMA OwnIsOwn ==
  ASSUME NEW x, NEW r, R!OfProject(x, r)
  PROVE  IsOwn(x, r)
BY DEF IsOwn, R!OfProject

(* With a project, its rows and the global ones are in scope. *)
LEMMA OwnInScope ==
  ASSUME NEW x, x.project # None
  PROVE  OwnRows(x) \subseteq InScope(x) /\ GlobalRows(x) \subseteq InScope(x)
BY OwnIsOwn DEF OwnRows, GlobalRows, InScope

(* Every query returns rows of its set only. *)
LEMMA QueriesInScope ==
  ASSUME NEW x, R!IsPrompt(x), NEW n \in Nat
  PROVE  /\ R!ForProject(x, n) \in Seq(OwnRows(x))
         /\ R!Global(x, n) \in Seq(GlobalRows(x))
         /\ x.project # None => /\ R!VisibleTo(x, n) \in Seq(InScope(x))
                                /\ R!SearchVisibleTo(x, n) \in Seq(InScope(x))
<1> DEFINE s == x.principles
           T == Members(s)
<1>0. s \in Seq(T)
  BY DEF R!IsPrompt, R!IsList, R!Members, Members
<1>1. R!ForProject(x, n) \in Seq(OwnRows(x))
  <2> DEFINE P == {i \in DOMAIN s : s[i].active /\ (x.project = None \/ R!OfProject(x, s[i]))}
  <2>1. \A i \in P : s[i] \in OwnRows(x)
    BY DEF OwnRows, Members
  <2>2. R!ForProject(x, n) = R!Latest(R!Keep(s, P), n)
    BY DEF R!ForProject, R!Having
  <2> HIDE DEF s, T
  <2>3. P \in SUBSET DOMAIN s
    OBVIOUS
  <2> HIDE DEF P
  <2> QED BY <1>0, <2>1, <2>2, <2>3, RKeepNarrows, LatestNarrows
<1>2. R!Global(x, n) \in Seq(GlobalRows(x))
  <2> DEFINE P == {i \in DOMAIN s : s[i].active /\ s[i].global}
  <2>1. \A i \in P : s[i] \in GlobalRows(x)
    BY DEF GlobalRows, Members
  <2>2. R!Global(x, n) = R!Latest(R!Keep(s, P), n)
    BY DEF R!Global, R!Having
  <2> HIDE DEF s, T
  <2>3. P \in SUBSET DOMAIN s
    OBVIOUS
  <2> HIDE DEF P
  <2> QED BY <1>0, <2>1, <2>2, <2>3, RKeepNarrows, LatestNarrows
<1>3. ASSUME x.project # None
      PROVE  R!VisibleTo(x, n) \in Seq(InScope(x))
  <2> DEFINE P == {i \in DOMAIN s : /\ s[i].active
                                    /\ s[i].global \/ x.project = None \/ R!OfProject(x, s[i])}
  <2>1. \A i \in P : s[i] \in InScope(x)
    BY <1>3, OwnIsOwn DEF InScope, Members
  <2>2. R!VisibleTo(x, n) = R!Latest(R!Keep(s, P), n)
    BY DEF R!VisibleTo, R!Having
  <2> HIDE DEF s, T
  <2>3. P \in SUBSET DOMAIN s
    OBVIOUS
  <2> HIDE DEF P
  <2> QED BY <1>0, <2>1, <2>2, <2>3, RKeepNarrows, LatestNarrows
<1>4. ASSUME x.project # None
      PROVE  R!SearchVisibleTo(x, n) \in Seq(InScope(x))
  <2> DEFINE P == {i \in DOMAIN s : /\ s[i].active /\ s[i].hits > 0 /\ s[i].age <= 90
                                    /\ s[i].global \/ (x.project # None /\ R!OfProject(x, s[i]))}
             found == R!Keep(s, P)
             Best == {i \in DOMAIN found :
                        R!Cardinality({k \in DOMAIN found :
                          \/ found[k].impact > found[i].impact
                          \/ found[k].impact = found[i].impact /\ k < i}) < n}
  <2>1. \A i \in P : s[i] \in InScope(x)
    BY OwnIsOwn DEF InScope, Members
  <2>2. R!SearchVisibleTo(x, n) = R!Keep(found, Best)
    BY DEF R!SearchVisibleTo, R!Having, R!Top
  <2> HIDE DEF s, T
  <2>3. P \in SUBSET DOMAIN s
    OBVIOUS
  <2> HIDE DEF P
  <2>4. found \in Seq(InScope(x))
    BY <1>0, <2>1, <2>3, RKeepNarrows
  <2> HIDE DEF found
  <2>5. Best \in SUBSET DOMAIN found
    OBVIOUS
  <2> HIDE DEF Best
  <2>6. \A i \in Best : found[i] \in InScope(x)
    BY <2>4, <2>5
  <2> QED BY <2>2, <2>4, <2>5, <2>6, RKeepNarrows
<1> QED BY <1>1, <1>2, <1>3, <1>4

(* Ids are those of the rows that were returned, and of no other row. *)
LEMMA ShowsRows ==
  ASSUME NEW x, R!IsPrompt(x), NEW D \in SUBSET Members(x.principles), NEW t \in Seq(D),
         NEW i \in DOMAIN x.principles, x.principles[i].id \in R!Ids(t)
  PROVE  x.principles[i] \in D
<1>1. PICK k \in DOMAIN t : x.principles[i].id = t[k].id
  BY DEF R!Ids
<1>2. t[k] \in D
  OBVIOUS
<1>3. PICK j \in DOMAIN x.principles : t[k] = x.principles[j]
  BY <1>2 DEF Members
<1>4. i = j
  BY <1>1, <1>3 DEF R!IsPrompt
<1> QED BY <1>2, <1>3, <1>4

(* The first of the places in a list that pass a test. *)
FirstOf(i, P) == IF P = {} THEN i = 0 ELSE i \in P /\ \A k \in P : i <= k

(* A set of natural numbers has a least one. *)
LEMMA NatMin ==
  ASSUME NEW P \in SUBSET Nat, P # {}
  PROVE  \E n \in P : \A m \in P : n <= m
<1> DEFINE Q == OpToRel(<, Nat)
<1>1. IsWellFoundedOn(Q, Nat)
  BY NatLessThanWellFounded
<1>2. \A i, j \in Nat : i < j => <<i, j>> \in Q
  BY DEF OpToRel
<1> HIDE DEF Q
<1>3. PICK x \in P : \A y \in P : ~ (<<y, x>> \in Q)
  BY <1>1, WFMin, Zenon
<1>4. \A y \in P : x <= y
  <2> TAKE y \in P
  <2>1. ~ (<<y, x>> \in Q)
    BY <1>3
  <2>2. x \in Nat /\ y \in Nat
    OBVIOUS
  <2>3. ~ (y < x)
    BY <2>1, <2>2, <1>2, Zenon
  <2> QED BY <2>2, <2>3
<1> QED BY <1>4

(* What SelectInSeq chooses is the first place, or 0 without one. *)
LEMMA MinFirst ==
  ASSUME NEW P \in SUBSET Nat
  PROVE  FirstOf(IF P # {} THEN CHOOSE x \in P : \A y \in P : x <= y ELSE 0, P)
<1>1. CASE P = {}
  BY <1>1 DEF FirstOf
<1>2. CASE P # {}
  <2>1. \E n \in P : \A m \in P : n <= m
    BY <1>2, NatMin
  <2> QED BY <1>2, <2>1 DEF FirstOf
<1> QED BY <1>1, <1>2

(* What matches in a table. *)
PrincipleMatches(D, x) == {R!PrincipleMatch(r, x.words) : r \in D}
SummaryMatches(D, x) == {R!SummaryMatch(s, x.words) : s \in D}

(* The matches of a list of principles are made from its rows. *)
LEMMA PrinciplesMatch ==
  ASSUME NEW x, NEW D, NEW rows \in Seq(D)
  PROVE  R!Matches(rows, x.words, R!PrincipleMatch) \in Seq(PrincipleMatches(D, x))
<1> DEFINE m == [i \in DOMAIN rows |-> R!PrincipleMatch(rows[i], x.words)]
           P == {i \in DOMAIN m : m[i].score > 0}
<1>1. R!Matches(rows, x.words, R!PrincipleMatch) = R!Keep(m, P)
  BY DEF R!Matches, R!Having
<1>2. DOMAIN rows = 1..Len(rows) /\ Len(rows) \in Nat /\ \A i \in DOMAIN rows : rows[i] \in D
  OBVIOUS
<1>3. \A i \in DOMAIN rows : R!PrincipleMatch(rows[i], x.words) \in PrincipleMatches(D, x)
  BY <1>2 DEF PrincipleMatches
<1>4. m \in Seq(PrincipleMatches(D, x))
  BY <1>2, <1>3
<1>5. P \in SUBSET DOMAIN m
  OBVIOUS
<1> HIDE DEF m, P
<1>6. \A i \in P : m[i] \in PrincipleMatches(D, x)
  BY <1>4, <1>5
<1> QED BY <1>1, <1>4, <1>5, <1>6, RKeepNarrows

(* The same of a list of summaries. *)
LEMMA SummariesMatch ==
  ASSUME NEW x, NEW D, NEW rows \in Seq(D)
  PROVE  R!Matches(rows, x.words, R!SummaryMatch) \in Seq(SummaryMatches(D, x))
<1> DEFINE m == [i \in DOMAIN rows |-> R!SummaryMatch(rows[i], x.words)]
           P == {i \in DOMAIN m : m[i].score > 0}
<1>1. R!Matches(rows, x.words, R!SummaryMatch) = R!Keep(m, P)
  BY DEF R!Matches, R!Having
<1>2. DOMAIN rows = 1..Len(rows) /\ Len(rows) \in Nat /\ \A i \in DOMAIN rows : rows[i] \in D
  OBVIOUS
<1>3. \A i \in DOMAIN rows : R!SummaryMatch(rows[i], x.words) \in SummaryMatches(D, x)
  BY <1>2 DEF SummaryMatches
<1>4. m \in Seq(SummaryMatches(D, x))
  BY <1>2, <1>3
<1>5. P \in SUBSET DOMAIN m
  OBVIOUS
<1> HIDE DEF m, P
<1>6. \A i \in P : m[i] \in SummaryMatches(D, x)
  BY <1>4, <1>5
<1> QED BY <1>1, <1>4, <1>5, <1>6, RKeepNarrows

(* Dropping repeated matches adds none. *)
LEMMA OnceNarrows ==
  ASSUME NEW D, NEW m \in Seq(D)
  PROVE  R!Once(m) \in Seq(D)
<1> DEFINE P == {i \in DOMAIN m : \A k \in 1 .. i - 1 : m[k].of # m[i].of}
<1>1. R!Once(m) = R!Keep(m, P)
  BY DEF R!Once
<1>2. P \in SUBSET DOMAIN m
  OBVIOUS
<1> HIDE DEF P
<1>3. \A i \in P : m[i] \in D
  BY <1>2
<1> QED BY <1>1, <1>2, <1>3, RKeepNarrows

(* The rows of other projects are rows of the table. *)
LEMMA ForeignNarrows ==
  ASSUME NEW project, NEW D, NEW rows \in Seq(D)
  PROVE  R!Foreign(project, rows) \in Seq(D)
<1> DEFINE P == {i \in DOMAIN rows : project = None \/ rows[i].project # project}
<1>1. R!Foreign(project, rows) = R!Keep(rows, P)
  BY DEF R!Foreign, R!Having
<1>2. P \in SUBSET DOMAIN rows
  OBVIOUS
<1> HIDE DEF P
<1>3. \A i \in P : rows[i] \in D
  BY <1>2
<1> QED BY <1>1, <1>2, <1>3, RKeepNarrows

(* Two lists make one over both sets. *)
LEMMA Joined ==
  ASSUME NEW A, NEW B, NEW s \in Seq(A), NEW t \in Seq(B)
  PROVE  s \o t \in Seq(A \cup B)
<1>1. s \in Seq(A \cup B) /\ t \in Seq(A \cup B)
  <2>1. \A i \in DOMAIN s : s[i] \in A \cup B
    OBVIOUS
  <2>2. \A i \in DOMAIN t : t[i] \in A \cup B
    OBVIOUS
  <2> QED BY <2>1, <2>2, SeqNarrows
<1> QED BY <1>1

(* A scan finds what the own project has, and other rows only when it has no sure
   match. *)
OwnFirst(x) == R!Once(R!Matches(R!ForProject(x, 50), x.words, R!PrincipleMatch))
OwnSummariesFirst(x) == R!Once(R!Matches(R!OwnSummaries(x), x.words, R!SummaryMatch))

SureIn(list) == \E i \in DOMAIN list : R!PromptMatchShown(list[i])

(* HighConfidence says that a match of the list would be shown. *)
LEMMA Sure ==
  ASSUME NEW list
  PROVE  R!HighConfidence(list) <=> SureIn(list)
BY DEF R!HighConfidence, R!PromptMatchShown, SureIn

(* The scan of principles finds own and global rows, and what is not among the own matches
   only when none of these is sure. *)
LEMMA ScanPrinciples ==
  ASSUME NEW x, R!IsPrompt(x)
  PROVE  LET found == R!RelevantPrinciples(x)
         IN /\ found \in Seq(PrincipleMatches(OwnRows(x) \cup GlobalRows(x), x))
            /\ x.project # None => \A m \in Members(found) :
                  m \notin Members(OwnFirst(x)) => ~SureIn(OwnFirst(x))
<1> DEFINE D == PrincipleMatches(OwnRows(x) \cup GlobalRows(x), x)
           own == R!ForProject(x, 50)
           others == R!Foreign(x.project, R!Global(x, 100))
           near == R!Matches(own, x.words, R!PrincipleMatch)
           far == R!Matches(others, x.words, R!PrincipleMatch)
           same == IF x.project = None THEN <<>> ELSE R!Once(near)
           found == R!RelevantPrinciples(x)
<1>1. found = IF R!HighConfidence(same) THEN same ELSE R!Once(same \o far)
  BY DEF R!RelevantPrinciples, R!Scan
<1>2. x.project # None => same = OwnFirst(x)
  BY DEF OwnFirst
<1>3. own \in Seq(OwnRows(x)) /\ R!Global(x, 100) \in Seq(GlobalRows(x))
  BY QueriesInScope
<1>4. near \in Seq(PrincipleMatches(OwnRows(x), x)) /\ others \in Seq(GlobalRows(x))
  BY <1>3, PrinciplesMatch, ForeignNarrows
<1>5. far \in Seq(PrincipleMatches(GlobalRows(x), x))
  BY <1>4, PrinciplesMatch
<1>6. R!Once(near) \in Seq(PrincipleMatches(OwnRows(x), x))
  BY <1>4, OnceNarrows
<1>7. same \in Seq(PrincipleMatches(OwnRows(x), x))
  <2>1. CASE x.project = None
    <3>1. same = <<>>
      BY <2>1
    <3> HIDE DEF same
    <3> QED BY <3>1
  <2>2. CASE x.project # None
    BY <2>2, <1>6
  <2> QED BY <2>1, <2>2
<1>9. D = PrincipleMatches(OwnRows(x), x) \cup PrincipleMatches(GlobalRows(x), x)
  BY DEF PrincipleMatches
<1> HIDE DEF same, far, D, near, own, others, found
<1>10. same \o far \in Seq(D)
  BY <1>5, <1>7, <1>9, Joined
<1>11. R!Once(same \o far) \in Seq(D)
  BY <1>10, OnceNarrows
<1>12. same \in Seq(D)
  <2>1. \A i \in DOMAIN same : same[i] \in D
    BY <1>7, <1>9
  <2> QED BY <2>1, <1>7, SeqNarrows
<1>13. found \in Seq(D)
  BY <1>1, <1>11, <1>12
<1>14. ASSUME x.project # None, NEW m \in Members(found), m \notin Members(OwnFirst(x))
       PROVE  ~SureIn(OwnFirst(x))
  <2>1. ~R!HighConfidence(same)
    BY <1>1, <1>2, <1>14
  <2> QED BY <2>1, <1>2, <1>14, Sure
<1> QED BY <1>13, <1>14 DEF D, found

(* The scan of summaries finds another project's only when the own has no sure match. *)
LEMMA ScanSummaries ==
  ASSUME NEW x, R!IsPrompt(x)
  PROVE  LET found == R!RelevantSummaries(x)
         IN /\ found \in Seq(SummaryMatches(Members(x.summaries), x))
            /\ x.project # None => \A m \in Members(found) :
                  m \notin Members(OwnSummariesFirst(x)) => ~SureIn(OwnSummariesFirst(x))
<1> DEFINE T == Members(x.summaries)
           D == SummaryMatches(T, x)
           own == R!OwnSummaries(x)
           others == R!Foreign(x.project, R!Latest(x.summaries, 80))
           near == R!Matches(own, x.words, R!SummaryMatch)
           far == R!Matches(others, x.words, R!SummaryMatch)
           same == IF x.project = None THEN <<>> ELSE R!Once(near)
           found == R!RelevantSummaries(x)
<1>1. found = IF R!HighConfidence(same) THEN same ELSE R!Once(same \o far)
  BY DEF R!RelevantSummaries, R!Scan
<1>2. x.project # None => same = OwnSummariesFirst(x)
  BY DEF OwnSummariesFirst
<1>0. x.summaries \in Seq(T)
  BY DEF R!IsPrompt, R!IsList, R!Members, Members
<1>3. own \in Seq(T)
  <2> DEFINE s == x.summaries
             P == {i \in DOMAIN s : s[i].project = x.project}
  <2>1. own = R!Latest(R!Keep(s, P), 20)
    BY DEF R!OwnSummaries, R!Having
  <2>2. P \in SUBSET DOMAIN s /\ \A i \in P : s[i] \in T
    BY DEF Members
  <2> HIDE DEF P
  <2>3. R!Keep(s, P) \in Seq(T)
    <3> HIDE DEF T
    <3> QED BY <2>2, <1>0, RKeepNarrows
  <2> HIDE DEF T, s
  <2> QED BY <2>1, <2>3, LatestNarrows
<1> HIDE DEF own, T
<1>4. near \in Seq(D) /\ others \in Seq(T)
  BY <1>0, <1>3, LatestNarrows, SummariesMatch, ForeignNarrows
<1>5. far \in Seq(D)
  BY <1>4, SummariesMatch
<1>6. R!Once(near) \in Seq(D)
  BY <1>4, OnceNarrows
<1>7. same \in Seq(D)
  <2>1. CASE x.project = None
    <3>1. same = <<>>
      BY <2>1
    <3> HIDE DEF same
    <3> QED BY <3>1
  <2>2. CASE x.project # None
    BY <2>2, <1>6
  <2> QED BY <2>1, <2>2
<1> HIDE DEF same, far, D, near, others, found
<1>10. same \o far \in Seq(D)
  BY <1>5, <1>7
<1>11. R!Once(same \o far) \in Seq(D)
  BY <1>10, OnceNarrows
<1>13. found \in Seq(D)
  BY <1>1, <1>11, <1>7
<1>14. ASSUME x.project # None, NEW m \in Members(found), m \notin Members(OwnSummariesFirst(x))
       PROVE  ~SureIn(OwnSummariesFirst(x))
  <2>1. ~R!HighConfidence(same)
    BY <1>1, <1>2, <1>14
  <2> QED BY <2>1, <1>2, <1>14, Sure
<1> QED BY <1>13, <1>14 DEF D, T, found

(* The best recall is one of the matches. *)
LEMMA BestIsFound ==
  ASSUME NEW x, R!IsPrompt(x), R!BestPromptRecall(x) # None
  PROVE  LET best == R!BestPromptRecall(x)
         IN best \in Members(R!RelevantPrinciples(x)) \/ best \in Members(R!RelevantSummaries(x))
<1> DEFINE s == R!RelevantPrinciples(x)
           t == R!RelevantSummaries(x)
           all == s \o t
           best == R!BestPromptRecall(x)
           Better(a, b) == a.score > b.score \/ (a.score = b.score /\ a.age < b.age)
           P == {i \in 1..Len(all) : ~\E k \in DOMAIN all : Better(all[k], all[i])}
           i == IF P # {} THEN CHOOSE n \in P : \A m \in P : n <= m ELSE 0
<1>1. best = IF x.words < 2 \/ i = 0 THEN None ELSE all[i]
  BY DEF R!BestPromptRecall, R!SelectInSeq, R!Min
<1>5. s \in Seq(Members(s)) /\ t \in Seq(Members(t))
  <2> HIDE DEF s, t
  <2>1. s \in Seq(PrincipleMatches(OwnRows(x) \cup GlobalRows(x), x))
    BY ScanPrinciples DEF s
  <2>2. t \in Seq(SummaryMatches(Members(x.summaries), x))
    BY ScanSummaries DEF t
  <2> QED BY <2>1, <2>2, SeqMembers
<1>2. P \in SUBSET Nat
  BY <1>5
<1>3. FirstOf(i, P)
  <2> HIDE DEF P
  <2> QED BY <1>2, MinFirst
<1>4. i \in P /\ best = all[i]
  <2> HIDE DEF P, i, all, best
  <2> QED BY <1>1, <1>3 DEF FirstOf, best
<1>6. i \in 1..Len(all)
  <2> HIDE DEF i
  <2> QED BY <1>4
<1> HIDE DEF s, t, i, P, best
<1>7. all[i] \in Members(s) \cup Members(t)
  BY <1>5, <1>6
<1> QED BY <1>4, <1>7 DEF s, t, best

InOrder(x, answer) == R!StaysInScope(x, answer) /\ R!OwnProjectFirst(x, answer)

(* get_principles answers in scope. *)
LEMMA ToolInScope ==
  ASSUME NEW x, R!IsPrompt(x)
  PROVE  InOrder(x, R!GetPrinciples(x))
<1> DEFINE n == R!Limit(x.limit)
           rows == R!VisibleTo(x, n)
<1>1. n \in Nat
  BY DEF R!Limit, R!IsPrompt
<1>2. R!GetPrinciples(x).shown = R!Ids(rows) /\ R!GetPrinciples(x).match = None
  BY DEF R!GetPrinciples, R!Shows, R!Silent
<1> HIDE DEF n
<1>3. ASSUME x.project # None PROVE rows \in Seq(InScope(x))
  BY <1>1, <1>3, QueriesInScope
<1>4. R!StaysInScope(x, R!GetPrinciples(x))
  <2> SUFFICES ASSUME x.project # None, NEW i \in DOMAIN x.principles,
                      x.principles[i].id \in R!Ids(rows)
               PROVE  x.principles[i] \in InScope(x)
    BY <1>2 DEF R!StaysInScope, InScope, IsOwn
  <2> HIDE DEF rows
  <2>1. InScope(x) \in SUBSET Members(x.principles)
    BY DEF InScope
  <2> QED BY <2>1, <1>3, ShowsRows
<1> QED BY <1>2, <1>4 DEF InOrder, R!OwnProjectFirst

(* inject_principles answers in scope. *)
LEMMA InjectionInScope ==
  ASSUME NEW x, R!IsPrompt(x)
  PROVE  InOrder(x, R!InjectPrinciples(x))
<1> DEFINE answer == R!InjectPrinciples(x)
           near == R!ForProject(x, 15)
           found == IF x.words = 0 THEN <<>> ELSE R!SearchVisibleTo(x, 30)
           candidates == R!Ids(near) \cup R!Ids(found)
           s == x.principles
           P == {i \in DOMAIN s : s[i].id \in candidates /\ R!Decayed(s[i]) >= 100}
           kept == R!Keep(s, P)
           D == {r \in Members(s) : r.id \in candidates}
           Best == {i \in DOMAIN kept :
                      R!Cardinality({k \in DOMAIN kept :
                        \/ R!Decayed(kept[k]) > R!Decayed(kept[i])
                        \/ R!Decayed(kept[k]) = R!Decayed(kept[i]) /\ k < i}) < 5}
<1>1. answer.match = None
  BY DEF R!InjectPrinciples, R!Shows, R!Silent
<1>2. R!Keep(kept, Best) \in Seq(D) /\ D \in SUBSET Members(s)
  <2>1. s \in Seq(Members(s))
    BY DEF R!IsPrompt, R!IsList, R!Members, Members
  <2>2. P \in SUBSET DOMAIN s /\ \A i \in P : s[i] \in D
    BY DEF Members
  <2>a. D \in SUBSET Members(s)
    OBVIOUS
  <2> HIDE DEF P, D, s
  <2>3. kept \in Seq(D)
    BY <2>1, <2>2, RKeepNarrows
  <2> HIDE DEF kept
  <2>4. Best \in SUBSET DOMAIN kept
    OBVIOUS
  <2> HIDE DEF Best
  <2>5. \A i \in Best : kept[i] \in D
    BY <2>3, <2>4
  <2> QED BY <2>a, <2>3, <2>4, <2>5, RKeepNarrows
<1>3. ASSUME x.project # None
      PROVE  answer.shown = R!Ids(R!Keep(kept, Best))
  <2>1. answer.shown = R!GetRelevantPrinciples(x)
    BY <1>3 DEF R!InjectPrinciples, R!Shows, R!Silent
  <2>2. R!GetRelevantPrinciples(x) = R!Ids(R!Keep(kept, Best))
    BY DEF R!GetRelevantPrinciples, R!Having, R!Top
  <2> QED BY <2>1, <2>2
<1>4. R!StaysInScope(x, answer)
  <2> SUFFICES ASSUME x.project # None, NEW i \in DOMAIN s, s[i].id \in answer.shown
               PROVE  s[i] \in InScope(x)
    BY DEF R!StaysInScope, InScope, IsOwn
  <2> HIDE DEF kept, Best, answer
  <2>1. s[i].id \in candidates
    <3>1. s[i].id \in R!Ids(R!Keep(kept, Best))
      BY <1>3
    <3> DEFINE t == R!Keep(kept, Best)
    <3>2. s[i] \in D
      <4>1. t \in Seq(D) /\ D \in SUBSET Members(x.principles) /\ s[i].id \in R!Ids(t)
        BY <1>2, <3>1
      <4> HIDE DEF t, D
      <4> QED BY <4>1, ShowsRows
    <3> QED BY <3>2
  <2> HIDE DEF near, found, s
  <2>2. CASE s[i].id \in R!Ids(near)
    <3>1. near \in Seq(OwnRows(x)) /\ OwnRows(x) \in SUBSET Members(x.principles)
      BY QueriesInScope DEF near, OwnRows
    <3>2. s[i] \in OwnRows(x)
      BY <2>2, <3>1, ShowsRows DEF s
    <3> QED BY <3>2, OwnInScope
  <2>3. CASE s[i].id \in R!Ids(found)
    <3>1. InScope(x) \in SUBSET Members(x.principles)
      BY DEF InScope
    <3>2. found \in Seq(InScope(x))
      <4>1. CASE x.words = 0
        <5>1. found = <<>>
          BY <4>1 DEF found
        <5> QED BY <5>1
      <4>2. CASE x.words # 0
        <5>1. found = R!SearchVisibleTo(x, 30)
          BY <4>2 DEF found
        <5> QED BY <5>1, QueriesInScope
      <4> QED BY <4>1, <4>2
    <3> QED BY <2>3, <3>1, <3>2, ShowsRows DEF s
  <2> QED BY <2>1, <2>2, <2>3
<1> QED BY <1>1, <1>4 DEF InOrder, R!OwnProjectFirst

(* The lessons of the hook are in scope. *)
LEMMA LessonsInScope ==
  ASSUME NEW x, R!IsPrompt(x), x.project # None
  PROVE  R!Lessons(x) \in Seq(InScope(x))
<1> DEFINE own == R!ForProject(x, 2)
           bare == x.project # None /\ own = <<>>
                     /\ ~\E i \in DOMAIN x.summaries : x.summaries[i].project = x.project
           s == IF bare THEN R!Global(x, 2) ELSE own
           P == {i \in DOMAIN s : s[i].titled}
<1>1. R!Lessons(x) = R!Keep(s, P)
  BY DEF R!Lessons, R!Having
<1>2. own \in Seq(OwnRows(x)) /\ R!Global(x, 2) \in Seq(GlobalRows(x))
  BY QueriesInScope
<1>3. OwnRows(x) \subseteq InScope(x) /\ GlobalRows(x) \subseteq InScope(x)
  BY OwnInScope
<1> HIDE DEF own, bare
<1>4. own \in Seq(InScope(x)) /\ R!Global(x, 2) \in Seq(InScope(x))
  <2>1. \A i \in DOMAIN own : own[i] \in InScope(x)
    BY <1>2, <1>3
  <2>2. \A i \in DOMAIN R!Global(x, 2) : R!Global(x, 2)[i] \in InScope(x)
    BY <1>2, <1>3
  <2> QED BY <1>2, <2>1, <2>2, SeqNarrows
<1>5. s \in Seq(InScope(x))
  BY <1>4
<1> HIDE DEF s
<1>6. P \in SUBSET DOMAIN s
  OBVIOUS
<1> HIDE DEF P
<1>7. \A i \in P : s[i] \in InScope(x)
  BY <1>5, <1>6
<1> QED BY <1>1, <1>5, <1>6, <1>7, RKeepNarrows

(* The hook's answer to the first prompt is in scope, own memories first. *)
LEMMA RecallInOrder ==
  ASSUME NEW x, R!IsPrompt(x)
  PROVE  InOrder(x, R!SessionRecall(x))
<1> DEFINE answer == R!SessionRecall(x)
           best == R!BestPromptRecall(x)
           match == IF best # None /\ R!PromptMatchShown(best) THEN best ELSE None
           matched == IF match # None /\ match.kind = "principle" THEN {match.id} ELSE {}
           D == OwnRows(x) \cup GlobalRows(x)
<1> HIDE DEF best
<1>1. CASE ~R!IsFirstPrompt(x.events)
  <2>1. answer.match = None /\ answer.shown = {}
    BY <1>1 DEF R!SessionRecall, R!Silent
  <2> HIDE DEF answer
  <2>2. InOrder(x, answer)
    BY <2>1 DEF InOrder, R!StaysInScope, R!OwnProjectFirst
  <2> QED BY <2>2 DEF answer
<1>2. CASE R!IsFirstPrompt(x.events)
  <2>1. answer.match = match /\ answer.shown = R!Ids(R!Lessons(x)) \cup matched
    BY <1>2 DEF R!SessionRecall, best
  <2> HIDE DEF answer
  <2>2. ASSUME match # None
        PROVE  /\ match.kind = "principle" =>
                     /\ match \in PrincipleMatches(D, x)
                     /\ x.project # None /\ match \notin Members(OwnFirst(x)) => ~SureIn(OwnFirst(x))
               /\ match.kind # "principle" =>
                     (x.project # None /\ match \notin Members(OwnSummariesFirst(x))
                        => ~SureIn(OwnSummariesFirst(x)))
    <3>1. match = best /\ best # None
      BY <2>2
    <3> HIDE DEF match
    <3>2. \/ best \in Members(R!RelevantPrinciples(x))
          \/ best \in Members(R!RelevantSummaries(x))
      BY <3>1, BestIsFound DEF best
    <3>3. CASE best \in Members(R!RelevantPrinciples(x))
      <4>1. /\ R!RelevantPrinciples(x) \in Seq(PrincipleMatches(D, x))
            /\ x.project # None /\ best \notin Members(OwnFirst(x)) => ~SureIn(OwnFirst(x))
        BY <3>3, ScanPrinciples
      <4>2. best \in PrincipleMatches(D, x)
        BY <4>1, <3>3, SeqMembers
      <4>3. best.kind = "principle"
        BY <4>2 DEF PrincipleMatches, R!PrincipleMatch, R!Match
      <4> QED BY <3>1, <4>1, <4>2, <4>3
    <3>4. CASE best \in Members(R!RelevantSummaries(x))
      <4>1. /\ R!RelevantSummaries(x)
                 \in Seq(SummaryMatches(Members(x.summaries), x))
            /\ x.project # None /\ best \notin Members(OwnSummariesFirst(x))
                 => ~SureIn(OwnSummariesFirst(x))
        BY <3>4, ScanSummaries
      <4>2. best \in SummaryMatches(Members(x.summaries), x)
        BY <4>1, <3>4, SeqMembers
      <4>3. best.kind = "summary"
        BY <4>2 DEF SummaryMatches, R!SummaryMatch, R!Match
      <4> QED BY <3>1, <4>1, <4>3
    <3> QED BY <3>2, <3>3, <3>4
  <2> HIDE DEF match, D
  <2>3. ASSUME x.project # None, NEW i \in DOMAIN x.principles, x.principles[i].id \in answer.shown
        PROVE  x.principles[i] \in InScope(x)
    <3>1. CASE x.principles[i].id \in R!Ids(R!Lessons(x))
      <4>1. R!Lessons(x) \in Seq(InScope(x)) /\ InScope(x) \in SUBSET Members(x.principles)
        BY <2>3, LessonsInScope DEF InScope
      <4> QED BY <3>1, <4>1, ShowsRows
    <3>2. CASE x.principles[i].id \in matched
      <4>1. match # None /\ match.kind = "principle" /\ x.principles[i].id = match.id
        BY <3>2
      <4>2. match \in PrincipleMatches(D, x)
        BY <4>1, <2>2
      <4>3. PICK r \in D : match = R!PrincipleMatch(r, x.words)
        BY <4>2 DEF PrincipleMatches
      <4>4. match.id = r.id
        BY <4>3 DEF R!PrincipleMatch, R!Match
      <4>5. D \subseteq Members(x.principles) /\ D \subseteq InScope(x)
        BY <2>3, OwnInScope DEF D, OwnRows, GlobalRows
      <4>6. PICK k \in DOMAIN x.principles : r = x.principles[k]
        BY <4>5 DEF Members
      <4>7. i = k
        BY <4>1, <4>4, <4>6 DEF R!IsPrompt
      <4> QED BY <4>5, <4>6, <4>7
    <3> QED BY <2>1, <2>3, <3>1, <3>2
  <2>4. R!StaysInScope(x, answer)
    BY <2>3 DEF R!StaysInScope, InScope, IsOwn
  <2>5. R!OwnProjectFirst(x, answer)
    <3> DEFINE Own == IF match.kind = "principle" THEN OwnFirst(x) ELSE OwnSummariesFirst(x)
    <3> SUFFICES ASSUME match # None, x.project # None, \A i \in DOMAIN Own : Own[i] # match
                 PROVE  ~SureIn(Own)
      BY <2>1 DEF R!OwnProjectFirst, SureIn, OwnFirst, OwnSummariesFirst
    <3>1. match \notin Members(Own)
      BY DEF Members
    <3> QED BY <2>2, <3>1
  <2>6. InOrder(x, answer)
    BY <2>4, <2>5 DEF InOrder
  <2> QED BY <2>6 DEF answer
<1> QED BY <1>1, <1>2

-----------------------------------------------------------------------------
(* Context7. *)

(* A request is answered by a line that bears its number. *)
LEMMA RequestAnswers ==
  ASSUME NEW id, NEW T, NEW lines \in Seq(T), C!Request(id, lines).ok
  PROVE  LET answer == C!Request(id, lines)
         IN /\ answer.line \in T /\ answer.line.id = id /\ answer.line.kind \in {"result", "call"}
            /\ answer.rest \in Seq(T)
<1> DEFINE P == {i \in 1..Len(lines) : C!Broken(lines[i]) \/ C!Answers(id, lines[i])}
           i == C!First(lines, LAMBDA l : C!Broken(l) \/ C!Answers(id, l))
           rest == SubSeq(lines, i + 1, Len(lines))
           answer == C!Request(id, lines)
<1>1. answer = IF i = 0 \/ C!Broken(lines[i]) \/ lines[i].kind = "error"
               THEN [ok |-> FALSE, rest |-> <<>>]
               ELSE [ok |-> TRUE, line |-> lines[i], rest |-> rest]
  BY DEF C!Request
<1>2. P \in SUBSET Nat
  OBVIOUS
<1>3. FirstOf(i, P)
  <2>1. i = IF P # {} THEN CHOOSE n \in P : \A m \in P : n <= m ELSE 0
    BY DEF C!First, C!SelectInSeq, C!Min
  <2> HIDE DEF i, P
  <2> QED BY <1>2, <2>1, MinFirst
<1> HIDE DEF i
<1>4. /\ i # 0 /\ ~C!Broken(lines[i]) /\ lines[i].kind # "error"
      /\ answer.line = lines[i] /\ answer.rest = rest
  <2> HIDE DEF P, rest
  <2>1. answer.ok
    OBVIOUS
  <2> HIDE DEF answer
  <2> QED BY <1>1, <2>1
<1>5. i \in P
  <2> HIDE DEF P, rest, answer
  <2> QED BY <1>3, <1>4 DEF FirstOf
<1>6. i \in 1..Len(lines) /\ C!Answers(id, lines[i])
  BY <1>4, <1>5
<1>7. lines[i] \in T
  BY <1>6
<1>8. rest \in Seq(T)
  <2>1. Len(lines) \in Nat /\ i + 1 \in 1..(Len(lines) + 1)
    BY <1>6
  <2> QED BY <2>1
<1> HIDE DEF P, rest, answer
<1> QED BY <1>4, <1>6, <1>7, <1>8 DEF C!Answers, answer

MaybeLibrary == Libraries \cup {NoLibrary}

(* Whatever a text holds, the result is a library or none. *)
LEMMA NormalizedID ==
  ASSUME NEW text
  PROVE  C!NormalizeLibraryID(text) \in MaybeLibrary
BY DEF C!NormalizeLibraryID, MaybeLibrary

(* The same of a query. *)
LEMMA QueriedID ==
  ASSUME NEW text
  PROVE  C!LibraryIDFromQuery(text) \in MaybeLibrary
<1> DEFINE P == {i \in 1..Len(text) : text[i] \in Libraries}
           i == C!First(text, LAMBDA m : m \in Libraries)
<1>1. P \in SUBSET Nat
  OBVIOUS
<1>2. FirstOf(i, P)
  <2>1. i = IF P # {} THEN CHOOSE n \in P : \A m \in P : n <= m ELSE 0
    BY DEF C!First, C!SelectInSeq, C!Min
  <2> HIDE DEF i, P
  <2> QED BY <1>1, <2>1, MinFirst
<1>3. C!LibraryIDFromQuery(text) = IF i = 0 THEN NoLibrary ELSE text[i]
  BY DEF C!LibraryIDFromQuery
<1> HIDE DEF i
<1> QED BY <1>2, <1>3 DEF FirstOf, MaybeLibrary

(* The same of the first of several texts. *)
LEMMA FirstNormalized ==
  ASSUME NEW texts
  PROVE  C!FirstLibrary(texts, C!NormalizeLibraryID) \in MaybeLibrary
<1> DEFINE i == C!First(texts, LAMBDA t : C!NormalizeLibraryID(t) # NoLibrary)
<1>1. C!FirstLibrary(texts, C!NormalizeLibraryID)
        = IF i = 0 THEN NoLibrary ELSE C!NormalizeLibraryID(texts[i])
  BY DEF C!FirstLibrary
<1> HIDE DEF i
<1> QED BY <1>1, NormalizedID DEF MaybeLibrary

(* The same of the first of several queries. *)
LEMMA FirstQueried ==
  ASSUME NEW texts
  PROVE  C!FirstLibrary(texts, C!LibraryIDFromQuery) \in MaybeLibrary
<1> DEFINE i == C!First(texts, LAMBDA t : C!LibraryIDFromQuery(t) # NoLibrary)
<1>1. C!FirstLibrary(texts, C!LibraryIDFromQuery)
        = IF i = 0 THEN NoLibrary ELSE C!LibraryIDFromQuery(texts[i])
  BY DEF C!FirstLibrary
<1> HIDE DEF i
<1> QED BY <1>1, QueriedID DEF MaybeLibrary

(* What is taken for a library is one. *)
LEMMA LibraryFound ==
  /\ \A job : C!DirectLibraryID(job) \in MaybeLibrary
  /\ \A body : C!ExtractLibraryID(body) \in MaybeLibrary
<1>1. \A job : C!DirectLibraryID(job) \in MaybeLibrary
  BY FirstNormalized, QueriedID DEF C!DirectLibraryID
<1>2. \A body : C!ExtractLibraryID(body) \in MaybeLibrary
  BY FirstNormalized, FirstQueried DEF C!ExtractLibraryID
<1> QED BY <1>1, <1>2

(* The results among the lines of a server are its answers to what they name. *)
OwnResults(T) == \A line \in T : line.kind = "result" => line.to = line.id

(* A request of the server's own that bears a number of the client's. *)
CallAmong(T, id) == \E line \in T : line.kind = "call" /\ line.id = id

(* What is stored comes from the answer to the last request, or from a request that bears
   its number. *)
LEMMA DocsAnswered ==
  ASSUME NEW job, NEW id, NEW library, NEW from, NEW T, NEW lines \in Seq(T), OwnResults(T),
         C!QueryDocs(job, id, library, from, lines).ok
  PROVE  LET stored == C!QueryDocs(job, id, library, from, lines)
         IN /\ stored.source = id \/ CallAmong(T, id)
            /\ stored.asked = id /\ stored.library = library /\ stored.resolved = from
<1> DEFINE docs == C!Request(id, lines)
           stored == C!QueryDocs(job, id, library, from, lines)
<1>1. /\ docs.ok /\ stored.source = docs.line.to /\ stored.asked = id
      /\ stored.library = library /\ stored.resolved = from
  BY DEF C!QueryDocs, C!Failed
<1>2. docs.line \in T /\ docs.line.id = id /\ docs.line.kind \in {"result", "call"}
  BY <1>1, RequestAnswers
<1>3. docs.line.to = id \/ CallAmong(T, id)
  BY <1>2 DEF OwnResults, CallAmong
<1> QED BY <1>1, <1>3

(* A fetch stores what answers its own request, or nothing, but for a request that bears
   the same number. *)
LEMMA FetchStoresOwn ==
  ASSUME NEW x, C!IsScript(x)
  PROVE  C!StoresOwnAnswer(x.job, x.lines)
<1> DEFINE T == Members(x.lines)
           fetch == C!Fetch(x.job, x.lines)
           initialize == C!Request(1, x.lines)
           list == C!Request(2, initialize.rest)
           direct == C!DirectLibraryID(x.job)
           resolve == C!Request(3, list.rest)
           library == C!ExtractLibraryID(resolve.line.body)
<1>a. \A id : CallAmong(T, id) <=> C!Called(x.lines, id)
  BY DEF CallAmong, C!Called, Members
<1> SUFFICES ASSUME fetch.ok
             PROVE  /\ fetch.source = fetch.asked \/ CallAmong(T, fetch.asked)
                    /\ fetch.library \in Libraries
                    /\ IF direct # NoLibrary THEN fetch.library = direct
                       ELSE fetch.resolved = 3 \/ CallAmong(T, 3)
  BY <1>a DEF C!StoresOwnAnswer
<1>1. x.lines \in Seq(T) /\ OwnResults(T)
  BY DEF C!IsScript, C!IsList, C!Members, Members, OwnResults
<1>2. /\ initialize.ok /\ list.ok
      /\ \/ direct # NoLibrary /\ fetch = C!QueryDocs(x.job, 3, direct, 0, list.rest)
         \/ /\ direct = NoLibrary /\ resolve.ok /\ library # NoLibrary
            /\ fetch = C!QueryDocs(x.job, 4, library, resolve.line.to, resolve.rest)
  BY DEF C!Fetch, C!Failed
<1> HIDE DEF fetch, T, library, direct
<1>3. initialize.rest \in Seq(T)
  BY <1>1, <1>2, RequestAnswers
<1> HIDE DEF initialize
<1>4. list.rest \in Seq(T)
  BY <1>2, <1>3, RequestAnswers
<1> HIDE DEF list
<1>5. CASE direct # NoLibrary /\ fetch = C!QueryDocs(x.job, 3, direct, 0, list.rest)
  <2>1. /\ fetch.source = 3 \/ CallAmong(T, 3)
        /\ fetch.asked = 3 /\ fetch.library = direct
    BY <1>1, <1>4, <1>5, DocsAnswered
  <2>2. direct \in Libraries
    BY <1>5, LibraryFound DEF MaybeLibrary, direct
  <2> QED BY <2>1, <2>2, <1>5
<1>6. CASE /\ direct = NoLibrary /\ resolve.ok /\ library # NoLibrary
           /\ fetch = C!QueryDocs(x.job, 4, library, resolve.line.to, resolve.rest)
  <2>1. /\ resolve.line \in T /\ resolve.line.id = 3 /\ resolve.rest \in Seq(T)
        /\ resolve.line.kind \in {"result", "call"}
    BY <1>4, <1>6, RequestAnswers
  <2>2. resolve.line.to = 3 \/ CallAmong(T, 3)
    BY <1>1, <2>1 DEF OwnResults, CallAmong
  <2> HIDE DEF resolve
  <2>3. /\ fetch.source = 4 \/ CallAmong(T, 4)
        /\ fetch.asked = 4 /\ fetch.library = library /\ fetch.resolved = resolve.line.to
    BY <1>1, <2>1, <1>6, DocsAnswered
  <2>4. library \in Libraries
    BY <1>6, LibraryFound DEF MaybeLibrary, library
  <2> QED BY <2>2, <2>3, <2>4, <1>6
<1> QED BY <1>2, <1>5, <1>6

-----------------------------------------------------------------------------
(* Inference. *)

(* The provider is called at least once, and no more often than there are retries. *)
LEMMA AttemptsMade ==
  ASSUME NEW x, I!IsBatch(x)
  PROVE  I!Attempts(x) \in DOMAIN x.replies
<1> DEFINE Ends(n) == n = x.retries + 1 \/ ~I!ShouldRetryOllama(x.replies[n])
           P == {n \in 1..x.retries + 1 : Ends(n)}
<1>1. x.retries \in Nat /\ 1 .. x.retries + 1 \subseteq DOMAIN x.replies
  BY DEF I!IsBatch
<1>2. CASE x.provider # "ollama"
  BY <1>1, <1>2 DEF I!Attempts
<1>3. CASE x.provider = "ollama"
  <2>1. I!Attempts(x) = CHOOSE n \in 1..x.retries + 1 : Ends(n) /\ \A k \in 1..n - 1 : ~Ends(k)
    BY <1>3 DEF I!Attempts
  <2>2. P \in SUBSET Nat /\ P # {}
    BY <1>1
  <2>3. PICK n \in P : \A m \in P : n <= m
    <3> HIDE DEF P
    <3> QED BY <2>2, NatMin
  <2> HIDE DEF Ends
  <2>4. \A k \in 1..n - 1 : ~Ends(k)
    <3> TAKE k \in 1..n - 1
    <3>1. k \in 1..x.retries + 1 /\ ~(n <= k)
      BY <1>1, <2>3
    <3> QED BY <3>1, <2>3
  <2>5. \E m \in 1..x.retries + 1 : Ends(m) /\ \A k \in 1..m - 1 : ~Ends(k)
    BY <2>3, <2>4
  <2>6. I!Attempts(x) \in 1..x.retries + 1
    BY <2>1, <2>5
  <2> QED BY <1>1, <2>6
<1> QED BY <1>2, <1>3

(* A text of the form that was asked for is read. *)
LEMMA AskedIsReadable ==
  ASSUME NEW text, text \in Seq(Members(text)), I!AsAsked(text)
  PROVE  I!Readable(text) /\ text # <<>>
<1> DEFINE P == {i \in DOMAIN text : text[i] \in {"array", "wrapped"}}
<1>1. Len(text) \in Nat /\ DOMAIN text = 1..Len(text)
  OBVIOUS
<1>2. Cardinality(P) = 1
  <2>1. I!Cardinality(P) = 1
    BY DEF I!AsAsked
  <2> QED BY <2>1 DEF I!Cardinality, Cardinality
<1>3. IsFiniteSet(P)
  <2>1. IsFiniteSet(1..Len(text)) /\ P \subseteq 1..Len(text)
    BY <1>1, FS_Interval
  <2> QED BY <2>1, FS_Subset
<1>4. PICK i : P = {i}
  <2> HIDE DEF P
  <2> QED BY <1>2, <1>3, FS_Singleton
<1>5. i \in DOMAIN text /\ text[i] # "bracket"
  BY <1>4
<1>6. \A k \in DOMAIN text : text[k] # "bracket"
  BY <1>1 DEF I!AsAsked, I!Contains
<1>7. I!Bracketed(text) = {i}
  <2>1. I!Bracketed(text) = P
    BY <1>6 DEF I!Bracketed
  <2> QED BY <2>1, <1>4
<1>8. I!Extracts(text)
  BY <1>5, <1>7 DEF I!Extracts
<1>9. text # <<>> /\ Head(text) = text[1] /\ 1 \in DOMAIN text
  BY <1>1, <1>5
<1>10. CASE Head(text) \in {"array", "bracket"}
  <2>1. text[1] = "array" /\ Len(text) = 1
    BY <1>6, <1>9, <1>10 DEF I!AsAsked
  <2>2. text = <<"array">>
    BY <2>1
  <2> QED BY <2>2, <1>10, <1>9 DEF I!Readable
<1>11. CASE Head(text) \notin {"array", "bracket"}
  BY <1>8, <1>9, <1>11 DEF I!Readable
<1> QED BY <1>9, <1>10, <1>11

(* A batch keeps its events or its principles, but for the known cases. *)
LEMMA BatchKept ==
  ASSUME NEW x, I!IsBatch(x)
  PROVE  I!NotLost(x, I!DistillBatch(x))
<1> DEFINE n == I!Attempts(x)
           reply == x.replies[n]
           call == I!CallLLM(x)
           batch == I!DistillBatch(x)
           kept == reply.drafts \ {"generic"}
<1>1. n \in DOMAIN x.replies /\ reply.text \in Seq(Members(reply.text))
  BY AttemptsMade DEF I!IsBatch, I!IsList, I!Members, Members
<1>2. call.attempts = n
  BY DEF I!CallLLM, I!Says, I!Fails
<1> SUFFICES ASSUME x.size >= 3
             PROVE  /\ batch.retired => batch.stored = kept \/ I!MayBeLost(x.provider, reply)
                    /\ ~batch.retired => \/ I!ExitStatus(x, batch) = 1
                                         \/ reply.kind = "refused" /\ ~x.explicit
  BY DEF I!NotLost
<1>3. ~(x.size < 3)
  BY DEF I!IsBatch
<1> HIDE DEF n
<1>4. CASE call.ok
  <2>1. reply.kind \in {"answer", "garbled"}
    BY <1>4 DEF I!CallLLM, I!Says, I!Fails, I!Answers, I!Polled, n
  <2>2. \/ reply.kind = "answer" /\ ~(reply.cut /\ x.provider \in I!OpenAILike)
        \/ reply.kind = "garbled" /\ x.provider = "ollama"
    BY <1>4 DEF I!CallLLM, I!Says, I!Fails, I!Answers, I!Polled, I!OpenAILike, n
  <2>3. batch.retired /\ batch.stored = I!ParsePrinciples(reply)
    <3>1. x.replies[call.attempts] = reply
      BY <1>2
    <3> DEFINE marked == I!MarkConflicts(x, I!ParsePrinciples(reply))
    <3> HIDE DEF reply
    <3>2. batch = I!Batch(TRUE, I!ParsePrinciples(reply), marked, "none")
      BY <1>3, <1>4, <3>1 DEF I!DistillBatch, call
    <3> HIDE DEF batch, marked
    <3> QED BY <3>2 DEF I!Batch
  <2>4. I!MayBeLost(x.provider, reply) \/ I!ParsePrinciples(reply) = kept
    <3> SUFFICES ASSUME reply.kind = "answer", ~reply.cut, I!AsAsked(reply.text)
                 PROVE  I!ParsePrinciples(reply) = kept
      BY <2>2 DEF I!MayBeLost
    <3>1. I!Readable(reply.text)
      <4> HIDE DEF reply
      <4> QED BY <1>1, AskedIsReadable
    <3> QED BY <3>1 DEF I!ParsePrinciples
  <2> HIDE DEF batch, reply, call, kept
  <2> QED BY <2>3, <2>4
<1>5. CASE ~call.ok
  <2>1. /\ call.error \in {"unreachable", "invalid", "other"}
        /\ call.error = "unreachable" => I!Unreachable(x.provider, reply)
    BY <1>5 DEF I!CallLLM, I!Says, I!Fails, I!ErrorOf, n
  <2> HIDE DEF call, reply
  <2>2. batch = I!Untouched(call.error)
    BY <1>3, <1>5 DEF I!DistillBatch, call
  <2>3. ~batch.retired /\ batch.error = call.error
    BY <2>2 DEF I!Untouched, I!Batch
  <2> HIDE DEF batch
  <2>4. ASSUME I!ExitStatus(x, batch) # 1
        PROVE  reply.kind = "refused" /\ ~x.explicit
    <3>1. batch.error = "unreachable" /\ ~x.explicit /\ x.provider = "ollama"
      BY <2>1, <2>3, <2>4 DEF I!ExitStatus, I!SkipsForMissingProvider
    <3> QED BY <2>1, <2>3, <3>1 DEF I!Unreachable, I!OpenAILike
  <2> QED BY <2>3, <2>4
<1> QED BY <1>4, <1>5

-----------------------------------------------------------------------------
(* Settings. *)

(* Without a project's layer the global file is what is loaded. *)
LEMMA LoadsGlobal ==
  ASSUME NEW files, S!OnlyGlobal(files)
  PROVE  /\ S!Load(files) = [f \in S!Fields |-> S!Load(files)[f]]
         /\ \A f \in S!Fields : S!Load(files)[f] = files.global[f]
<1>1. files.project = S!Blank /\ files.private = S!Blank
  BY DEF S!OnlyGlobal
<1>2. \A f \in S!Fields : S!Blank[f] = IF f = "retries" THEN S!NoRetries ELSE S!Unset
  BY DEF S!Blank
<1> DEFINE inner == S!Over(files.global, S!Blank)
<1>3. \A f \in S!Fields : inner[f] = files.global[f]
  BY <1>2 DEF S!Over, S!Or, S!NoRetries
<1> HIDE DEF inner
<1>4. \A f \in S!Fields : S!Over(inner, S!Blank)[f] = files.global[f]
  BY <1>2, <1>3 DEF S!Over, S!Or, S!NoRetries
<1>5. S!Load(files) = S!Over(inner, S!Blank)
  BY <1>1 DEF S!Load, inner
<1>6. S!Load(files) = [f \in S!Fields |-> S!Load(files)[f]]
  BY DEF S!Load, S!Over
<1> QED BY <1>4, <1>5, <1>6

(* The names of the fields. *)
LEMMA FieldsAre ==
  /\ S!Texts = {"provider", "key", "model", "base", "timeout", "ollamaTimeout"}
  /\ S!Fields = S!Texts \cup {"retries"}
  /\ S!Unset = "unset" /\ S!NoRetries = 0
BY DEF S!Texts, S!Fields, S!Unset, S!NoRetries

(* What a process that has read the files finds in its environment. *)
LEMMA EnvFromFile ==
  ASSUME NEW files, NEW env, S!OnlyGlobal(files), S!Fields \subseteq DOMAIN env
  PROVE  /\ DOMAIN S!SetEnvFromFile(files, env) = DOMAIN env
         /\ \A f \in S!Texts : S!SetEnvFromFile(files, env)[f]
                                  = IF files.global[f] # S!Unset THEN files.global[f] ELSE env[f]
<1>1. \A f \in S!Texts : S!Load(files)[f] = files.global[f]
  BY LoadsGlobal, FieldsAre
<1>2. S!Texts \subseteq DOMAIN env
  BY FieldsAre
<1> QED BY <1>1, <1>2 DEF S!SetEnvFromFile, S!Or

(* The settings after the command. *)
Set(x) == S!Configured(S!Load(x.files), x.flags)
After(x) == S!Save(x.files, Set(x))

(* What an accepted command makes of the settings: nothing that a call needs is left
   open, and the key is the provider's. *)
Complete(cfg, x) ==
  LET old == x.files.global IN
  /\ cfg.provider = x.flags.provider /\ cfg.provider \in S!Providers
  /\ cfg.provider \in S!NeedsKey => cfg.key = cfg.provider
  /\ cfg.key \in {S!Unset, cfg.provider}
  /\ cfg.model # S!Unset
  /\ cfg.provider \in S!Addressed => cfg.base # S!Unset
  /\ cfg.timeout = S!Or(x.flags.timeout, old.timeout) /\ x.flags.timeout # "bad"
  /\ cfg.ollamaTimeout = S!Or(x.flags.ollamaTimeout, old.ollamaTimeout)
  /\ cfg.retries \in Nat \ {0}

(* The settings of an accepted command are complete. *)
LEMMA ConfiguredComplete ==
  ASSUME NEW x, S!IsCommand(x), S!OnlyGlobal(x.files), S!FlagsOK(x.flags), S!Compatible(Set(x))
  PROVE  Complete(Set(x), x)
<1> DEFINE old == S!Load(x.files)
           cfg == Set(x)
           flags == x.flags
           Keeps(field) == IF flags.provider = old.provider THEN old[field] ELSE S!Unset
           retries == IF flags.retries >= 0 THEN flags.retries ELSE old.retries
<1>1. /\ old.provider = x.files.global.provider /\ old.key = x.files.global.key
      /\ old.timeout = x.files.global.timeout /\ old.ollamaTimeout = x.files.global.ollamaTimeout
      /\ old.retries = x.files.global.retries
  BY LoadsGlobal, FieldsAre
<1> HIDE DEF old
<1>2. /\ cfg.provider = flags.provider /\ cfg.key = S!Or(flags.key, Keeps("key"))
      /\ cfg.model = S!Or(S!Or(flags.model, Keeps("model")), S!DefaultModelForProvider(flags.provider))
      /\ cfg.base = S!Or(S!Or(flags.base, Keeps("base")), S!DefaultBase(flags.provider))
      /\ cfg.timeout = S!Or(flags.timeout, old.timeout)
      /\ cfg.ollamaTimeout = S!Or(flags.ollamaTimeout, old.ollamaTimeout)
      /\ cfg.retries = IF retries = S!NoRetries THEN 3 ELSE retries
  BY DEF S!Configured, Set, old
<1> HIDE DEF cfg
<1>3. cfg.key \in {S!Unset, cfg.provider}
  BY <1>1, <1>2 DEF S!IsCommand, S!IsSaved, S!Or
<1>4. cfg.provider \in S!NeedsKey => cfg.key = cfg.provider
  <2>1. cfg.provider \in S!NeedsKey => cfg.key # S!Unset
    BY DEF S!Compatible, cfg
  <2> QED BY <2>1, <1>3
<1>5. cfg.provider \in S!Providers
  BY <1>2 DEF S!FlagsOK
<1>6. cfg.model # S!Unset
  <2>1. S!DefaultModelForProvider(flags.provider) # S!Unset
    BY FieldsAre DEF S!DefaultModelForProvider, S!DefaultModel
  <2> QED BY <1>2, <2>1 DEF S!Or
<1>7. cfg.provider \in S!Addressed => cfg.base # S!Unset
  <2>1. flags.provider \in S!Addressed => S!DefaultBase(flags.provider) # S!Unset
    BY FieldsAre DEF S!DefaultBase, S!Addressed, S!Providers
  <2> HIDE DEF Keeps
  <2> QED BY <1>2, <2>1 DEF S!Or
<1>8. cfg.retries \in Nat \ {0}
  <2>1. retries \in Nat
    BY <1>1 DEF S!IsCommand, S!IsSaved
  <2> HIDE DEF retries
  <2> QED BY <1>2, <2>1, FieldsAre
<1> QED BY <1>1, <1>2, <1>3, <1>4, <1>5, <1>6, <1>7, <1>8 DEF Complete, cfg, S!FlagsOK

(* What was saved is the only layer there is. *)
LEMMA AfterLoads ==
  ASSUME NEW x, S!IsCommand(x), S!OnlyGlobal(x.files)
  PROVE  S!OnlyGlobal(After(x)) /\ After(x).global = Set(x)
BY DEF S!IsCommand, S!OnlyGlobal, After, S!Save

(* In an environment that gives what the settings leave open, a call is the one that
   was tested. *)
Gives(e, x) == \A f \in {"timeout", "ollamaTimeout"} : Set(x)[f] = S!Unset => e[f] = x.env[f]

(* The test and a later call see the same address, key, model, limits and retries. *)
LEMMA CalledAsTested ==
  ASSUME NEW x, NEW e, S!IsCommand(x), S!OnlyGlobal(x.files), Complete(Set(x), x), Gives(e, x),
         x.flags.ollamaTimeout = S!Unset,
         ~(x.flags.provider = "antigravity" /\ Set(x).timeout = "negative")
  PROVE  S!Call(S!LoadConfig(After(x), e)) = S!Call(S!DistillConfig(x.files, x.env, Set(x)))
<1> DEFINE cfg == Set(x)
           old == x.files.global
           now == S!LoadConfig(x.files, x.env)
           tested == S!DistillConfig(x.files, x.env, cfg)
           later == S!LoadConfig(After(x), e)
<1>1. /\ S!Load(After(x)).provider = cfg.provider /\ S!Load(After(x)).key = cfg.key
      /\ S!Load(After(x)).model = cfg.model /\ S!Load(After(x)).base = cfg.base
      /\ S!Load(After(x)).timeout = cfg.timeout
      /\ S!Load(After(x)).ollamaTimeout = cfg.ollamaTimeout
      /\ S!Load(After(x)).retries = cfg.retries
  <2>1. S!OnlyGlobal(After(x)) /\ After(x).global = cfg
    BY AfterLoads
  <2> HIDE DEF cfg
  <2> QED BY <2>1, LoadsGlobal, FieldsAre
<1>2. /\ S!Load(x.files).timeout = old.timeout /\ S!Load(x.files).ollamaTimeout = old.ollamaTimeout
  BY LoadsGlobal, FieldsAre
<1>3. cfg.provider # S!Unset
  BY FieldsAre DEF Complete, S!Providers
<1> HIDE DEF cfg, old
<1>4. /\ later.provider = cfg.provider
      /\ cfg.key # S!Unset => later.key = cfg.key
      /\ later.model = cfg.model
      /\ cfg.base # S!Unset => later.base = cfg.base
      /\ later.timeout = S!Duration(S!Or(cfg.timeout, e.timeout), "30s")
      /\ later.ollamaTimeout = S!Duration(S!Or(cfg.ollamaTimeout, e.ollamaTimeout), "120s")
      /\ later.retries = cfg.retries
  <2>1. cfg.model # S!Unset /\ cfg.retries # S!NoRetries
    BY FieldsAre DEF Complete, cfg
  <2> QED BY <1>1, <1>3, <2>1 DEF S!LoadConfig, S!Or
<1>5. /\ now.timeout = S!Duration(S!Or(old.timeout, x.env.timeout), "30s")
      /\ now.ollamaTimeout = S!Duration(S!Or(old.ollamaTimeout, x.env.ollamaTimeout), "120s")
  BY <1>2 DEF S!LoadConfig
<1> HIDE DEF now, later
<1>6. /\ tested.provider = cfg.provider
      /\ cfg.key # S!Unset => tested.key = cfg.key
      /\ tested.model = cfg.model
      /\ cfg.base # S!Unset => tested.base = cfg.base
      /\ tested.timeout = IF cfg.timeout \in {S!Unset, "bad"} THEN now.timeout ELSE cfg.timeout
      /\ tested.ollamaTimeout = now.ollamaTimeout
      /\ tested.retries = cfg.retries
  <2>1. cfg.model # S!Unset /\ cfg.retries > 0
    BY DEF Complete, cfg
  <2> QED BY <2>1 DEF S!DistillConfig, S!Or, now
<1> HIDE DEF tested
<1>7. tested.ollamaTimeout = later.ollamaTimeout
  <2>1. cfg.ollamaTimeout = old.ollamaTimeout
    BY DEF Complete, cfg, old, S!Or
  <2>2. cfg.ollamaTimeout = S!Unset => e.ollamaTimeout = x.env.ollamaTimeout
    BY DEF Gives, cfg
  <2> QED BY <1>4, <1>5, <1>6, <2>1, <2>2 DEF S!Or
<1>8. /\ S!Duration(tested.timeout, "30s") = S!Duration(later.timeout, "30s")
      /\ cfg.provider = "antigravity" =>
            S!Duration(tested.timeout, "45s") = S!Duration(later.timeout, "45s")
  <2>1. /\ cfg.timeout = S!Or(x.flags.timeout, old.timeout) /\ x.flags.timeout # "bad"
        /\ cfg.provider = x.flags.provider
    BY DEF Complete, cfg, old
  <2>2. cfg.provider = "antigravity" => cfg.timeout # "negative"
    BY <2>1 DEF cfg
  <2>3. CASE cfg.timeout = S!Unset
    <3>1. old.timeout = S!Unset /\ e.timeout = x.env.timeout
      BY <2>1, <2>3 DEF S!Or, Gives, cfg
    <3> QED BY <1>4, <1>5, <1>6, <2>3, <3>1 DEF S!Or
  <2>4. CASE cfg.timeout = "bad"
    <3>1. old.timeout = "bad" /\ "bad" # S!Unset
      BY <2>1, <2>4, FieldsAre DEF S!Or
    <3>2. now.timeout = "30s" /\ later.timeout = "30s"
      BY <1>4, <1>5, <2>4, <3>1 DEF S!Or, S!Duration
    <3> QED BY <1>6, <2>4, <3>2
  <2>5. CASE cfg.timeout \notin {S!Unset, "bad"}
    <3>1. tested.timeout = cfg.timeout /\ later.timeout = S!Duration(cfg.timeout, "30s")
      BY <1>4, <1>6, <2>5 DEF S!Or
    <3> QED BY <2>2, <2>5, <3>1, FieldsAre DEF S!Duration
  <2> QED BY <2>3, <2>4, <2>5
<1>9. /\ tested.provider = later.provider /\ tested.model = later.model
      /\ tested.retries = later.retries
      /\ later.provider \in S!NeedsKey => tested.key = later.key
      /\ later.provider \in S!Addressed => tested.base = later.base
  <2>1. /\ cfg.provider \in S!NeedsKey => cfg.key # S!Unset
        /\ cfg.provider \in S!Addressed => cfg.base # S!Unset
    BY <1>3 DEF Complete, cfg
  <2> QED BY <2>1, <1>4, <1>6
<1>10. S!Call(tested) = S!Call(later)
  BY <1>4, <1>7, <1>8, <1>9 DEF S!Call
<1> QED BY <1>10 DEF tested, later, cfg

(* A saved command passed the checks, and saved what it tested. *)
LEMMA Accepted ==
  ASSUME NEW x, S!RunConfig(x.files, x.env, x.flags).saved
  PROVE  LET run == S!RunConfig(x.files, x.env, x.flags)
         IN /\ S!FlagsOK(x.flags) /\ S!Compatible(Set(x))
            /\ run.files = After(x)
            /\ run.tested = S!Call(S!DistillConfig(x.files, x.env, Set(x)))
BY DEF S!RunConfig, Set, After

(* In the environments a later process may have, the call is the tested one. *)
LEMMA TestedUsed ==
  ASSUME NEW x, S!IsCommand(x)
  PROVE  S!TestedIsUsed(x.files, x.env, x.flags)
<1> DEFINE run == S!RunConfig(x.files, x.env, x.flags)
           stale == S!SetEnvFromFile(x.files, x.env)
           again == S!SetEnvFromFile(After(x), stale)
           cfg == Set(x)
<1> HIDE DEF run, cfg
<1>1. SUFFICES ASSUME run.saved, S!OnlyGlobal(x.files), x.flags.ollamaTimeout = S!Unset,
                      ~(x.flags.provider = "antigravity" /\ run.files.global.timeout = "negative"),
                      NEW e \in {x.env, stale, S!SetEnvFromFile(run.files, stale)}
               PROVE  S!Call(S!LoadConfig(run.files, e)) = run.tested
  BY DEF S!TestedIsUsed, run
<1>2. /\ S!FlagsOK(x.flags) /\ S!Compatible(Set(x)) /\ run.files = After(x)
      /\ run.tested = S!Call(S!DistillConfig(x.files, x.env, cfg))
  BY <1>1, Accepted DEF run, cfg
<1>3. Complete(cfg, x)
  BY <1>1, <1>2, ConfiguredComplete DEF cfg
<1>4. S!OnlyGlobal(After(x)) /\ After(x).global = cfg
  BY <1>1, AfterLoads DEF cfg
<1>5. S!Fields \subseteq DOMAIN x.env
  BY DEF S!IsCommand
<1>6. /\ DOMAIN stale = DOMAIN x.env
      /\ \A f \in S!Texts : stale[f] = IF x.files.global[f] # S!Unset THEN x.files.global[f] ELSE x.env[f]
  BY <1>1, <1>5, EnvFromFile
<1> HIDE DEF stale
<1>7. \A f \in S!Texts : again[f] = IF cfg[f] # S!Unset THEN cfg[f] ELSE stale[f]
  <2>1. \A f \in S!Texts : again[f] = IF After(x).global[f] # S!Unset THEN After(x).global[f] ELSE stale[f]
    BY <1>4, <1>5, <1>6, EnvFromFile
  <2> QED BY <2>1, <1>4
<1> HIDE DEF again
<1>8. e \in {x.env, stale, again}
  BY <1>1, <1>2 DEF again
<1>9. Gives(e, x)
  <2>1. \A f \in {"timeout", "ollamaTimeout"} : cfg[f] = S!Unset => x.files.global[f] = S!Unset
    BY <1>3 DEF Complete, S!Or
  <2>2. {"timeout", "ollamaTimeout"} \subseteq S!Texts
    BY FieldsAre
  <2> QED BY <1>6, <1>7, <1>8, <2>1, <2>2 DEF Gives, cfg
<1>10. ~(x.flags.provider = "antigravity" /\ cfg.timeout = "negative")
  BY <1>1, <1>2, <1>4
<1>11. S!Call(S!LoadConfig(After(x), e)) = S!Call(S!DistillConfig(x.files, x.env, cfg))
  BY <1>1, <1>3, <1>9, <1>10, CalledAsTested DEF cfg
<1> QED BY <1>2, <1>11

(* The key a later call carries was issued for its provider. *)
LEMMA KeyOwn ==
  ASSUME NEW x, S!IsCommand(x)
  PROVE  S!KeyIsProviders(x.files, x.env, x.flags)
<1> DEFINE run == S!RunConfig(x.files, x.env, x.flags)
           e == S!SetEnvFromFile(x.files, x.env)
           later == S!LoadConfig(run.files, e)
           cfg == Set(x)
<1> HIDE DEF run, cfg, e
<1>1. SUFFICES ASSUME run.saved, S!OnlyGlobal(x.files)
               PROVE  S!Call(later).key \in {S!Unset, S!Call(later).provider}
  BY DEF S!KeyIsProviders, run, e
<1>2. S!FlagsOK(x.flags) /\ S!Compatible(Set(x)) /\ run.files = After(x)
  BY <1>1, Accepted DEF run
<1>3. Complete(cfg, x)
  BY <1>1, <1>2, ConfiguredComplete DEF cfg
<1>4. S!OnlyGlobal(run.files) /\ run.files.global = cfg
  BY <1>1, <1>2, AfterLoads DEF cfg
<1>5. S!Load(run.files).provider = cfg.provider /\ S!Load(run.files).key = cfg.key
  BY <1>4, LoadsGlobal, FieldsAre
<1>6. cfg.provider # S!Unset
  BY <1>3, FieldsAre DEF Complete, S!Providers
<1>7. later.provider = cfg.provider /\ (cfg.key # S!Unset => later.key = cfg.key)
  BY <1>5, <1>6 DEF S!LoadConfig, S!Or
<1> HIDE DEF later
<1>8. later.provider \in S!NeedsKey => later.key = later.provider
  BY <1>3, <1>6, <1>7 DEF Complete
<1> QED BY <1>8 DEF S!Call

(* What an accepted command saves is what the next one may find. *)
THEOREM ConfigSaves ==
  ASSUME NEW x, S!IsCommand(x), S!OnlyGlobal(x.files), S!RunConfig(x.files, x.env, x.flags).saved
  PROVE  S!IsSaved(S!RunConfig(x.files, x.env, x.flags).files.global)
<1>1. S!FlagsOK(x.flags) /\ S!Compatible(Set(x)) /\ S!RunConfig(x.files, x.env, x.flags).files = After(x)
  BY Accepted
<1>2. Complete(Set(x), x)
  BY <1>1, ConfiguredComplete
<1>3. After(x).global = Set(x)
  BY AfterLoads
<1> QED BY <1>1, <1>2, <1>3 DEF Complete, S!IsSaved

-----------------------------------------------------------------------------
(* Verification. *)

(* The members of D have times, and ids of their own. *)
Timed(D) ==
  /\ \A d \in D : d.id \in Int /\ d.at \in Int
  /\ \A c, d \in D : c.id = d.id => c = d

(* u lists the members of such a set once each. *)
Listing(u) ==
  /\ u \in Seq(Members(u)) /\ Timed(Members(u))
  /\ \A i, j \in DOMAIN u : u[i] = u[j] => i = j

(* The members of D by time, then by id: the only order they have. *)
Rank(D, d) == Cardinality({c \in D : V!Earlier(c, d)})
Canon(D) == [n \in 1..Cardinality(D) |-> CHOOSE d \in D : Rank(D, d) = n - 1]

(* Time, then id, is a strict total order of such a set. *)
LEMMA EarlierOrders ==
  ASSUME NEW D, Timed(D), NEW c \in D, NEW d \in D
  PROVE  /\ ~V!Earlier(c, c)
         /\ c # d => (V!Earlier(c, d) <=> ~V!Earlier(d, c))
         /\ \A b \in D : V!Earlier(b, c) /\ V!Earlier(c, d) => V!Earlier(b, d)
BY DEF Timed, V!Earlier

(* So every place in it has exactly one member. *)
LEMMA RankPlaces ==
  ASSUME NEW D, Timed(D), IsFiniteSet(D)
  PROVE  /\ \A c, d \in D : Rank(D, c) = Rank(D, d) => c = d
         /\ \A n \in 1..Cardinality(D) : \E d \in D : Rank(D, d) = n - 1
<1> DEFINE Q == {x \in D \X D : V!Earlier(x[1], x[2])}
<1>1. \A c, d \in D : <<c, d>> \in Q <=> V!Earlier(c, d)
  OBVIOUS
<1> HIDE DEF Q
<1>2. Row(D, Q)
  <2>1. \A i \in D : <<i, i>> \notin Q
    BY <1>1, EarlierOrders
  <2>2. \A i, j, k \in D : <<i, j>> \in Q /\ <<j, k>> \in Q => <<i, k>> \in Q
    BY <1>1, EarlierOrders
  <2>3. \A i, j \in D : i # j => <<i, j>> \in Q \/ <<j, i>> \in Q
    BY <1>1, EarlierOrders
  <2> QED BY <2>1, <2>2, <2>3 DEF Row
<1>3. Places(D, Q)
  BY <1>2, RowPlaces
<1>4. \A d \in D : Cardinality(Before(D, Q, d)) = Rank(D, d)
  <2>1. \A d \in D : Before(D, Q, d) = {c \in D : V!Earlier(c, d)}
    BY <1>1 DEF Before
  <2> QED BY <2>1 DEF Rank
<1> QED BY <1>3, <1>4 DEF Places

(* Sorting a list of such a set gives the order of the set. *)
LEMMA SortedIsCanon ==
  ASSUME NEW u, Listing(u)
  PROVE  V!Sorted(u, V!Earlier) = Canon(Members(u))
<1> DEFINE D == Members(u)
           A == DOMAIN u
           Prec(k, i) == V!Earlier(u[k], u[i]) \/ (k < i /\ ~V!Earlier(u[i], u[k]))
           Place(i) == Cardinality({k \in A : Prec(k, i)})
<1>1. A = 1..Len(u) /\ Len(u) \in Nat /\ IsFiniteSet(A)
  <2>1. A = 1..Len(u) /\ Len(u) \in Nat
    BY DEF Listing
  <2> QED BY <2>1, FS_Interval
<1>2. \A i \in A : u[i] \in D
  BY DEF Members
<1>3. Timed(D) /\ \A i, j \in A : u[i] = u[j] => i = j
  BY DEF Listing
<1>4. \A d \in D : \E i \in A : d = u[i]
  BY DEF Members
<1> HIDE DEF D, A
<1>5. ASSUME NEW B \in SUBSET A
      PROVE  IsFiniteSet({u[k] : k \in B}) /\ Cardinality(B) = Cardinality({u[k] : k \in B})
  <2> DEFINE T == {u[k] : k \in B}
             f == [k \in B |-> u[k]]
  <2>1. f \in Bijection(B, T)
    <3>1. f \in [B -> T] /\ \A t \in T : \E k \in B : f[k] = t
      OBVIOUS
    <3>2. \A k, l \in B : f[k] = f[l] => k = l
      BY <1>3
    <3> HIDE DEF f, T
    <3> QED BY <3>1, <3>2, Fun_IsBij
  <2>2. IsFiniteSet(B)
    BY <1>1, FS_Subset
  <2> HIDE DEF f, T
  <2>3. ExistsBijection(B, T)
    BY <2>1 DEF ExistsBijection
  <2>4. IsFiniteSet(T) /\ Cardinality(T) = Cardinality(B)
    BY <2>2, <2>3, FS_Bijection
  <2> QED BY <2>4 DEF T
<1>6. IsFiniteSet(D) /\ Cardinality(D) = Cardinality(A)
  <2>1. D = {u[k] : k \in A}
    BY DEF D, A, Members
  <2> QED BY <2>1, <1>5
<1>7. \A i \in A : Place(i) = Rank(D, u[i])
  <2> TAKE i \in A
  <2> DEFINE B == {k \in A : Prec(k, i)}
  <2>1. \A k \in A : Prec(k, i) <=> V!Earlier(u[k], u[i])
    <3> TAKE k \in A
    <3>1. CASE k = i
      <4>1. ~(k < i)
        BY <1>1, <3>1
      <4> QED BY <3>1, <4>1
    <3>2. CASE k # i
      <4>1. u[k] # u[i] /\ u[k] \in D /\ u[i] \in D
        BY <3>2, <1>2, <1>3
      <4>2. V!Earlier(u[k], u[i]) <=> ~V!Earlier(u[i], u[k])
        BY <4>1, <1>3, EarlierOrders
      <4> QED BY <4>2
    <3> QED BY <3>1, <3>2
  <2>2. {u[k] : k \in B} = {c \in D : V!Earlier(c, u[i])}
    <3> HIDE DEF Prec
    <3> QED BY <2>1, <1>2, <1>4
  <2>3. Cardinality(B) = Cardinality({u[k] : k \in B})
    <3>1. B \in SUBSET A
      OBVIOUS
    <3> HIDE DEF B
    <3> QED BY <3>1, <1>5
  <2> QED BY <2>2, <2>3 DEF Rank
<1>8. V!Sorted(u, V!Earlier) = [n \in 1..Cardinality(A) |-> u[CHOOSE i \in A : Place(i) = n - 1]]
  BY DEF V!Sorted, V!Arranged, V!Cardinality, Cardinality, A
<1> HIDE DEF Place
<1>9. ASSUME NEW n \in 1..Cardinality(D)
      PROVE  u[CHOOSE i \in A : Place(i) = n - 1] = CHOOSE d \in D : Rank(D, d) = n - 1
  <2>1. PICK d \in D : Rank(D, d) = n - 1
    BY <1>3, <1>6, RankPlaces
  <2>2. \E i \in A : Place(i) = n - 1
    BY <2>1, <1>4, <1>7
  <2> DEFINE i == CHOOSE i \in A : Place(i) = n - 1
             e == CHOOSE e \in D : Rank(D, e) = n - 1
  <2>3. i \in A /\ Place(i) = n - 1
    BY <2>2
  <2>4. e \in D /\ Rank(D, e) = n - 1
    BY <2>1
  <2> HIDE DEF i, e
  <2>5. u[i] \in D /\ Rank(D, u[i]) = Rank(D, e)
    BY <2>3, <2>4, <1>2, <1>7
  <2>6. u[i] = e
    BY <2>4, <2>5, <1>3, <1>6, RankPlaces
  <2> QED BY <2>6 DEF i, e
<1> QED BY <1>6, <1>8, <1>9 DEF Canon, D

(* The members at some places are a listing of their own. *)
LEMMA KeepLists ==
  ASSUME NEW u, Listing(u), NEW P \in SUBSET DOMAIN u
  PROVE  Listing(V!Keep(u, P)) /\ Members(V!Keep(u, P)) = {u[i] : i \in P}
<1> DEFINE t == Keep(u, P)
           N == Cardinality(P)
<1>0. V!Keep(u, P) = t
  BY DEF V!Keep, V!Arranged, V!Cardinality, Keep, Arranged, Cardinality
<1>1. IsFiniteSet(P) /\ P \subseteq Nat
  <2>1. DOMAIN u = 1..Len(u) /\ Len(u) \in Nat
    BY DEF Listing
  <2>2. IsFiniteSet(1..Len(u)) /\ P \in SUBSET (1..Len(u))
    BY <2>1, FS_Interval
  <2>3. IsFiniteSet(P)
    BY <2>2, FS_Subset
  <2> QED BY <2>1, <2>3
<1>2. KeptAt(t, u, P)
  BY <1>1, KeepIs
<1>3. PICK pos \in [1..N -> P] :
        /\ \A n \in 1..N : t[n] = u[pos[n]]
        /\ \A i \in P : \E n \in 1..N : pos[n] = i
        /\ \A m, n \in 1..N : m < n => pos[m] < pos[n]
  BY <1>2 DEF KeptAt
<1>4. DOMAIN t = 1..N /\ N \in Nat
  BY <1>2 DEF KeptAt
<1>5. u \in Seq(Members(u))
  BY DEF Listing
<1>6. t \in Seq(Members(u))
  BY <1>5, KeepKeeps
<1> HIDE DEF t, N
<1>7. Members(t) = {u[i] : i \in P}
  BY <1>3, <1>4 DEF Members
<1>8. t \in Seq(Members(t)) /\ Members(t) \subseteq Members(u)
  BY <1>6, SeqMembers
<1>9. Timed(Members(t))
  BY <1>8 DEF Listing, Timed
<1>10. \A m, n \in DOMAIN t : t[m] = t[n] => m = n
  <2> SUFFICES ASSUME NEW m \in 1..N, NEW n \in 1..N, t[m] = t[n], m # n PROVE FALSE
    BY <1>4
  <2>1. pos[m] = pos[n]
    <3>1. u[pos[m]] = u[pos[n]] /\ pos[m] \in DOMAIN u /\ pos[n] \in DOMAIN u
      BY <1>3
    <3> QED BY <3>1 DEF Listing
  <2>2. pos[m] \in Nat /\ pos[n] \in Nat
    BY <1>1
  <2>3. m < n \/ n < m
    OBVIOUS
  <2>4. pos[m] < pos[n] \/ pos[n] < pos[m]
    BY <2>3, <1>3
  <2> QED BY <2>1, <2>2, <2>4
<1> QED BY <1>0, <1>7, <1>8, <1>9, <1>10 DEF Listing

(* What has the times and ids of a listing is one. *)
LEMMA MapLists ==
  ASSUME NEW u, Listing(u), NEW f, \A d \in Members(u) : f[d].id = d.id /\ f[d].at = d.at
  PROVE  LET t == [i \in DOMAIN u |-> f[u[i]]]
         IN Listing(t) /\ Members(t) = {f[d] : d \in Members(u)}
<1> DEFINE t == [i \in DOMAIN u |-> f[u[i]]]
<1>1. DOMAIN t = DOMAIN u /\ \A i \in DOMAIN u : t[i] = f[u[i]]
  OBVIOUS
<1>2. DOMAIN u = 1..Len(u) /\ Len(u) \in Nat
  BY DEF Listing
<1>3. t \in Seq({f[u[i]] : i \in DOMAIN u})
  BY <1>2
<1> HIDE DEF t
<1>4. Members(t) = {f[d] : d \in Members(u)} /\ Members(t) = {f[u[i]] : i \in DOMAIN u}
  BY <1>1 DEF Members
<1>5. \A i, j \in DOMAIN u : t[i] = t[j] => i = j
  <2> TAKE i, j \in DOMAIN u
  <2>1. u[i] \in Members(u) /\ u[j] \in Members(u)
    BY DEF Members
  <2> QED BY <1>1, <2>1 DEF Listing, Timed
<1>6. Timed(Members(t))
  <2>1. \A c, d \in Members(u) : f[c].id = f[d].id => f[c] = f[d]
    BY DEF Listing, Timed
  <2>2. \A d \in Members(u) : f[d].id \in Int /\ f[d].at \in Int
    BY DEF Listing, Timed
  <2> QED BY <1>4, <2>1, <2>2 DEF Timed
<1> QED BY <1>1, <1>3, <1>4, <1>5, <1>6 DEF Listing, t

(* The events of a session are listed, in whatever order they are read. *)
LEMMA SessionLists ==
  ASSUME NEW x, V!IsSession(x)
  PROVE  Listing(x.events)
<1>1. x.events \in Seq(Members(x.events))
  BY DEF V!IsSession, V!IsList, V!Members, Members
<1>2. Timed(Members(x.events))
  BY DEF V!IsSession, Timed, Members
<1> QED BY <1>1, <1>2 DEF V!IsSession, Listing

Reordered(x, p) == [x EXCEPT !.events = [i \in DOMAIN x.events |-> x.events[p[i]]]]

(* Reading the events in another order changes nothing else of a session. *)
LEMMA ReorderedLists ==
  ASSUME NEW x, V!IsSession(x), NEW p \in V!Bijection(DOMAIN x.events, DOMAIN x.events)
  PROVE  LET y == Reordered(x, p)
         IN /\ Listing(y.events) /\ Members(y.events) = Members(x.events)
            /\ y.commits = x.commits /\ y.failures = x.failures
<1> DEFINE y == Reordered(x, p)
           u == x.events
           A == DOMAIN u
           t == [i \in A |-> u[p[i]]]
<1>1. y.events = t /\ y.commits = x.commits /\ y.failures = x.failures
  BY DEF V!IsSession, Reordered
<1>2. /\ p \in [A -> A] /\ \A i, j \in A : p[i] = p[j] => i = j
      /\ \A k \in A : \E i \in A : p[i] = k
  BY DEF V!Bijection, V!Injection, V!Surjection, V!IsInjective
<1>3. Listing(u)
  BY SessionLists
<1>4. A = 1..Len(u) /\ Len(u) \in Nat
  BY <1>3 DEF Listing
<1>5. \A i \in A : u[i] \in Members(u)
  BY DEF Members
<1>6. t \in Seq(Members(u)) /\ DOMAIN t = A
  <2> HIDE DEF u
  <2> QED BY <1>2, <1>4, <1>5
<1> HIDE DEF u, A, y
<1>7. \A i \in A : t[i] = u[p[i]]
  OBVIOUS
<1> HIDE DEF t
<1>8. Members(t) = Members(u)
  <2>1. Members(u) = {u[i] : i \in A} /\ Members(t) = {t[i] : i \in A}
    BY <1>6 DEF Members, A
  <2> QED BY <2>1, <1>2, <1>7
<1>9. \A i, j \in A : t[i] = t[j] => i = j
  <2>1. \A i, j \in A : u[i] = u[j] => i = j
    BY <1>3 DEF Listing, A
  <2> QED BY <2>1, <1>2, <1>7
<1>10. Listing(t)
  BY <1>3, <1>6, <1>8, <1>9 DEF Listing
<1> QED BY <1>1, <1>8, <1>10 DEF y, u

(* Test runs and changes depend on which events there are, and on nothing else. *)
RunsOf(D) == Canon({V!TestRun(e) : e \in {e \in D : V!IsTest(e)}})
Writes(D) == {e \in D : V!IsWriteEvent(e) /\ e.of # "unnamed"}
EditsOf(D) == Canon({V!Change(e) : e \in {e \in Writes(D) : V!IsCode(e)}})
CommitsOf(cs) ==
  LET commits == V!Having(cs, LAMBDA c : c.lines > 0)
  IN V!Sorted([i \in DOMAIN commits |-> V!CommitChange(commits[i])], V!Earlier)

(* The test runs are sorted from the tests among the events. *)
LEMMA RunsAre ==
  ASSUME NEW x, Listing(x.events)
  PROVE  V!CollectTestRuns(x) = RunsOf(Members(x.events))
<1> DEFINE u == x.events
           P == {i \in DOMAIN u : V!IsTest(u[i])}
           t == V!Keep(u, P)
           f == [e \in Members(u) |-> V!TestRun(e)]
           r == [i \in DOMAIN t |-> f[t[i]]]
<1>1. V!Having(u, V!IsTest) = t
  BY DEF V!Having
<1>2. Listing(t) /\ Members(t) = {u[i] : i \in P}
  <2>1. P \in SUBSET DOMAIN u
    OBVIOUS
  <2> HIDE DEF P, u
  <2> QED BY <2>1, KeepLists DEF u
<1>3. Members(t) = {e \in Members(u) : V!IsTest(e)}
  BY <1>2 DEF Members
<1> HIDE DEF t
<1>4. \A e \in Members(t) : f[e] = V!TestRun(e) /\ f[e].id = e.id /\ f[e].at = e.at
  BY <1>3 DEF V!TestRun
<1> HIDE DEF f
<1>5. Listing(r) /\ Members(r) = {f[e] : e \in Members(t)}
  BY <1>2, <1>4, MapLists
<1>6. r = [i \in DOMAIN t |-> V!TestRun(t[i])]
  BY <1>4 DEF Members
<1>7. V!CollectTestRuns(x) = V!Sorted(r, V!Earlier)
  BY <1>1, <1>6 DEF V!CollectTestRuns
<1>8. Members(r) = {V!TestRun(e) : e \in {e \in Members(u) : V!IsTest(e)}}
  BY <1>3, <1>4, <1>5
<1> HIDE DEF r
<1>9. V!Sorted(r, V!Earlier) = Canon(Members(r))
  BY <1>5, SortedIsCanon
<1> QED BY <1>7, <1>8, <1>9 DEF RunsOf

(* The changes are sorted from the edits, or from the commits if nothing was written. *)
LEMMA ChangesAre ==
  ASSUME NEW x, Listing(x.events)
  PROVE  V!CollectChanges(x) = IF Writes(Members(x.events)) # {} THEN EditsOf(Members(x.events))
                               ELSE CommitsOf(x.commits)
<1> DEFINE u == x.events
           Test(e) == V!IsWriteEvent(e) /\ e.of # "unnamed"
           P == {i \in DOMAIN u : V!IsWriteEvent(u[i]) /\ u[i].of # "unnamed"}
           t == V!Keep(u, P)
           O == {i \in DOMAIN t : V!IsCode(t[i])}
           w == V!Keep(t, O)
           f == [e \in Members(u) |-> V!Change(e)]
           r == [i \in DOMAIN w |-> f[w[i]]]
<1>1. V!Having(u, LAMBDA e : V!IsWriteEvent(e) /\ e.of # "unnamed") = t
  BY DEF V!Having
<1>2. Listing(t) /\ Members(t) = {u[i] : i \in P}
  <2>1. P \in SUBSET DOMAIN u
    OBVIOUS
  <2> HIDE DEF P, u
  <2> QED BY <2>1, KeepLists DEF u
<1>3. Members(t) = Writes(Members(u))
  BY <1>2 DEF Members, Writes
<1> HIDE DEF t
<1>4. V!Having(t, V!IsCode) = w
  BY DEF V!Having
<1>5. Listing(w) /\ Members(w) = {t[i] : i \in O}
  <2>1. O \in SUBSET DOMAIN t
    OBVIOUS
  <2> HIDE DEF O
  <2> QED BY <2>1, <1>2, KeepLists
<1>6. Members(w) = {e \in Writes(Members(u)) : V!IsCode(e)}
  BY <1>3, <1>5 DEF Members
<1> HIDE DEF w
<1>7. \A e \in Members(w) : f[e] = V!Change(e) /\ f[e].id = e.id /\ f[e].at = e.at
  BY <1>6 DEF V!Change, Writes
<1> HIDE DEF f
<1>8. Listing(r) /\ Members(r) = {f[e] : e \in Members(w)}
  BY <1>5, <1>7, MapLists
<1>9. r = [i \in DOMAIN w |-> V!Change(w[i])]
  BY <1>7 DEF Members
<1>10. Members(r) = {V!Change(e) : e \in {e \in Writes(Members(u)) : V!IsCode(e)}}
  BY <1>6, <1>7, <1>8
<1> HIDE DEF r
<1>11. V!Sorted(r, V!Earlier) = EditsOf(Members(u))
  BY <1>8, <1>10, SortedIsCanon DEF EditsOf
<1>12. t # <<>> <=> Writes(Members(u)) # {}
  <2>1. t \in Seq(Members(t))
    BY <1>2 DEF Listing
  <2>2. t = <<>> <=> DOMAIN t = {}
    BY <2>1
  <2> QED BY <2>2, <1>3 DEF Members
<1>13. V!CollectChanges(x)
         = V!Sorted(IF t # <<>> THEN r
                    ELSE LET commits == V!Having(x.commits, LAMBDA c : c.lines > 0)
                         IN [i \in DOMAIN commits |-> V!CommitChange(commits[i])], V!Earlier)
  BY <1>1, <1>4, <1>9 DEF V!CollectChanges
<1>14. CASE t # <<>>
  BY <1>11, <1>12, <1>13, <1>14
<1>15. CASE t = <<>>
  BY <1>12, <1>13, <1>15 DEF CommitsOf
<1> QED BY <1>14, <1>15

(* The drafts that changes, test runs and failure signatures make. *)
FailuresOf(fs, runs) ==
  LET repeated == V!Having(fs, LAMBDA f : ~f.resolved /\ f.repeats >= 2
                                          /\ Len(V!FailedRuns(f, runs)) = 1)
  IN V!Sorted([i \in DOMAIN repeated |->
                 LET run == V!FailedRuns(repeated[i], runs)[1]
                 IN [id |-> repeated[i].id, at |-> repeated[i].at, family |-> run.family,
                     scope |-> run.scope, target |-> run.target]],
              LAMBDA a, b : a.at < b.at)
DraftsOf(changes, runs, failures) ==
  UNION {V!DraftsFor(changes[i], runs, failures) : i \in DOMAIN changes}

(* Everything else is computed from changes, runs and signatures. *)
LEMMA DraftsAre ==
  ASSUME NEW x
  PROVE  V!DetectVerification(x) =
           DraftsOf(V!CollectChanges(x), V!CollectTestRuns(x),
                    FailuresOf(x.failures, V!CollectTestRuns(x)))
<1> DEFINE runs == V!CollectTestRuns(x)
<1>1. V!CollectFailures(x, runs) = FailuresOf(x.failures, runs)
  BY DEF V!CollectFailures, FailuresOf
<1> QED BY <1>1 DEF V!DetectVerification, DraftsOf

(* Therefore the drafts are the same in every order of the events. *)
LEMMA OrderNeverMatters ==
  ASSUME NEW x, V!IsSession(x)
  PROVE  V!OrderFree(x)
<1> SUFFICES ASSUME NEW p \in V!Bijection(DOMAIN x.events, DOMAIN x.events)
             PROVE  V!DetectVerification(Reordered(x, p)) = V!DetectVerification(x)
  BY DEF V!OrderFree, Reordered
<1> DEFINE y == Reordered(x, p)
<1>1. /\ Listing(y.events) /\ Members(y.events) = Members(x.events)
      /\ y.commits = x.commits /\ y.failures = x.failures
  BY ReorderedLists
<1>2. Listing(x.events)
  BY SessionLists
<1> HIDE DEF y
<1>3. V!CollectTestRuns(y) = V!CollectTestRuns(x)
  BY <1>1, <1>2, RunsAre
<1>4. V!CollectChanges(y) = V!CollectChanges(x)
  BY <1>1, <1>2, ChangesAre
<1>5. V!DetectVerification(y) = V!DetectVerification(x)
  BY <1>1, <1>3, <1>4, DraftsAre
<1> QED BY <1>5 DEF y

-----------------------------------------------------------------------------
(* The inductive invariant: an input is one that was given, and the output is what the
   computation that was asked for makes of it. *)
Answered ==
  \/ task = "idle"
  \/ task = "verify" /\ input \in Sessions /\ output = V!DetectVerification(input)
  \/ /\ task = "config" /\ input \in Commands
     /\ output = S!RunConfig(input.files, input.env, input.flags)
  \/ task = "recall" /\ input \in Prompts /\ output = R!SessionRecall(input)
  \/ task = "tool" /\ input \in Prompts /\ output = R!GetPrinciples(input)
  \/ task = "inject" /\ input \in Prompts /\ output = R!InjectPrinciples(input)
  \/ task = "fetch" /\ input \in Scripts /\ output = C!Fetch(input.job, input.lines)
  \/ task = "distill" /\ input \in Batches /\ output = I!DistillBatch(input)

(* Every step keeps it: the input and the answer to it are returned together. *)
LEMMA AnsweredSteps ==
  ASSUME Answered, [Next]_vars
  PROVE  Answered'
<1>1. CASE DetectVerification
  BY <1>1 DEF DetectVerification, Compute, Answered
<1>2. CASE RunConfig
  BY <1>2 DEF RunConfig, Compute, Answered
<1>3. CASE SessionRecall
  BY <1>3 DEF SessionRecall, Compute, Answered
<1>4. CASE GetPrinciples
  BY <1>4 DEF GetPrinciples, Compute, Answered
<1>5. CASE InjectPrinciples
  BY <1>5 DEF InjectPrinciples, Compute, Answered
<1>6. CASE FetchContext7MCP
  BY <1>6 DEF FetchContext7MCP, Compute, Answered
<1>7. CASE DistillBatch
  BY <1>7 DEF DistillBatch, Compute, Answered
<1>8. CASE Return
  BY <1>8 DEF Return, Answered
<1>9. CASE UNCHANGED vars
  BY <1>9 DEF vars, Answered
<1> QED BY <1>1, <1>2, <1>3, <1>4, <1>5, <1>6, <1>7, <1>8, <1>9 DEF Next

(* Every reachable state has an answer to its input. *)
LEMMA AlwaysAnswered == Spec => []Answered
<1>1. Init => Answered
  BY DEF Init, Answered
<1>2. Answered /\ [Next]_vars => Answered'
  BY AnsweredSteps
<1> QED BY <1>1, <1>2, PTL DEF Spec

(* DetectVerification gives the same drafts in whatever order the events of a session are
   read: of the events it keeps and sorts, the result depends only on which they are. *)
THEOREM VerificationCorrect == Spec => []VerificationOrderFree
<1>1. Answered => VerificationOrderFree
  <2> SUFFICES ASSUME Answered, task = "verify" PROVE V!OrderFree(input)
    BY DEF VerificationOrderFree
  <2>1. V!IsSession(input)
    BY SessionsAssumption DEF Answered
  <2> QED BY <2>1, OrderNeverMatters
<1> QED BY <1>1, AlwaysAnswered, PTL

(* After an accepted `forge config` a provider is called with the settings that were
   tested, and with a key of its own, whatever environment the caller has by then. *)
THEOREM ConfiguredCorrect == Spec => []ConfiguredIsUsed
<1>1. Answered => ConfiguredIsUsed
  <2> SUFFICES ASSUME Answered, task = "config"
               PROVE  /\ S!TestedIsUsed(input.files, input.env, input.flags)
                      /\ S!KeyIsProviders(input.files, input.env, input.flags)
    BY DEF ConfiguredIsUsed
  <2>1. S!IsCommand(input)
    BY CommandsAssumption DEF Answered
  <2> QED BY <2>1, TestedUsed, KeyOwn
<1> QED BY <1>1, AlwaysAnswered, PTL

(* An agent is shown active principles: global ones, those of its repository, and where a
   key is missing those of its project's name; and another project's memory only when its
   own has none of that kind to show. *)
THEOREM ScopeCorrect == Spec => []RecallInScope
<1>1. Answered => RecallInScope
  <2> SUFFICES ASSUME Answered, task \in {"recall", "tool", "inject"}
               PROVE  R!StaysInScope(input, output) /\ R!OwnProjectFirst(input, output)
    BY DEF RecallInScope
  <2>1. R!IsPrompt(input)
    BY PromptsAssumption DEF Answered
  <2>2. \/ output = R!SessionRecall(input) \/ output = R!GetPrinciples(input)
        \/ output = R!InjectPrinciples(input)
    BY DEF Answered
  <2>3. InOrder(input, output)
    BY <2>1, <2>2, RecallInOrder, ToolInScope, InjectionInScope
  <2> QED BY <2>3 DEF InOrder
<1> QED BY <1>1, AlwaysAnswered, PTL

(* What a fetch stores is what the server wrote in answer to the fetch's own request,
   unless the server sent a request of the same number. *)
THEOREM FetchCorrect == Spec => []FetchStoresOwnAnswer
<1>1. Answered => FetchStoresOwnAnswer
  <2> SUFFICES ASSUME Answered, task = "fetch" PROVE C!StoresOwnAnswer(input.job, input.lines)
    BY DEF FetchStoresOwnAnswer
  <2>1. C!IsScript(input)
    BY ScriptsAssumption DEF Answered
  <2> QED BY <2>1, FetchStoresOwn
<1> QED BY <1>1, AlwaysAnswered, PTL

(* When a batch is retired every principle of the reply that is worth keeping is stored,
   unless it is one of the cases of MayBeLost; when it is not, the command fails. *)
THEOREM BatchCorrect == Spec => []BatchNotLost
<1>1. Answered => BatchNotLost
  <2> SUFFICES ASSUME Answered, task = "distill" PROVE I!NotLost(input, output)
    BY DEF BatchNotLost
  <2>1. I!IsBatch(input) /\ output = I!DistillBatch(input)
    BY BatchesAssumption DEF Answered
  <2> QED BY <2>1, BatchKept
<1> QED BY <1>1, AlwaysAnswered, PTL
=============================================================================
