-------------------------- MODULE PrinciplesProofs --------------------------
(***************************************************************************)
(* Proofs about the principles: the life of a row, for any ids, titles and *)
(* decisions (PrincipleLifecycle), and the key that its signature is made  *)
(* with, for any processes and bounds (SigningKeys).                       *)
(***************************************************************************)
EXTENDS PrincipleLifecycle, SigningKeys, SequenceTheorems, TLAPS

(***************************************************************************)
(* PrincipleLifecycle: what each statement on the table keeps, and the     *)
(* inductive invariant IInv.                                               *)
(***************************************************************************)

-----------------------------------------------------------------------------
(* The statements on the table.  Each keeps the type, leaves no conflicting *)
(* row without a peer, and leaves a row alone that it does not name.        *)

(* MarkConflicting, whatever the two ids are. *)
LEMMA MarkKeeps ==
    ASSUME NEW r \in Table, NEW a \in Ids \cup {Stray}, NEW b \in Ids \cup {Stray}
    PROVE  /\ MarkConflicting(r, a, b) \in Table
           /\ Linked(r) => Linked(MarkConflicting(r, a, b))
           /\ \A i \in Ids \ {a, b} : Alone(r, i) => Alone(MarkConflicting(r, a, b), i)
<1>0. a # None /\ b # None
  BY PrincipleAssumption
<1>1. MarkConflicting(r, a, b) \in Table
  BY DEF MarkConflicting, Table, Row, Exists
<1>2. Linked(r) => Linked(MarkConflicting(r, a, b))
  BY <1>0 DEF MarkConflicting, Table, Row, Exists, Linked
<1>3. \A i \in Ids \ {a, b} : Alone(r, i) => Alone(MarkConflicting(r, a, b), i)
  BY DEF MarkConflicting, Table, Row, Exists, Alone
<1> QED BY <1>1, <1>2, <1>3

(* ClearConflictStatus *)
LEMMA ClearKeeps ==
    ASSUME NEW r \in Table, NEW k \in Ids
    PROVE  /\ ClearConflictStatus(r, k) \in Table
           /\ Linked(r) => Linked(ClearConflictStatus(r, k))
           /\ \A i \in Ids \ {k} : Alone(r, i) => Alone(ClearConflictStatus(r, k), i)
<1>1. ClearConflictStatus(r, k) \in Table
  BY DEF ClearConflictStatus, Table, Row, Exists
<1>2. Linked(r) => Linked(ClearConflictStatus(r, k))
  BY DEF ClearConflictStatus, Table, Row, Exists, Linked
<1>3. \A i \in Ids \ {k} : Alone(r, i) => Alone(ClearConflictStatus(r, k), i)
  BY PrincipleAssumption DEF ClearConflictStatus, Table, Row, Exists, Alone
<1> QED BY <1>1, <1>2, <1>3

(* ResolvePrincipleConflict *)
LEMMA ResolveKeeps ==
    ASSUME NEW r \in Table, NEW k \in Ids, NEW d \in Ids
    PROVE  /\ ResolvePrincipleConflict(r, k, d) \in Table
           /\ Linked(r) => Linked(ResolvePrincipleConflict(r, k, d))
           /\ \A i \in Ids \ {k, d} : Alone(r, i) => Alone(ResolvePrincipleConflict(r, k, d), i)
<1>1. ResolvePrincipleConflict(r, k, d) \in Table
  BY DEF ResolvePrincipleConflict, Table, Row, Exists, NoRow
<1>2. Linked(r) => Linked(ResolvePrincipleConflict(r, k, d))
  BY DEF ResolvePrincipleConflict, Table, Row, Exists, NoRow, Linked
<1>3. \A i \in Ids \ {k, d} : Alone(r, i) => Alone(ResolvePrincipleConflict(r, k, d), i)
  BY PrincipleAssumption DEF ResolvePrincipleConflict, Table, Row, Exists, NoRow, Alone
<1> QED BY <1>1, <1>2, <1>3

(* ExpirePrinciple, which also leaves nobody in conflict with the row. *)
LEMMA ExpireKeeps ==
    ASSUME NEW r \in Table, NEW k \in Ids, NEW by \in Ids
    PROVE  /\ ExpirePrinciple(r, k, by) \in Table
           /\ Linked(r) => Linked(ExpirePrinciple(r, k, by))
           /\ \A i \in Ids \ {k} : Alone(r, i) => Alone(ExpirePrinciple(r, k, by), i)
           /\ \A j \in Ids : /\ ExpirePrinciple(r, k, by)[j].peer # k
                             /\ ExpirePrinciple(r, k, by)[j].peer \in {r[j].peer, None}
<1>1. ExpirePrinciple(r, k, by) \in Table
  BY DEF ExpirePrinciple, Table, Row, Exists
<1>2. Linked(r) => Linked(ExpirePrinciple(r, k, by))
  BY DEF ExpirePrinciple, Table, Row, Exists, Linked
<1>3. \A i \in Ids \ {k} : Alone(r, i) => Alone(ExpirePrinciple(r, k, by), i)
  BY PrincipleAssumption DEF ExpirePrinciple, Table, Row, Exists, Alone
<1>4. \A j \in Ids : /\ ExpirePrinciple(r, k, by)[j].peer # k
                     /\ ExpirePrinciple(r, k, by)[j].peer \in {r[j].peer, None}
  BY PrincipleAssumption DEF ExpirePrinciple, Table, Row, Exists
<1> QED BY <1>1, <1>2, <1>3, <1>4

(* RevivePrinciple, for an expired row. *)
LEMMA ReviveKeeps ==
    ASSUME NEW r \in Table, NEW k \in Ids, r[k].expired
    PROVE  /\ RevivePrinciple(r, k) \in Table
           /\ Linked(r) => Linked(RevivePrinciple(r, k))
           /\ \A i \in Ids : Alone(r, i) => Alone(RevivePrinciple(r, k), i)
           /\ \A j \in Ids : RevivePrinciple(r, k)[j].peer = r[j].peer
<1>1. RevivePrinciple(r, k) \in Table
  BY DEF RevivePrinciple, Table, Row
<1>2. Linked(r) => Linked(RevivePrinciple(r, k))
  BY DEF RevivePrinciple, Table, Row, Linked
<1>3. \A i \in Ids : Alone(r, i) => Alone(RevivePrinciple(r, k), i)
  BY DEF RevivePrinciple, Table, Row, Alone
<1>4. \A j \in Ids : RevivePrinciple(r, k)[j].peer = r[j].peer
  BY DEF RevivePrinciple, Table, Row
<1> QED BY <1>1, <1>2, <1>3, <1>4

(* An INSERT. *)
LEMMA InsertKeeps ==
    ASSUME NEW r \in Table, NEW k \in Ids, NEW t \in Titles
    PROVE  /\ [r EXCEPT ![k] = NewRow(t)] \in Table
           /\ Linked(r) => Linked([r EXCEPT ![k] = NewRow(t)])
           /\ \A i \in Ids \ {k} : Alone(r, i) => Alone([r EXCEPT ![k] = NewRow(t)], i)
           /\ \A j \in Ids : [r EXCEPT ![k] = NewRow(t)][j].peer \in {r[j].peer, None}
<1>1. NewRow(t) \in Row /\ NewRow(t).status = "active" /\ NewRow(t).peer = None
  BY DEF NewRow, NoRow, Row
<1> QED BY <1>1, PrincipleAssumption DEF Table, Linked, Alone

(* A DELETE. *)
LEMMA RemoveKeeps ==
    ASSUME NEW r \in Table, NEW k \in Ids
    PROVE  /\ [r EXCEPT ![k] = NoRow] \in Table
           /\ Linked(r) => Linked([r EXCEPT ![k] = NoRow])
           /\ \A i \in Ids \ {k} : Alone(r, i) => Alone([r EXCEPT ![k] = NoRow], i)
<1>1. NoRow \in Row /\ NoRow.status = "none" /\ NoRow.peer = None
  BY DEF NoRow, Row
<1> QED BY <1>1, PrincipleAssumption DEF Table, Linked, Alone

(* RevokePrinciple *)
LEMMA RevokeKeeps ==
    ASSUME NEW r \in Table, NEW k \in Ids
    PROVE  /\ [r EXCEPT ![k].status = "revoked"] \in Table
           /\ Linked(r) => Linked([r EXCEPT ![k].status = "revoked"])
           /\ \A i \in Ids : Alone(r, i) => Alone([r EXCEPT ![k].status = "revoked"], i)
           /\ ~ r[k].expired /\ r[k].peer = None /\ (\A j \in Ids : r[j].peer # k)
                 => Alone([r EXCEPT ![k].status = "revoked"], k)
<1>1. [r EXCEPT ![k].status = "revoked"] \in Table
  BY DEF Table, Row
<1>2. Linked(r) => Linked([r EXCEPT ![k].status = "revoked"])
  BY DEF Table, Row, Linked
<1>3. \A i \in Ids : Alone(r, i) => Alone([r EXCEPT ![k].status = "revoked"], i)
  BY DEF Table, Row, Alone
<1>4. ~ r[k].expired /\ r[k].peer = None /\ (\A j \in Ids : r[j].peer # k)
         => Alone([r EXCEPT ![k].status = "revoked"], k)
  BY DEF Table, Row, Alone
<1> QED BY <1>1, <1>2, <1>3, <1>4

(* An UPDATE of the content. *)
LEMMA RetitleKeeps ==
    ASSUME NEW r \in Table, NEW k \in Ids, NEW t \in Titles
    PROVE  /\ [r EXCEPT ![k].title = t] \in Table
           /\ Linked(r) => Linked([r EXCEPT ![k].title = t])
           /\ \A i \in Ids : Alone(r, i) => Alone([r EXCEPT ![k].title = t], i)
           /\ \A j \in Ids : [r EXCEPT ![k].title = t][j].peer = r[j].peer
<1>1. [r EXCEPT ![k].title = t] \in Table
  BY DEF Table, Row
<1>2. Linked(r) => Linked([r EXCEPT ![k].title = t])
  BY DEF Table, Row, Linked
<1>3. \A i \in Ids : Alone(r, i) => Alone([r EXCEPT ![k].title = t], i)
  BY DEF Table, Row, Alone
<1>4. \A j \in Ids : [r EXCEPT ![k].title = t][j].peer = r[j].peer
  BY DEF Table, Row
<1> QED BY <1>1, <1>2, <1>3, <1>4

-----------------------------------------------------------------------------
(* Type correctness. *)

LEMMA InitType == Init => TypeOK
<1> SUFFICES ASSUME Init PROVE TypeOK
  OBVIOUS
<1>1. NoRow \in Row
  BY DEF NoRow, Row
<1>2. TableType
  BY <1>1 DEF Init, TableType, NoRows, Table
<1>3. DetectorType
  BY DEF Init, DetectorType, IdleDetector
<1>4. ConsolidationType
  BY DEF Init, ConsolidationType, IdleConsolidation
<1>5. DashType
  BY DEF Init, DashType
<1>6. HistoryType
  BY DEF Init, HistoryType
<1> QED BY <1>2, <1>3, <1>4, <1>5, <1>6 DEF TypeOK

LEMMA NoRowsType == NoRows \in Table
<1>1. NoRow \in Row
  BY DEF NoRow, Row
<1> QED BY <1>1 DEF NoRows, Table

(* The decision that the transaction carries out next. *)
LEMMA DecisionType ==
    ASSUME TypeOK, NEW op, ConNext(op)
    PROVE  /\ Decision \in Decided /\ Decision.op = op
           /\ con.done + 1 \in DOMAIN con.plan
           /\ con' \in [phase : {"idle", "ready", "tx", "failed"}, batch : SUBSET Ids,
                        plan : Seq(Decided), done : Nat]
           /\ con'.done <= Len(con'.plan)
           /\ con'.plan = con.plan /\ con'.batch = con.batch
           /\ con.phase = "tx" /\ con'.phase = "tx"
<1> USE DEF TypeOK, ConsolidationType
<1>1. con.done + 1 \in 1..Len(con.plan)
  BY DEF ConNext
<1>2. con.plan \in Seq(Decided) /\ con.done + 1 \in DOMAIN con.plan
  BY <1>1
<1>3. Decision \in Decided /\ Decision.op = op
  BY <1>1, <1>2 DEF Decision, ConNext
<1>4. con' = [con EXCEPT !.done = con.done + 1] /\ con.phase = "tx"
  BY DEF ConNext
<1> QED BY <1>1, <1>2, <1>3, <1>4

LEMMA TypeStep ==
    ASSUME TypeOK, [Next]_vars
    PROVE  TypeOK'
<1> USE PrincipleAssumption
<1> USE DEF TypeOK, TableType, DetectorType, ConsolidationType, DashType, HistoryType
<1>1. ASSUME NEW i \in Ids, NEW t \in Titles, Save(i, t)
      PROVE  TypeOK'
  BY <1>1, InsertKeeps DEF Save, InsertPrinciple
<1>2. ASSUME NEW i \in Ids, NEW t \in Titles, DistillInsert(i, t)
      PROVE  TypeOK'
  <2>1. TableType' BY <1>2, InsertKeeps DEF DistillInsert, InsertPrinciple
  <2>2. DetectorType' BY <1>2 DEF DistillInsert
  <2> QED BY <1>2, <2>1, <2>2 DEF DistillInsert
<1>3. CASE DetRead
  <2>1. PICK old \in SUBSET Ids :
            det' = IF old = {} THEN IdleDetector ELSE [det EXCEPT !.phase = "mark", !.old = old]
    BY <1>3 DEF DetRead, Active
  <2>2. DetectorType'
    BY <2>1 DEF IdleDetector
  <2> QED BY <1>3, <2>2 DEF DetRead
<1>4. ASSUME NEW a \in Ids \cup {Stray}, NEW b \in Ids \cup {Stray}, DetMark(a, b)
      PROVE  TypeOK'
  BY <1>4, MarkKeeps DEF DetMark
<1>5. CASE DetEnd
  BY <1>5 DEF DetEnd, IdleDetector
<1>6. ASSUME NEW i \in Ids, Delete(i)
      PROVE  TypeOK'
  BY <1>6, RemoveKeeps DEF Delete
<1>7. ASSUME NEW i \in Ids, Revoke(i)
      PROVE  TypeOK'
  BY <1>7, RevokeKeeps DEF Revoke
<1>8. CASE DashList
  BY <1>8 DEF DashList, Table, Row
<1>9. ASSUME NEW p \in dash.todo, DashCheck(p)
      PROVE  TypeOK'
  <2>1. p[1] \in Ids /\ p = <<p[1], p[2]>>
    OBVIOUS
  <2>2. \/ dash' = [dash EXCEPT !.todo = @ \ {p}]
        \/ /\ dash' = [[dash EXCEPT !.todo = @ \ {p}] EXCEPT !.shown = @ \cup {p}]
           /\ p[2] \in Ids
    BY <1>9 DEF DashCheck, Exists
  <2>4. DashType'
    <3>1. CASE dash' = [dash EXCEPT !.todo = @ \ {p}]
      BY <3>1
    <3>2. CASE /\ dash' = [[dash EXCEPT !.todo = @ \ {p}] EXCEPT !.shown = @ \cup {p}]
               /\ p[2] \in Ids
      <4>1. /\ (dash.shown \cup {p}) \in SUBSET (Ids \X Ids)
            /\ (dash.todo \ {p}) \in SUBSET (Ids \X (Ids \cup {Stray}))
        BY <2>1, <3>2
      <4> QED BY <3>2, <4>1
    <3> QED BY <2>2, <3>1, <3>2
  <2>3. rows' \in Table
    BY <1>9, <2>1, ClearKeeps DEF DashCheck
  <2> QED BY <1>9, <2>4, <2>3 DEF DashCheck
<1>10. ASSUME NEW keep \in Ids, NEW del \in Ids, DashResolve(keep, del)
       PROVE  TypeOK'
  BY <1>10, ResolveKeeps DEF DashResolve
<1>11. CASE ConLoad
  BY <1>11 DEF ConLoad, Active
<1>12. CASE ConBegin
  <2>1. Decisions \in SUBSET Decided
    BY DEF Decisions, Decided
  <2>2. \A n \in 1..MaxOps : [1..n -> Decisions] \subseteq Seq(Decided)
    BY <2>1, SeqDef
  <2>3. PICK n \in 1..MaxOps : \E plan \in [1..n -> Decisions] :
            con' = [con EXCEPT !.phase = "tx", !.plan = plan, !.done = 0]
    BY <1>12 DEF ConBegin
  <2>4. PICK plan \in Seq(Decided) :
            con' = [con EXCEPT !.phase = "tx", !.plan = plan, !.done = 0]
    BY <2>2, <2>3
  <2>5. Len(plan) \in Nat
    OBVIOUS
  <2>6. con'.done <= Len(con'.plan) /\ con'.plan = plan /\ con'.done = 0
    BY <2>4, <2>5
  <2>7. con' \in [phase : {"idle", "ready", "tx", "failed"}, batch : SUBSET Ids,
                  plan : Seq(Decided), done : Nat]
    BY <2>4
  <2> QED BY <1>12, <2>6, <2>7, NoRowsType DEF ConBegin
<1>13. CASE ConUpdate
  <2>1. Decision \in Decided /\ ConNext("UPDATE") /\ ConsolidationType' 
    BY <1>13, DecisionType DEF ConUpdate, AuditRows, Decided
  <2>2. work' \in Table
    BY <1>13, <2>1, RetitleKeeps DEF ConUpdate, Decided
  <2> QED BY <1>13, <2>1, <2>2 DEF ConUpdate, ConNext
<1>14. CASE ConExpire
  <2>1. Decision \in Decided /\ ConNext("DELETE") /\ ConsolidationType' 
    BY <1>14, DecisionType DEF ConExpire, AuditRows, Decided
  <2>2. work' \in Table
    BY <1>14, <2>1, ExpireKeeps DEF ConExpire, Decided
  <2> QED BY <1>14, <2>1, <2>2 DEF ConExpire, ConNext
<1>15. CASE ConAdd
  <2>1. Decision \in Decided /\ ConNext("ADD")
    BY <1>15, DecisionType DEF ConAdd
  <2>2. audit' \in SUBSET AuditRows
    BY <1>15, <2>1 DEF ConAdd, AuditRows, Decided, Revivable, WithTitle
  <2>3. ConsolidationType'
    BY <2>1, <2>2, DecisionType
  <2>4. work' \in Table
    <3>1. Decision.id \in Ids /\ Decision.title \in Titles
      BY <2>1 DEF Decided
    <3>2. [work EXCEPT ![Decision.id] = NewRow(Decision.title)] \in Table
      BY <3>1, InsertKeeps
    <3>3. \A i \in Revivable(work, Decision.title) : RevivePrinciple(work, i) \in Table
      BY ReviveKeeps DEF Revivable, WithTitle
    <3> QED BY <1>15, <3>2, <3>3 DEF ConAdd
  <2> QED BY <1>15, <2>1, <2>3, <2>4 DEF ConAdd, ConNext
<1>16. CASE ConCommit
  <2>1. ConsolidationType'
    BY <1>16 DEF ConCommit, IdleConsolidation
  <2> QED BY <1>16, <2>1, NoRowsType DEF ConCommit
<1>17. CASE ConAbort
  <2>1. con' = [phase |-> "failed", batch |-> {}, plan |-> <<>>, done |-> 0]
    BY <1>17 DEF ConAbort, IdleConsolidation
  <2>2. con'.plan = <<>> /\ con'.done = 0 /\ Len(<<>>) = 0 /\ <<>> \in Seq(Decided)
    BY <2>1
  <2>3. con' \in [phase : {"idle", "ready", "tx", "failed"}, batch : SUBSET Ids,
                  plan : Seq(Decided), done : Nat]
    BY <2>1, <2>2
  <2> QED BY <1>17, <2>2, <2>3, NoRowsType DEF ConAbort
<1>18. CASE ConAgain
  <2>1. ConsolidationType'
    BY <1>18 DEF ConAgain, IdleConsolidation
  <2> QED BY <1>18, <2>1 DEF ConAgain
<1>19. CASE UNCHANGED vars
  BY <1>19 DEF vars
<1> QED
  BY <1>1, <1>2, <1>3, <1>4, <1>5, <1>6, <1>7, <1>8, <1>9, <1>10, <1>11, <1>12, <1>13,
     <1>14, <1>15, <1>16, <1>17, <1>18, <1>19 DEF Next, Distiller, User, Consolidation

-----------------------------------------------------------------------------
(* Every conflicting row names a peer. *)

LEMMA LinkedStep ==
    ASSUME TypeOK, ConflictsLinked, [Next]_vars
    PROVE  ConflictsLinked'
<1> USE DEF ConflictsLinked
<1>0. Linked(NoRows) /\ rows \in Table /\ work \in Table
  BY DEF Linked, NoRows, NoRow, TypeOK, TableType
<1>1. ASSUME NEW i \in Ids, NEW t \in Titles, Save(i, t) \/ DistillInsert(i, t)
      PROVE  Linked(rows') /\ Linked(work')
  BY <1>1, <1>0, InsertKeeps DEF Save, DistillInsert, InsertPrinciple
<1>3. CASE DetRead
  BY <1>3 DEF DetRead
<1>4. ASSUME NEW a \in Ids \cup {Stray}, NEW b \in Ids \cup {Stray}, DetMark(a, b)
      PROVE  ConflictsLinked'
  BY <1>0, <1>4, MarkKeeps DEF DetMark
<1>5. CASE DetEnd
  BY <1>5 DEF DetEnd, IdleDetector
<1>6. ASSUME NEW i \in Ids, Delete(i)
      PROVE  ConflictsLinked'
  BY <1>0, <1>6, RemoveKeeps DEF Delete
<1>7. ASSUME NEW i \in Ids, Revoke(i)
      PROVE  ConflictsLinked'
  BY <1>0, <1>7, RevokeKeeps DEF Revoke
<1>8. CASE DashList
  BY <1>8 DEF DashList
<1>9. ASSUME NEW p \in dash.todo, DashCheck(p)
      PROVE  ConflictsLinked'
  <2>1. p[1] \in Ids
    BY DEF TypeOK, DashType
  <2> QED BY <1>0, <1>9, <2>1, ClearKeeps DEF DashCheck
<1>10. ASSUME NEW keep \in Ids, NEW del \in Ids, DashResolve(keep, del)
       PROVE  ConflictsLinked'
  BY <1>0, <1>10, ResolveKeeps DEF DashResolve
<1>11. CASE ConLoad
  BY <1>11 DEF ConLoad
<1>12. CASE ConBegin
  BY <1>12 DEF ConBegin
<1>13. CASE ConUpdate
  <2>1. Decision \in Decided
    BY <1>13, DecisionType DEF ConUpdate
  <2>2. Linked(work')
    BY <1>0, <1>13, <2>1, RetitleKeeps DEF ConUpdate, Decided
  <2> QED BY <1>13, <2>2 DEF ConUpdate, ConNext
<1>14. CASE ConExpire
  <2>1. Decision \in Decided
    BY <1>14, DecisionType DEF ConExpire
  <2>2. Linked(work')
    BY <1>0, <1>14, <2>1, ExpireKeeps DEF ConExpire, Decided
  <2> QED BY <1>14, <2>2 DEF ConExpire, ConNext
<1>15. CASE ConAdd
  <2>1. Decision.id \in Ids /\ Decision.title \in Titles
    BY <1>15, DecisionType DEF ConAdd, Decided
  <2>2. Linked([work EXCEPT ![Decision.id] = NewRow(Decision.title)])
    BY <1>0, <2>1, InsertKeeps
  <2>3. \A i \in Revivable(work, Decision.title) : Linked(RevivePrinciple(work, i))
    BY <1>0, ReviveKeeps DEF Revivable, WithTitle
  <2>4. Linked(work')
    BY <1>15, <2>2, <2>3 DEF ConAdd
  <2> QED BY <1>15, <2>4 DEF ConAdd, ConNext
<1>16. CASE ConCommit
  BY <1>0, <1>16 DEF ConCommit
<1>17. CASE ConAbort
  BY <1>0, <1>17 DEF ConAbort
<1>18. CASE ConAgain
  BY <1>18 DEF ConAgain
<1>19. CASE UNCHANGED vars
  BY <1>19 DEF vars
<1>20. ASSUME NEW i \in Ids, NEW t \in Titles, Save(i, t)
       PROVE  ConflictsLinked'
  BY <1>1, <1>20
<1>21. ASSUME NEW i \in Ids, NEW t \in Titles, DistillInsert(i, t)
       PROVE  ConflictsLinked'
  BY <1>1, <1>21
<1> QED
  BY <1>20, <1>21, <1>3, <1>4, <1>5, <1>6, <1>7, <1>8, <1>9, <1>10, <1>11, <1>12, <1>13,
     <1>14, <1>15, <1>16, <1>17, <1>18, <1>19 DEF Next, Distiller, User, Consolidation

-----------------------------------------------------------------------------
(* The decisions of a batch, and what its transaction has expired. *)

LEMMA PlanStep ==
    ASSUME TypeOK, PlanInBatch, [Next]_vars
    PROVE  PlanInBatch'
<1> USE DEF PlanInBatch
<1>1. CASE ConLoad
  BY <1>1 DEF ConLoad, TypeOK, ConsolidationType
<1>2. CASE ConBegin
  <2>1. PICK n \in 1..MaxOps : \E plan \in [1..n -> Decisions] :
            con' = [con EXCEPT !.phase = "tx", !.plan = plan, !.done = 0]
    BY <1>2 DEF ConBegin
  <2>2. PICK plan \in [1..n -> Decisions] :
            con' = [con EXCEPT !.phase = "tx", !.plan = plan, !.done = 0]
    BY <2>1
  <2>3. con'.plan = plan /\ con'.batch = con.batch /\ con'.phase = "tx"
    BY <2>2 DEF TypeOK, ConsolidationType
  <2>4. \A d \in Decisions : d.op # "ADD" => d.id \in con.batch
    BY DEF Decisions
  <2> QED BY <2>3, <2>4
<1>3. CASE ConUpdate \/ ConExpire \/ ConAdd
  BY <1>3, DecisionType DEF ConUpdate, ConExpire, ConAdd
<1>4. CASE ConCommit \/ ConAbort \/ ConAgain
  <2>1. con'.plan = <<>> /\ con'.phase # "tx"
    BY <1>4 DEF ConCommit, ConAbort, ConAgain, IdleConsolidation
  <2> QED BY <2>1
<1>5. CASE UNCHANGED con
  BY <1>5
<1> QED
  BY <1>1, <1>2, <1>3, <1>4, <1>5 DEF Next, Distiller, User, Consolidation, vars, Save,
     DistillInsert, DetRead, DetMark, DetEnd, Delete, Revoke, DashList, DashCheck, DashResolve

LEMMA ExpiredStep ==
    ASSUME TypeOK, ExpiredUnlinked, [Next]_vars
    PROVE  ExpiredUnlinked'
<1> USE PrincipleAssumption DEF ExpiredUnlinked
<1>0. work \in Table
  BY DEF TypeOK, TableType
<1>1. CASE ConBegin
  BY <1>1 DEF ConBegin
<1>2. CASE ConUpdate
  <2>1. Decision \in Decided
    BY <1>2, DecisionType DEF ConUpdate
  <2>2. \A j \in Ids : work'[j].peer = work[j].peer
    BY <1>0, <1>2, <2>1, RetitleKeeps DEF ConUpdate, Decided
  <2> QED BY <1>2, <2>2 DEF ConUpdate
<1>3. CASE ConExpire
  <2>1. Decision.id \in Ids
    BY <1>3, DecisionType DEF ConExpire, Decided
  <2>5. PICK by \in Ids : work' = ExpirePrinciple(work, Decision.id, by)
    BY <1>3 DEF ConExpire
  <2>2. \A j \in Ids : work'[j].peer # Decision.id /\ work'[j].peer \in {work[j].peer, None}
    BY <1>0, <2>1, <2>5, ExpireKeeps
  <2>3. audit' = audit \cup {<<"EXPIRE", Decision.id>>}
    BY <1>3 DEF ConExpire
  <2>4. \A i \in Ids : <<"EXPIRE", i>> \in audit' => i = Decision.id \/ <<"EXPIRE", i>> \in audit
    BY <2>3
  <2> QED BY <2>2, <2>4
<1>4. CASE ConAdd
  <2>1. Decision.id \in Ids /\ Decision.title \in Titles
    BY <1>4, DecisionType DEF ConAdd, Decided
  <2>2. \A j \in Ids : [work EXCEPT ![Decision.id] = NewRow(Decision.title)][j].peer
                          \in {work[j].peer, None}
    BY <1>0, <2>1, InsertKeeps
  <2>3. \A i \in Revivable(work, Decision.title) :
           \A j \in Ids : RevivePrinciple(work, i)[j].peer = work[j].peer
    BY <1>0, ReviveKeeps DEF Revivable, WithTitle
  <2>4. \A j \in Ids : work'[j].peer \in {work[j].peer, None}
    BY <1>4, <2>2, <2>3 DEF ConAdd
  <2>5. \A i \in Ids : <<"EXPIRE", i>> \in audit' => <<"EXPIRE", i>> \in audit
    <3>1. CASE audit' = audit \cup {<<"ADD", Decision.id>>}
      BY <3>1
    <3>2. ASSUME NEW k, audit' = audit \cup {<<"REVIVE", k>>}
          PROVE  \A i \in Ids : <<"EXPIRE", i>> \in audit' => <<"EXPIRE", i>> \in audit
      BY <3>2
    <3>3. ASSUME audit' = audit \cup {<<"SKIP", i>> : i \in WithTitle(work, Decision.title)}
          PROVE  \A i \in Ids : <<"EXPIRE", i>> \in audit' => <<"EXPIRE", i>> \in audit
      BY <3>3
    <3> QED BY <1>4, <3>1, <3>2, <3>3 DEF ConAdd
  <2> QED BY <2>4, <2>5
<1>5. CASE ConCommit \/ ConAbort
  BY <1>5 DEF ConCommit, ConAbort
<1>6. CASE UNCHANGED <<work, audit>>
  BY <1>6
<1> QED
  BY <1>1, <1>2, <1>3, <1>4, <1>5, <1>6 DEF Next, Distiller, User, Consolidation, vars, Save,
     DistillInsert, DetRead, DetMark, DetEnd, Delete, Revoke, DashList, DashCheck, DashResolve,
     ConLoad, ConAgain

-----------------------------------------------------------------------------
(* Every row has an id that was used. *)

LEMMA BornStep ==
    ASSUME TypeOK, RowsBorn, [Next]_vars
    PROVE  RowsBorn'
<1> USE DEF RowsBorn
<1>0. rows \in Table
  BY DEF TypeOK, TableType
<1>1. CASE \E k \in Ids, t \in Titles : Save(k, t) \/ DistillInsert(k, t)
  BY <1>0, <1>1 DEF Save, DistillInsert, InsertPrinciple, Exists, Table
<1>2. CASE \E a, b \in Ids \cup {Stray} : DetMark(a, b)
  BY <1>0, <1>2 DEF DetMark, MarkConflicting, Exists
<1>3. CASE \E k \in Ids : Delete(k)
  BY <1>0, <1>3 DEF Delete, Exists, Table, NoRow
<1>4. CASE \E k \in Ids : Revoke(k)
  BY <1>0, <1>4 DEF Revoke, Exists, Table, Row
<1>5. CASE \E p \in dash.todo : DashCheck(p)
  BY <1>0, <1>5 DEF DashCheck, ClearConflictStatus, Exists, Table, Row, TypeOK, DashType
<1>6. CASE \E keep, del \in Ids : DashResolve(keep, del)
  <2>1. PICK keep \in Ids, del \in Ids : rows' = ResolvePrincipleConflict(rows, keep, del)
    BY <1>6 DEF DashResolve
  <2>2. \A i \in Ids : Exists(rows', i) => Exists(rows, i)
    BY <1>0, <2>1 DEF ResolvePrincipleConflict, Exists, NoRow, Table, Row
  <2>3. born' = born
    BY <1>6 DEF DashResolve
  <2> QED BY <2>2, <2>3
<1>7. CASE ConCommit
  BY <1>7 DEF ConCommit
<1>8. CASE UNCHANGED <<rows, born>>
  BY <1>8
<1> QED
  BY <1>1, <1>2, <1>3, <1>4, <1>5, <1>6, <1>7, <1>8 DEF Next, Distiller, User, Consolidation,
     vars, DetRead, DetEnd, DashList, ConLoad, ConBegin, ConUpdate, ConExpire, ConAdd, ConNext,
     ConAbort, ConAgain

-----------------------------------------------------------------------------
(* A settled revocation stays as it is. *)

(* What the invariant says of one settled row. *)
LEMMA SettledStep ==
    ASSUME TypeOK, RowsBorn, PlanInBatch, SettledAlone, [Next]_vars
    PROVE  SettledAlone'
<1> DEFINE Safe(i) == i \in born /\ Alone(rows, i) /\ (con.phase = "tx" => Alone(work, i))
                        /\ Unnoticed(i)
<1> SUFFICES ASSUME NEW i \in settled' PROVE Safe(i)'
  BY DEF SettledAlone
<1>0. rows \in Table /\ work \in Table /\ settled \in SUBSET Ids /\ born \in SUBSET Ids
  BY DEF TypeOK, TableType, HistoryType
<1> USE DEF Unnoticed
<1>1. CASE \E k \in Ids, t \in Titles : Save(k, t) \/ DistillInsert(k, t)
  <2>1. PICK k \in Ids, t \in Titles : Save(k, t) \/ DistillInsert(k, t)
    BY <1>1
  <2>2. i \in settled /\ Safe(i) /\ i # k /\ i \in Ids
    BY <1>0, <2>1 DEF SettledAlone, Save, DistillInsert, InsertPrinciple
  <2>3. Alone(rows', i) /\ i \in born'
    BY <1>0, <2>1, <2>2, InsertKeeps DEF Save, DistillInsert, InsertPrinciple
  <2>4. det'.new \subseteq det.new \cup {k} /\ det'.old = det.old
    BY <2>1 DEF Save, DistillInsert, TypeOK, DetectorType
  <2> QED BY <2>1, <2>2, <2>3, <2>4 DEF Save, DistillInsert
<1>2. CASE DetRead
  <2>1. i \in settled /\ Safe(i) /\ i \in Ids
    BY <1>0, <1>2 DEF SettledAlone, DetRead
  <2>2. PICK old \in SUBSET (Active(rows) \ det.new) :
            det' = IF old = {} THEN IdleDetector ELSE [det EXCEPT !.phase = "mark", !.old = old]
    BY <1>2 DEF DetRead
  <2>3. i \notin old
    BY <2>1 DEF Alone, Active
  <2>4. i \notin det'.new \cup det'.old
    BY <2>1, <2>2, <2>3 DEF IdleDetector, TypeOK, DetectorType
  <2> QED BY <1>2, <2>1, <2>4 DEF DetRead
<1>3. CASE \E a, b \in Ids \cup {Stray} : DetMark(a, b)
  <2>1. PICK a \in Ids \cup {Stray}, b \in Ids \cup {Stray} : DetMark(a, b)
    BY <1>3
  <2>2. i \in settled /\ Safe(i) /\ i \in Ids /\ i # a /\ i # b
    BY <1>0, <2>1, PrincipleAssumption DEF SettledAlone, DetMark
  <2>3. Alone(rows', i)
    BY <1>0, <2>1, <2>2, MarkKeeps DEF DetMark
  <2> QED BY <2>1, <2>2, <2>3 DEF DetMark
<1>4. CASE DetEnd
  BY <1>4 DEF DetEnd, SettledAlone, IdleDetector
<1>5. CASE \E k \in Ids : Delete(k)
  <2>1. PICK k \in Ids : Delete(k)
    BY <1>5
  <2>2. i \in settled /\ Safe(i) /\ i \in Ids /\ i # k
    BY <1>0, <2>1 DEF SettledAlone, Delete
  <2>3. Alone(rows', i)
    BY <1>0, <2>1, <2>2, RemoveKeeps DEF Delete
  <2> QED BY <2>1, <2>2, <2>3 DEF Delete
<1>6. CASE \E k \in Ids : Revoke(k)
  <2>1. PICK k \in Ids : Revoke(k)
    BY <1>6
  <2>2. CASE i \in settled
    <3>1. Safe(i) /\ i \in Ids
      BY <1>0, <2>2 DEF SettledAlone
    <3>2. Alone(rows', i)
      BY <1>0, <2>1, <3>1, RevokeKeeps DEF Revoke
    <3> QED BY <2>1, <3>1, <3>2 DEF Revoke
  <2>3. CASE i \notin settled
    <3>1. i = k /\ Unreferenced(i) /\ Exists(rows, i)
      BY <2>1, <2>3 DEF Revoke
    <3>2. Alone(rows', i)
      BY <1>0, <2>1, <3>1, RevokeKeeps DEF Revoke, Unreferenced
    <3>3. con.phase # "tx" /\ UNCHANGED <<born, det, con, dash>>
      BY <2>1 DEF Revoke, Unlocked
    <3>4. i \in born
      BY <2>1, <3>1 DEF RowsBorn
    <3> QED BY <3>1, <3>2, <3>3, <3>4 DEF Unreferenced
  <2> QED BY <2>2, <2>3
<1>7. CASE DashList
  <2>1. i \in settled /\ Safe(i) /\ i \in Ids
    BY <1>0, <1>7 DEF SettledAlone, DashList
  <2>2. \A p \in dash'.todo \cup dash'.shown : i # p[1] /\ i # p[2]
    BY <1>7, <2>1 DEF DashList, Alone
  <2> QED BY <1>7, <2>1, <2>2 DEF DashList
<1>8. CASE \E p \in dash.todo : DashCheck(p)
  <2>1. PICK p \in dash.todo : DashCheck(p)
    BY <1>8
  <2>2. i \in settled /\ Safe(i) /\ i \in Ids /\ p[1] \in Ids /\ i # p[1]
    BY <1>0, <2>1 DEF SettledAlone, DashCheck, TypeOK, DashType
  <2>3. Alone(rows', i)
    BY <1>0, <2>1, <2>2, ClearKeeps DEF DashCheck
  <2>4. dash'.todo \cup dash'.shown \subseteq dash.todo \cup dash.shown
    <3>1. dash.todo \cup dash.shown \subseteq Ids \X (Ids \cup {Stray}) /\ dash = [todo |-> dash.todo, shown |-> dash.shown]
      BY DEF TypeOK, DashType
    <3>2. CASE dash' = [dash EXCEPT !.todo = @ \ {p}]
      BY <3>1, <3>2
    <3>3. CASE dash' = [[dash EXCEPT !.todo = @ \ {p}] EXCEPT !.shown = @ \cup {p}]
      <4>1. dash'.todo = dash.todo \ {p} /\ dash'.shown = dash.shown \cup {p}
        BY <3>1, <3>3
      <4> QED BY <2>1, <4>1
    <3> QED BY <2>1, <3>2, <3>3 DEF DashCheck
  <2> QED BY <2>1, <2>2, <2>3, <2>4 DEF DashCheck
<1>9. CASE \E keep, del \in Ids : DashResolve(keep, del)
  <2>1. PICK keep \in Ids, del \in Ids : DashResolve(keep, del)
    BY <1>9
  <2>2. i \in settled /\ Safe(i) /\ i \in Ids
    BY <1>0, <2>1 DEF SettledAlone, DashResolve
  <2>3. i # keep /\ i # del
    BY <2>1, <2>2 DEF DashResolve
  <2>4. Alone(rows', i)
    BY <1>0, <2>1, <2>2, <2>3, ResolveKeeps DEF DashResolve
  <2>5. dash'.todo = {} /\ dash'.shown = {}
    BY <2>1 DEF DashResolve
  <2> QED BY <2>1, <2>2, <2>4, <2>5 DEF DashResolve
<1>10. CASE ConLoad
  <2>1. i \in settled /\ Safe(i) /\ i \in Ids
    BY <1>0, <1>10 DEF SettledAlone, ConLoad
  <2>2. con'.batch \subseteq Active(rows) /\ con'.phase = "ready"
    BY <1>10 DEF ConLoad, TypeOK, ConsolidationType
  <2>3. i \notin con'.batch
    BY <2>1, <2>2 DEF Alone, Active
  <2> QED BY <1>10, <2>1, <2>2, <2>3 DEF ConLoad
<1>11. CASE ConBegin
  <2>1. i \in settled /\ Safe(i) /\ i \in Ids
    BY <1>0, <1>11 DEF SettledAlone, ConBegin
  <2>2. con'.batch = con.batch /\ work' = rows
    BY <1>11 DEF ConBegin, TypeOK, ConsolidationType
  <2> QED BY <1>11, <2>1, <2>2 DEF ConBegin
<1>12. CASE ConUpdate \/ ConExpire \/ ConAdd
  <2>1. i \in settled /\ Safe(i) /\ i \in Ids
    BY <1>0, <1>12 DEF SettledAlone, ConUpdate, ConExpire, ConAdd, ConNext
  <2>2. /\ Decision.id \in Ids /\ Decision.title \in Titles
        /\ con.phase = "tx" /\ con'.batch = con.batch
        /\ Decision.op # "ADD" => Decision.id \in con.batch
    BY <1>12, DecisionType DEF ConUpdate, ConExpire, ConAdd, Decided, PlanInBatch, Decision
  <2>3. Alone(work', i)
    <3>1. CASE ConUpdate
      BY <1>0, <2>1, <2>2, <3>1, RetitleKeeps DEF ConUpdate
    <3>2. CASE ConExpire
      <4>1. PICK by \in Ids : work' = ExpirePrinciple(work, Decision.id, by)
        BY <3>2 DEF ConExpire
      <4>2. i # Decision.id
        BY <2>1, <2>2, <3>2, DecisionType DEF ConExpire
      <4> QED BY <1>0, <2>1, <2>2, <4>1, <4>2, ExpireKeeps
    <3>3. CASE ConAdd
      <4>1. CASE /\ ~ Exists(work, Decision.id)
                 /\ work' = [work EXCEPT ![Decision.id] = NewRow(Decision.title)]
        <5>1. i # Decision.id
          BY <2>1, <2>2, <4>1 DEF Alone, Exists
        <5> QED BY <1>0, <2>1, <2>2, <4>1, <5>1, InsertKeeps
      <4>2. ASSUME NEW k \in Revivable(work, Decision.title), work' = RevivePrinciple(work, k)
            PROVE  Alone(work', i)
        BY <1>0, <2>1, <2>2, <4>2, ReviveKeeps DEF Revivable, WithTitle
      <4>3. CASE work' = work
        BY <2>1, <2>2, <4>3
      <4> QED BY <3>3, <4>1, <4>2, <4>3 DEF ConAdd
    <3> QED BY <1>12, <3>1, <3>2, <3>3
  <2>4. UNCHANGED <<rows, born, det, dash>>
    BY <1>12 DEF ConUpdate, ConExpire, ConAdd, ConNext
  <2> QED BY <2>1, <2>2, <2>3, <2>4
<1>13. CASE ConCommit
  <2>1. i \in settled /\ Safe(i) /\ i \in Ids
    BY <1>0, <1>13 DEF SettledAlone, ConCommit
  <2>2. Alone(rows', i) /\ con'.phase = "idle" /\ con'.batch = {} /\ i \in born'
    BY <1>13, <2>1 DEF ConCommit, IdleConsolidation
  <2> QED BY <1>13, <2>1, <2>2 DEF ConCommit
<1>14. CASE ConAbort \/ ConAgain
  <2>1. i \in settled /\ Safe(i) /\ i \in Ids
    BY <1>0, <1>14 DEF SettledAlone, ConAbort, ConAgain
  <2>2. con'.phase # "tx" /\ con'.batch = {}
    BY <1>14 DEF ConAbort, ConAgain, IdleConsolidation
  <2> QED BY <1>14, <2>1, <2>2 DEF ConAbort, ConAgain
<1>15. CASE UNCHANGED vars
  BY <1>15 DEF vars, SettledAlone
<1> QED
  BY <1>1, <1>2, <1>3, <1>4, <1>5, <1>6, <1>7, <1>8, <1>9, <1>10, <1>11, <1>12, <1>13,
     <1>14, <1>15 DEF Next, Distiller, User, Consolidation

-----------------------------------------------------------------------------
(* The theorems. *)

LEMMA InitIInv == Init => IInv
<1> SUFFICES ASSUME Init PROVE IInv
  OBVIOUS
<1>1. TypeOK
  BY InitType
<1>2. ConflictsLinked
  BY DEF Init, ConflictsLinked, Linked, NoRows, NoRow, IdleDetector
<1>3. SettledAlone
  BY DEF Init, SettledAlone
<1>4. PlanInBatch
  BY DEF Init, PlanInBatch, IdleConsolidation
<1>5. ExpiredUnlinked /\ RowsBorn
  BY DEF Init, ExpiredUnlinked, RowsBorn, NoRows, NoRow, Exists
<1> QED BY <1>1, <1>2, <1>3, <1>4, <1>5 DEF IInv

(* The inductive invariant holds in every reachable state. *)
THEOREM IInvCorrect == Spec => []IInv
<1>1. Init => IInv
  BY InitIInv
<1>2. IInv /\ [Next]_vars => IInv'
  BY TypeStep, LinkedStep, SettledStep, PlanStep, ExpiredStep, BornStep DEF IInv
<1> QED BY <1>1, <1>2, PTL DEF Spec

(* Every variable keeps its type. *)
THEOREM TypeCorrect == Spec => []TypeOK
<1>1. IInv => TypeOK
  BY DEF IInv
<1> QED BY <1>1, IInvCorrect, PTL

(* A conflicting row names a peer, whatever ids the provider answered, so  *)
(* that the dashboard shows the pair or repairs the row.                   *)
THEOREM ConflictCorrect == Spec => []ConflictHasPeer
<1>1. IInv => ConflictHasPeer
  BY DEF IInv, ConflictsLinked, ConflictHasPeer
<1> QED BY <1>1, IInvCorrect, PTL

(* A manual revocation made while nobody referred to the row is final.     *)
THEOREM SettledCorrect == Spec => []SettledRevocations
<1>1. IInv => SettledRevocations
  BY DEF IInv, SettledAlone, Alone, SettledRevocations
<1> QED BY <1>1, IInvCorrect, PTL

(* A committed batch leaves no row in conflict with one that it expired.   *)
THEOREM ExpiryCorrect == Spec => ExpiryUnlinksPeers
<1> DEFINE Unlinks == Commits => \A i, j \in Ids : <<"EXPIRE", i>> \in audit => rows'[j].peer # i
<1>1. IInv /\ [Next]_vars => [Unlinks]_vars
  <2> SUFFICES ASSUME IInv, [Next]_vars, Commits PROVE \A i, j \in Ids : <<"EXPIRE", i>> \in audit => rows'[j].peer # i
    OBVIOUS
  <2>1. CASE ConCommit
    BY <2>1 DEF ConCommit, IInv, ExpiredUnlinked
  <2>2. ASSUME ConUpdate \/ ConExpire \/ ConAdd PROVE FALSE
    BY <2>2, DecisionType DEF ConUpdate, ConExpire, ConAdd, Commits, IInv
  <2>3. ASSUME ConLoad \/ ConBegin \/ ConAgain PROVE FALSE
    BY <2>3 DEF ConLoad, ConBegin, ConAgain, Commits
  <2>4. ASSUME ConAbort PROVE FALSE
    BY <2>4 DEF ConAbort, Commits, IdleConsolidation
  <2>5. ASSUME UNCHANGED con PROVE FALSE
    BY <2>5 DEF Commits
  <2> QED
    BY <2>1, <2>2, <2>3, <2>4, <2>5 DEF Next, Distiller, User, Consolidation, vars, Save,
       DistillInsert, DetRead, DetMark, DetEnd, Delete, Revoke, DashList, DashCheck, DashResolve
<1> QED BY <1>1, IInvCorrect, PTL DEF Spec, ExpiryUnlinksPeers

-----------------------------------------------------------------------------
(***************************************************************************)
(* SigningKeys: its types, what is signed, and which key is in use.        *)
(***************************************************************************)

USE DEF NoKey, Nobody, Orphan

(* -------------------------------- types ------------------------------- *)

KeyOrNone == Key \cup {NoKey}
InFile == KeyOrNone \cup {Garbage}
Phase == {"idle", "get", "set", "read", "write", "ready", "rotate",
          "refresh", "replace", "list", "resign"}
Work == [at : Phase, doing : {"use", "rotate"}, key : KeyOrNone, new : KeyOrNone,
         snap : [Principle -> SealedRow]]

\* A process probes the keychain exactly when it holds the probe lock, and
\* holds it at most until it has a key.
Probing ==
  \A p \in Proc :
    /\ At(p) \in {"get", "set"} => probe = p
    /\ probe = p => At(p) \in {"get", "set", "read", "write"}

\* What a process is about to use or to store is a key.
HasKey ==
  \A p \in Proc :
    /\ At(p) \in {"rotate", "refresh", "replace", "list", "resign"} => proc[p].key # NoKey
    /\ At(p) \in {"set", "refresh", "replace", "list", "resign"} => proc[p].new # NoKey

Typed ==
  /\ chain \in KeyOrNone /\ keyFile \in InFile /\ late \subseteq Key
  /\ up \in BOOLEAN /\ marker \in BOOLEAN /\ probe \in Proc \cup {Nobody, Orphan}
  /\ proc \in [Proc -> Work]
  /\ sealed \in [Principle -> SealedRow]
  /\ keys \in 0..MaxKeys /\ writes \in Version /\ mishaps \in 0..MaxMishaps
  /\ trusted \in [Principle -> SUBSET (Version \X Version)]
  /\ retired \subseteq Key

TypeInv == Typed /\ Probing /\ HasKey

\* What is written, signed again or damaged stays a row.
LEMMA GarbageApart == Garbage \notin Key /\ Garbage # NoKey
  BY BoundsAssumption DEF Garbage, Key

LEMMA IdleTyped == Idle \in Work /\ Unwritten \in SealedRow
  BY BoundsAssumption DEF Idle, Work, Unwritten, Unsigned, Signature, SealedRow, Phase, KeyOrNone, Version

LEMMA FreshTyped ==
  ASSUME keys \in 0..MaxKeys, keys < MaxKeys
  PROVE  Fresh \in Key /\ Fresh # NoKey /\ Fresh \in 0..MaxKeys
  BY BoundsAssumption DEF Fresh, Key

LEMMA SignTyped ==
  ASSUME NEW k \in KeyOrNone, NEW t \in Version, NEW n \in Version
  PROVE  Sign(k, t, n) \in Signature
  BY BoundsAssumption DEF Sign, Unsigned, Signature, KeyOrNone, Version

LEMMA SealTyped ==
  ASSUME NEW v \in Version, NEW k \in KeyOrNone, NEW s \in {"absent", "active", "revoked"}
  PROVE  [Seal(v, v, k) EXCEPT !.status = s] \in SealedRow
  BY SignTyped DEF Seal, SealedRow, KeyOrNone

LEMMA ResignTyped ==
  ASSUME NEW row \in SealedRow, NEW snap \in SealedRow, NEW old \in KeyOrNone, NEW new \in KeyOrNone
  PROVE  Resign(row, snap, old, new) \in SealedRow
<1>1. snap.title \in Version /\ snap.narrative \in Version
  BY DEF SealedRow
<1>2. Sign(new, snap.title, snap.narrative) \in Signature
  BY <1>1, SignTyped
<1> QED BY <1>1, <1>2 DEF Resign, SealedRow, KeyOrNone

\* The steps that change some fields of one process.
LEMMA MovedTyped ==
  ASSUME Typed, NEW p \in Proc, NEW at \in Phase, NEW key \in KeyOrNone, NEW new \in KeyOrNone
  PROVE  /\ [proc EXCEPT ![p].at = at] \in [Proc -> Work]
         /\ [proc EXCEPT ![p].at = at, ![p].new = new] \in [Proc -> Work]
         /\ [proc EXCEPT ![p].at = at, ![p].key = key, ![p].new = new] \in [Proc -> Work]
<1> DEFINE moved == [proc[p] EXCEPT !.at = at]
           given == [proc[p] EXCEPT !.at = at, !.new = new]
           found == [proc[p] EXCEPT !.at = at, !.key = key, !.new = new]
<1>1. proc[p] \in Work
  BY DEF Typed
<1>2. moved \in Work /\ given \in Work /\ found \in Work
  BY <1>1 DEF Work
<1>3. /\ [proc EXCEPT ![p].at = at] = [proc EXCEPT ![p] = moved]
      /\ [proc EXCEPT ![p].at = at, ![p].new = new] = [proc EXCEPT ![p] = given]
      /\ [proc EXCEPT ![p].at = at, ![p].key = key, ![p].new = new] = [proc EXCEPT ![p] = found]
  BY <1>1 DEF Typed, Work
<1> HIDE DEF moved, given, found
<1> QED BY <1>2, <1>3 DEF Typed

LEMMA FoundTyped ==
  ASSUME Typed, NEW p \in Proc, NEW key \in KeyOrNone, Found(p, key)
  PROVE  proc' \in [Proc -> Work] /\ probe' \in Proc \cup {Nobody, Orphan}
<1>1. "ready" \in Phase /\ "rotate" \in Phase /\ NoKey \in KeyOrNone
  BY DEF Phase, KeyOrNone
<1>2. CASE proc[p].doing = "use"
  BY <1>1, <1>2, MovedTyped DEF Found, Typed
<1>3. CASE proc[p].doing # "use"
  BY <1>1, <1>3, MovedTyped DEF Found, Typed
<1> QED BY <1>2, <1>3

LEMMA FoundFields ==
  ASSUME Typed, NEW p \in Proc, NEW key \in KeyOrNone, Found(p, key)
  PROVE  /\ proc'[p].at \in {"ready", "rotate"}
         /\ proc'[p].at = "rotate" => proc[p].doing = "rotate"
         /\ proc'[p].key = key /\ proc'[p].new = NoKey /\ proc'[p].doing = proc[p].doing
         /\ proc'[p].snap = proc[p].snap
         /\ \A q \in Proc \ {p} : proc'[q] = proc[q]
         /\ probe' # p
         /\ probe' = probe \/ probe' = Nobody
         /\ probe # p => probe' = probe
<1>1. proc[p] \in Work
  BY DEF Typed
<1>2. proc[p].doing \in {"use", "rotate"}
  BY <1>1 DEF Work
<1>3. proc' = [proc EXCEPT ![p] =
         [proc[p] EXCEPT !.at = IF proc[p].doing = "use" THEN "ready" ELSE "rotate",
                         !.key = key, !.new = NoKey]]
  BY DEF Found, Typed
<1>4. proc'[p] = [proc[p] EXCEPT !.at = IF proc[p].doing = "use" THEN "ready" ELSE "rotate",
                                 !.key = key, !.new = NoKey]
  BY <1>3 DEF Typed
<1>5. \A q \in Proc \ {p} : proc'[q] = proc[q]
  BY <1>3 DEF Typed
<1>6. probe' = IF probe = p THEN Nobody ELSE probe
  BY DEF Found
<1>7. Nobody # p
  BY HolderAssumption
<1>8. /\ probe' # p
      /\ probe' = probe \/ probe' = Nobody
      /\ probe # p => probe' = probe
  <2>1. CASE probe = p
    BY <1>6, <1>7, <2>1
  <2>2. CASE probe # p
    BY <1>6, <1>7, <2>2
  <2> QED BY <2>1, <2>2
<1> QED BY <1>1, <1>2, <1>4, <1>5, <1>8 DEF Work

LEMMA FoundKeeps ==
  ASSUME Typed, Probing, HasKey, NEW p \in Proc, NEW key \in Key, Found(p, key)
  PROVE  Probing' /\ HasKey'
<1>1. key \in KeyOrNone /\ key # NoKey
  BY DEF Key, KeyOrNone
<1>2. \A q \in Proc : probe' = q => probe = q /\ q # p
  BY <1>1, FoundFields, HolderAssumption
<1>3. \A q \in Proc \ {p} : probe = q => probe' = q
  BY <1>1, FoundFields
<1>4. Probing'
  BY <1>1, <1>2, <1>3, FoundFields DEF Probing, At
<1>5. HasKey'
  BY <1>1, FoundFields DEF HasKey, At
<1> QED BY <1>4, <1>5

LEMMA TypeInit == KeysInit => TypeInv
<1> SUFFICES ASSUME KeysInit PROVE TypeInv
  OBVIOUS
<1>1. 1 \in Key /\ 2 \in Key /\ 2 \in 0..MaxKeys /\ 0 \in Version /\ 0 \in 0..MaxMishaps
  BY BoundsAssumption DEF Key, Version
<1>2. Typed
  BY <1>1, IdleTyped DEF KeysInit, Typed, KeyOrNone, InFile
<1>3. Probing /\ HasKey
  BY HolderAssumption DEF KeysInit, Probing, HasKey, Idle, At
<1> QED BY <1>2, <1>3 DEF TypeInv

LEMMA KeysTypeStep == TypeInv /\ [KeysNext]_keyVars => TypeInv'
<1> SUFFICES ASSUME TypeInv, [KeysNext]_keyVars PROVE TypeInv'
  OBVIOUS
<1> USE DEF TypeInv, storage, counters, history
<1>1. ASSUME NEW p \in Proc, NEW doing \in {"use", "rotate"}, GetOrCreateKey(p, doing)
      PROVE  TypeInv'
  <2>1. Typed'
    BY <1>1, IdleTyped DEF GetOrCreateKey, Typed, Work, Phase
  <2>2. Probing' /\ HasKey'
    BY <1>1, HolderAssumption DEF GetOrCreateKey, Typed, Probing, HasKey, Work, At, Idle
  <2> QED BY <2>1, <2>2
<1>2. ASSUME NEW p \in Proc, KeyringGet(p) PROVE TypeInv'
  <2>1. chain \in Key /\ chain \in KeyOrNone /\ Found(p, chain)
    BY <1>2 DEF KeyringGet, Typed, KeyOrNone
  <2>2. Typed'
    BY <1>2, <2>1, FoundTyped DEF KeyringGet, Typed
  <2> QED BY <2>1, <2>2, FoundKeeps
<1>3. ASSUME NEW p \in Proc, KeyringGetFails(p) PROVE TypeInv'
  <2>1. Fresh \in KeyOrNone /\ Fresh # NoKey /\ "set" \in Phase /\ keys' \in 0..MaxKeys
    BY <1>3, FreshTyped DEF KeyringGetFails, Typed, KeyOrNone, Phase
  <2>2. Typed'
    BY <1>3, <2>1, MovedTyped DEF KeyringGetFails, Typed
  <2>3. Probing' /\ HasKey'
    BY <1>3, <2>1 DEF KeyringGetFails, Typed, Probing, HasKey, Work, At
  <2> QED BY <2>2, <2>3
<1>4. ASSUME NEW p \in Proc, KeyringSet(p) PROVE TypeInv'
  <2>1. proc[p].new \in Key /\ proc[p].new \in KeyOrNone
    BY <1>4 DEF KeyringSet, Typed, Work, HasKey, At, KeyOrNone
  <2>2. Typed'
    BY <1>4, <2>1, FoundTyped DEF KeyringSet, Typed
  <2> QED BY <1>4, <2>1, <2>2, FoundKeeps DEF KeyringSet
<1>5. ASSUME NEW p \in Proc, KeyringSetFails(p) PROVE TypeInv'
  <2>1. /\ NoKey \in KeyOrNone /\ "read" \in Phase
        /\ proc[p].new \in Key
    BY <1>5 DEF KeyringSetFails, Typed, Work, HasKey, At, KeyOrNone, Phase
  <2>2. Typed'
    BY <1>5, <2>1, MovedTyped DEF KeyringSetFails, Typed
  <2>3. Probing' /\ HasKey'
    BY <1>5 DEF KeyringSetFails, Typed, Probing, HasKey, Work, At
  <2> QED BY <2>2, <2>3
<1>6. ASSUME NEW p \in Proc, ReadKeyFile(p) PROVE TypeInv'
  <2>1. CASE keyFile \in Key
    <3>1. keyFile \in KeyOrNone /\ Found(p, keyFile)
      BY <1>6, <2>1 DEF ReadKeyFile, KeyOrNone
    <3>2. Typed'
      BY <1>6, <3>1, FoundTyped DEF ReadKeyFile, Typed
    <3> QED BY <2>1, <3>1, <3>2, FoundKeeps
  <2>2. CASE keyFile \notin Key
    <3>1. proc' = [proc EXCEPT ![p].at = "write"] /\ probe' = probe /\ "write" \in Phase
      BY <1>6, <2>2 DEF ReadKeyFile, Phase
    <3>2. Typed'
      BY <1>6, <3>1, IdleTyped, MovedTyped DEF ReadKeyFile, Typed, Work, KeyOrNone
    <3>3. Probing' /\ HasKey'
      BY <1>6, <3>1 DEF ReadKeyFile, Typed, Probing, HasKey, Work, At
    <3> QED BY <3>2, <3>3
  <2> QED BY <2>1, <2>2
<1>7. ASSUME NEW p \in Proc, WriteKeyFile(p) PROVE TypeInv'
  <2>1. Fresh \in Key /\ Fresh \in KeyOrNone /\ keys' \in 0..MaxKeys
    BY <1>7, FreshTyped DEF WriteKeyFile, Typed, KeyOrNone
  <2>2. Typed'
    BY <1>7, <2>1, FoundTyped DEF WriteKeyFile, Typed, InFile
  <2> QED BY <1>7, <2>1, <2>2, FoundKeeps DEF WriteKeyFile
<1>8. ASSUME NEW p \in Proc, NEW r \in Principle, WritePrinciple(p, r) PROVE TypeInv'
  <2>1. proc[p].key \in KeyOrNone /\ writes' \in Version /\ writes + 1 \in Version
    BY <1>8, BoundsAssumption DEF WritePrinciple, Typed, Work, Version
  <2>2. sealed[r].status \in {"absent", "active", "revoked"}
    BY DEF Typed, SealedRow
  <2>3. sealed' \in [Principle -> SealedRow]
    BY <1>8, <2>1, <2>2, SealTyped DEF WritePrinciple, Typed
  <2>4. Typed'
    BY <1>8, <2>1, <2>3 DEF WritePrinciple, Typed
  <2>5. Probing' /\ HasKey'
    BY <1>8 DEF WritePrinciple, Probing, HasKey, At
  <2> QED BY <2>4, <2>5
<1>9. ASSUME NEW p \in Proc, NEW r \in Principle, RevokePrinciple(p, r) PROVE TypeInv'
  <2>1. [sealed[r] EXCEPT !.status = "revoked"] \in SealedRow
    BY DEF Typed, SealedRow
  <2>2. sealed' = [sealed EXCEPT ![r] = [sealed[r] EXCEPT !.status = "revoked"]]
    BY <1>9 DEF RevokePrinciple
  <2> QED BY <1>9, <2>1, <2>2 DEF RevokePrinciple, Typed, Probing, HasKey, At
<1>10. ASSUME NEW p \in Proc, Exit(p) PROVE TypeInv'
  BY <1>10, IdleTyped, HolderAssumption DEF Exit, Typed, Probing, HasKey, At, Idle
<1>11. ASSUME NEW p \in Proc, RotateKey(p) PROVE TypeInv'
  <2>1. /\ Fresh \in Key /\ Fresh \in KeyOrNone /\ Fresh # NoKey /\ keys' \in 0..MaxKeys
        /\ "refresh" \in Phase /\ "replace" \in Phase
    BY <1>11, FreshTyped DEF RotateKey, Typed, KeyOrNone, Phase
  <2>2. PICK at \in {"refresh", "replace"} : proc' = [proc EXCEPT ![p].at = at, ![p].new = Fresh]
    BY <1>11 DEF RotateKey
  <2>3. /\ chain' \in KeyOrNone /\ marker' \in BOOLEAN /\ late' \subseteq Key
        /\ retired' \subseteq Key
    BY <1>11, <2>1 DEF RotateKey, Typed, Work, KeyOrNone
  <2>4. proc' \in [Proc -> Work]
    BY <2>1, <2>2, MovedTyped
  <2>6. Typed'
    BY <1>11, <2>1, <2>3, <2>4 DEF RotateKey, Typed
  <2>5. Probing' /\ HasKey'
    BY <1>11, <2>1, <2>2 DEF RotateKey, Typed, Probing, HasKey, Work, At
  <2> QED BY <2>5, <2>6
<1>12. ASSUME NEW p \in Proc, RefreshKeyFile(p) PROVE TypeInv'
  <2>1. proc[p].new \in KeyOrNone /\ NoKey \in KeyOrNone /\ "list" \in Phase
    BY DEF Typed, Work, KeyOrNone, Phase
  <2>2. Typed'
    BY <1>12, <2>1, MovedTyped DEF RefreshKeyFile, Typed, InFile
  <2>3. Probing' /\ HasKey'
    BY <1>12 DEF RefreshKeyFile, Typed, Probing, HasKey, Work, At
  <2> QED BY <2>2, <2>3
<1>13. ASSUME NEW p \in Proc, ListPrinciples(p) PROVE TypeInv'
  BY <1>13 DEF ListPrinciples, Typed, Probing, HasKey, Work, Phase, At
<1>14. ASSUME NEW p \in Proc, ResignAllPrinciples(p) PROVE TypeInv'
  <2>1. \A r \in Principle : Resign(sealed[r], proc[p].snap[r], proc[p].key, proc[p].new) \in SealedRow
    BY ResignTyped DEF Typed, Work
  <2>2. sealed' \in [Principle -> SealedRow]
    BY <1>14, <2>1 DEF ResignAllPrinciples
  <2>3. Typed'
    BY <1>14, <2>2, IdleTyped DEF ResignAllPrinciples, Typed
  <2>4. Probing' /\ HasKey'
    BY <1>14, HolderAssumption DEF ResignAllPrinciples, Typed, Probing, HasKey, At, Idle
  <2> QED BY <2>3, <2>4
<1>15. ASSUME NEW p \in Proc, Crash(p) PROVE TypeInv'
  <2>1. Typed'
    BY <1>15, IdleTyped, BoundsAssumption DEF Crash, Typed
  <2>2. Probing' /\ HasKey'
    BY <1>15, HolderAssumption DEF Crash, Typed, Probing, HasKey, At, Idle
  <2> QED BY <2>1, <2>2
<1>16. CASE MarkerExpires
  BY <1>16 DEF MarkerExpires, Typed, Probing, HasKey, At
<1>17. CASE KeychainMoves
  BY <1>17, BoundsAssumption DEF KeychainMoves, Typed, Probing, HasKey, At
<1>18. ASSUME NEW k \in Key, LateStore(k) PROVE TypeInv'
  BY <1>18 DEF LateStore, Typed, Probing, HasKey, At, KeyOrNone
<1>19. ASSUME NEW r \in Principle, Damage(r) PROVE TypeInv'
  <2>1. writes + 1 \in Version /\ sealed[r] \in SealedRow /\ writes' = writes + 1
    BY <1>19, BoundsAssumption DEF Damage, Typed, Version
  <2>2. PICK row \in SealedRow :
          /\ sealed' = [sealed EXCEPT ![r] = row]
          /\ trusted' = IF row.sig = Unsigned THEN [trusted EXCEPT ![r] = @ \cup {Content(row)}]
                        ELSE trusted
    <3>a. Unsigned \in Signature
      BY BoundsAssumption DEF Signature, Unsigned, Version
    <3>1. /\ [sealed[r] EXCEPT !.title = writes + 1] \in SealedRow
          /\ [sealed[r] EXCEPT !.narrative = writes + 1, !.key = NoKey] \in SealedRow
          /\ [sealed[r] EXCEPT !.key = Garbage] \in SealedRow
          /\ [sealed[r] EXCEPT !.sig = Unsigned] \in SealedRow
      BY <2>1, <3>a DEF SealedRow
    <3> QED BY <1>19, <2>1, <3>1 DEF Damage
  <2>3. Content(row) \in Version \X Version
    BY DEF Content, SealedRow
  <2>4. sealed' \in [Principle -> SealedRow] /\ trusted' \in [Principle -> SUBSET (Version \X Version)]
    BY <2>2, <2>3 DEF Typed
  <2> QED BY <1>19, <2>1, <2>4 DEF Damage, Typed, Probing, HasKey, At
<1>20. CASE UNCHANGED keyVars
  BY <1>20 DEF keyVars, Typed, Probing, HasKey, At
<1>21. ASSUME NEW p \in Proc, KeyFileFails(p) PROVE TypeInv'
  <2>1. Typed'
    BY <1>21, IdleTyped, BoundsAssumption DEF KeyFileFails, Typed, InFile, Work, Phase
  <2>2. Probing' /\ HasKey'
    BY <1>21, HolderAssumption DEF KeyFileFails, Typed, Probing, HasKey, At, Idle
  <2> QED BY <2>1, <2>2
<1>22. ASSUME NEW p \in Proc, RefreshFails(p) PROVE TypeInv'
  <2>1. Typed'
    BY <1>22, IdleTyped, BoundsAssumption DEF RefreshFails, Typed, InFile
  <2>2. Probing' /\ HasKey'
    BY <1>22, HolderAssumption DEF RefreshFails, Typed, Probing, HasKey, At, Idle
  <2> QED BY <2>1, <2>2
<1> QED BY <1>1, <1>2, <1>3, <1>4, <1>5, <1>6, <1>7, <1>8, <1>9, <1>10, <1>11, <1>12, <1>13,
           <1>14, <1>15, <1>16, <1>17, <1>18, <1>19, <1>20, <1>21, <1>22 DEF KeysNext, Looks, Rotates

LEMMA TypeAlways == KeysSpec => []TypeInv
  BY TypeInit, KeysTypeStep, PTL DEF KeysSpec

\* Every variable keeps its type, the probe lock has one holder, and a process
\* that rotates has a key to start from (GetOrCreateKey, RotateKey).
THEOREM KeysTypeCorrect == KeysSpec => []KeysTypeOK
<1>1. TypeInv => KeysTypeOK
  BY DEF TypeInv, Typed, Probing, HasKey, KeysTypeOK, Work, Phase, KeyOrNone, InFile, At
<1> QED BY <1>1, TypeAlways, PTL

(* ------------------------- what is signed ----------------------------- *)

\* What a row holds may be trusted: what its signature is over, and without one
\* the content itself.
Vouched(row, all) ==
  IF row.sig = Unsigned THEN Content(row) \in all
  ELSE <<row.sig.title, row.sig.narrative>> \in all

\* That is so of every row and of every row that a rotation has read; and no row
\* goes away while a rotation works.
SignedInv ==
  \A r \in Principle :
    /\ sealed[r].status # "absent" => Vouched(sealed[r], trusted[r])
    /\ sealed[r].status = "absent" => sealed[r] = Unwritten
    /\ \A p \in Proc : proc[p].snap[r].status # "absent" =>
         /\ sealed[r].status # "absent"
         /\ Vouched(proc[p].snap[r], trusted[r])

\* A step that touches neither the rows nor what is trusted, and gives a
\* process nothing but what it had or an empty table, keeps SignedInv.
LEMMA SignedStays ==
  ASSUME TypeInv, SignedInv, sealed' = sealed, trusted' = trusted,
         \A p \in Proc : proc'[p].snap = proc[p].snap \/ proc'[p].snap = Idle.snap
  PROVE  SignedInv'
<1>1. \A r \in Principle : Idle.snap[r].status = "absent"
  BY DEF Idle, Unwritten
<1>2. ASSUME NEW p \in Proc, NEW r \in Principle, proc'[p].snap[r].status # "absent"
      PROVE  proc'[p].snap = proc[p].snap
  BY <1>1, <1>2
<1> QED BY <1>2 DEF SignedInv

\* What is trusted stays so.
LEMMA StaysVouched ==
  ASSUME NEW row, NEW some, NEW all, Vouched(row, some), some \subseteq all
  PROVE  Vouched(row, all)
  BY DEF Vouched

\* The steps that only set fields of a process other than its snapshot.
LEMMA SnapKept ==
  ASSUME Typed, NEW p \in Proc, NEW at \in Phase, NEW new \in KeyOrNone
  PROVE  \A q \in Proc : /\ [proc EXCEPT ![p].at = at][q].snap = proc[q].snap
                         /\ [proc EXCEPT ![p].at = at, ![p].new = new][q].snap = proc[q].snap
  BY DEF Typed, Work

LEMMA FoundSnap ==
  ASSUME Typed, NEW p \in Proc, NEW key \in KeyOrNone, Found(p, key)
  PROVE  \A q \in Proc : proc'[q].snap = proc[q].snap
<1>1. ASSUME NEW q \in Proc PROVE proc'[q].snap = proc[q].snap
  <2>1. CASE q = p
    BY <2>1, FoundFields
  <2>2. CASE q # p
    BY <2>2, FoundFields
  <2> QED BY <2>1, <2>2
<1> QED BY <1>1

LEMMA SignIs ==
  ASSUME NEW k \in Key, NEW t, NEW n
  PROVE  Sign(k, t, n) # Unsigned /\ Sign(k, t, n).title = t /\ Sign(k, t, n).narrative = n
<1>1. k # NoKey
  BY DEF Key
<1>2. Sign(k, t, n) = [key |-> k, title |-> t, narrative |-> n]
  BY <1>1 DEF Sign
<1>3. [key |-> k, title |-> t, narrative |-> n].key # Unsigned.key
  BY <1>1 DEF Unsigned
<1> QED BY <1>2, <1>3

LEMMA ResignSigned ==
  ASSUME NEW row \in SealedRow, NEW snap \in SealedRow, NEW old \in Key, NEW new \in Key, NEW all,
         row.status # "absent" => Vouched(row, all),
         row.status = "absent" => row = Unwritten,
         snap.status # "absent" => row.status # "absent" /\ Vouched(snap, all)
  PROVE  LET made == Resign(row, snap, old, new)
         IN /\ made.status # "absent" => Vouched(made, all)
            /\ made.status = "absent" => made = Unwritten
            /\ row.status # "absent" => made.status # "absent"
<1>1. CASE snap.status = "absent"
  BY <1>1 DEF Resign
<1>2. CASE snap.status # "absent" /\ ~Opens(snap, old)
  <2>1. Resign(row, snap, old, new) = [row EXCEPT !.status = "revoked"]
    BY <1>2 DEF Resign
  <2>2. Vouched(row, all)
    BY <1>2
  <2> QED BY <1>2, <2>1, <2>2 DEF Vouched, Content, SealedRow
<1>3. CASE snap.status # "absent" /\ Opens(snap, old)
  <2> DEFINE sig == Sign(new, snap.title, snap.narrative)
             made == [row EXCEPT !.narrative = snap.narrative, !.key = new, !.sig = sig]
  <2>1. Resign(row, snap, old, new) = made
    BY <1>3 DEF Resign
  <2>2. sig # Unsigned /\ sig.title = snap.title /\ sig.narrative = snap.narrative
    BY SignIs
  <2>3. Content(snap) \in all
    <3>1. CASE snap.sig = Unsigned
      BY <1>3, <3>1 DEF Vouched
    <3>2. CASE snap.sig # Unsigned
      <4>1. old # NoKey /\ snap.sig = Sign(old, snap.title, snap.narrative)
        BY <1>3, <3>2 DEF Opens, Key
      <4>2. snap.sig.title = snap.title /\ snap.sig.narrative = snap.narrative
        BY <4>1, SignIs
      <4> QED BY <1>3, <3>2, <4>2 DEF Vouched, Content
    <3> QED BY <3>1, <3>2
  <2> HIDE DEF sig
  <2>4. made.sig = sig /\ made.status = row.status
    BY DEF SealedRow
  <2>5. Vouched(made, all)
    BY <2>2, <2>3, <2>4 DEF Vouched, Content
  <2> QED BY <1>3, <2>1, <2>4, <2>5
<1> QED BY <1>1, <1>2, <1>3

LEMMA SignedInit == KeysInit => SignedInv
  BY DEF KeysInit, SignedInv, Idle, Unwritten

\* One row is replaced by another that may be trusted.
LEMMA RowReplaced ==
  ASSUME TypeInv, SignedInv, NEW r \in Principle, NEW made, NEW more,
         proc' = proc, sealed' = [sealed EXCEPT ![r] = made],
         trusted' = [trusted EXCEPT ![r] = @ \cup more],
         made.status # "absent", Vouched(made, more)
  PROVE  SignedInv'
<1>1. /\ sealed'[r] = made /\ \A s \in Principle \ {r} : sealed'[s] = sealed[s]
      /\ trusted'[r] = trusted[r] \cup more /\ \A s \in Principle : trusted[s] \subseteq trusted'[s]
  BY DEF TypeInv, Typed
<1>2. Vouched(made, trusted'[r])
  BY <1>1, StaysVouched
<1> SUFFICES ASSUME NEW s \in Principle
             PROVE  /\ sealed'[s].status # "absent" => Vouched(sealed'[s], trusted'[s])
                    /\ sealed'[s].status = "absent" => sealed'[s] = Unwritten
                    /\ \A p \in Proc : proc[p].snap[s].status # "absent" =>
                         sealed'[s].status # "absent" /\ Vouched(proc[p].snap[s], trusted'[s])
  BY DEF SignedInv
<1>3. \A p \in Proc : proc[p].snap[s].status # "absent" => Vouched(proc[p].snap[s], trusted'[s])
  BY <1>1, StaysVouched DEF SignedInv
<1>4. CASE s = r
  BY <1>1, <1>2, <1>3, <1>4
<1>5. CASE s # r
  BY <1>1, <1>3, <1>5, StaysVouched DEF SignedInv
<1> QED BY <1>4, <1>5

LEMMA SignedStep == TypeInv /\ SignedInv /\ [KeysNext]_keyVars => SignedInv'
<1> SUFFICES ASSUME TypeInv, SignedInv, [KeysNext]_keyVars PROVE SignedInv'
  OBVIOUS
<1> USE DEF TypeInv, storage, counters, history
<1>1. ASSUME NEW p \in Proc, NEW doing \in {"use", "rotate"}, GetOrCreateKey(p, doing)
      PROVE  SignedInv'
  <2>1. \A q \in Proc : proc'[q].snap = proc[q].snap \/ proc'[q].snap = Idle.snap
    BY <1>1 DEF GetOrCreateKey, Typed, Idle
  <2> QED BY <1>1, <2>1, SignedStays DEF GetOrCreateKey
<1>2. ASSUME NEW p \in Proc, KeyringGet(p) PROVE SignedInv'
  <2>1. chain \in KeyOrNone /\ Found(p, chain)
    BY <1>2 DEF KeyringGet, Typed
  <2> QED BY <1>2, <2>1, FoundSnap, SignedStays DEF KeyringGet
<1>3. ASSUME NEW p \in Proc, KeyringGetFails(p) PROVE SignedInv'
  <2>1. Fresh \in KeyOrNone /\ "set" \in Phase
    BY <1>3, FreshTyped DEF KeyringGetFails, Typed, KeyOrNone, Phase
  <2>2. proc' = [proc EXCEPT ![p].at = "set", ![p].new = Fresh]
    BY <1>3 DEF KeyringGetFails
  <2>3. \A q \in Proc : proc'[q].snap = proc[q].snap
    BY <2>1, <2>2 DEF Typed, Work
  <2> QED BY <1>3, <2>3, SignedStays DEF KeyringGetFails
<1>4. ASSUME NEW p \in Proc, KeyringSet(p) PROVE SignedInv'
  <2>1. proc[p].new \in KeyOrNone /\ Found(p, proc[p].new)
    BY <1>4 DEF KeyringSet, Typed, Work
  <2> QED BY <1>4, <2>1, FoundSnap, SignedStays DEF KeyringSet
<1>5. ASSUME NEW p \in Proc, KeyringSetFails(p) PROVE SignedInv'
  <2>1. NoKey \in KeyOrNone /\ "read" \in Phase
    BY DEF KeyOrNone, Phase
  <2>2. proc' = [proc EXCEPT ![p].at = "read", ![p].new = NoKey]
    BY <1>5 DEF KeyringSetFails
  <2>3. \A q \in Proc : proc'[q].snap = proc[q].snap
    BY <2>1, <2>2 DEF Typed, Work
  <2> QED BY <1>5, <2>3, SignedStays DEF KeyringSetFails
<1>6. ASSUME NEW p \in Proc, ReadKeyFile(p) PROVE SignedInv'
  <2>1. "write" \in Phase /\ NoKey \in KeyOrNone /\ (keyFile \in Key => keyFile \in KeyOrNone)
    BY DEF Phase, KeyOrNone
  <2>2. \A q \in Proc : proc'[q].snap = proc[q].snap
    <3>1. CASE keyFile \in Key /\ Found(p, keyFile)
      BY <2>1, <3>1, FoundSnap
    <3>2. CASE proc' = [proc EXCEPT ![p].at = "write"]
      BY <2>1, <3>2, SnapKept
    <3> QED BY <1>6, <3>1, <3>2 DEF ReadKeyFile
  <2> QED BY <1>6, <2>2, SignedStays DEF ReadKeyFile
<1>7. ASSUME NEW p \in Proc, WriteKeyFile(p) PROVE SignedInv'
  <2>1. Fresh \in KeyOrNone /\ Found(p, Fresh)
    BY <1>7, FreshTyped DEF WriteKeyFile, Typed, KeyOrNone
  <2> QED BY <1>7, <2>1, FoundSnap, SignedStays DEF WriteKeyFile
<1>8. ASSUME NEW p \in Proc, NEW r \in Principle, WritePrinciple(p, r) PROVE SignedInv'
  <2> DEFINE made == [Seal(writes', writes', proc[p].key) EXCEPT
                        !.status = IF sealed[r].status = "absent" THEN "active" ELSE sealed[r].status]
  <2>1. sealed[r].status \in {"absent", "active", "revoked"} /\ proc[p].key \in KeyOrNone
    BY DEF Typed, SealedRow, Work
  <2>2. /\ proc' = proc /\ sealed' = [sealed EXCEPT ![r] = made]
        /\ trusted' = [trusted EXCEPT ![r] = @ \cup {<<writes', writes'>>}]
    BY <1>8 DEF WritePrinciple
  <2>3. made.status # "absent" /\ Vouched(made, {<<writes', writes'>>})
    <3>1. /\ made.status # "absent" /\ Content(made) = <<writes', writes'>>
          /\ made.sig = Sign(proc[p].key, writes', writes')
      BY <2>1 DEF Seal, Content
    <3>2. CASE proc[p].key = NoKey
      BY <3>1, <3>2 DEF Sign, Vouched
    <3>3. CASE proc[p].key # NoKey
      <4>1. proc[p].key \in Key
        BY <2>1, <3>3 DEF KeyOrNone
      <4> QED BY <3>1, <4>1, SignIs DEF Vouched
    <3> QED BY <3>1, <3>2, <3>3
  <2> HIDE DEF made
  <2> QED BY <2>2, <2>3, RowReplaced
<1>9. ASSUME NEW p \in Proc, NEW r \in Principle, RevokePrinciple(p, r) PROVE SignedInv'
  <2> DEFINE made == [sealed[r] EXCEPT !.status = "revoked"]
  <2>1. /\ proc' = proc /\ sealed' = [sealed EXCEPT ![r] = made]
        /\ sealed[r].status = "active" /\ trusted' = trusted
    BY <1>9 DEF RevokePrinciple
  <2>2. made.status # "absent" /\ Vouched(made, trusted[r])
    BY <2>1 DEF SignedInv, Vouched, Content, Typed, SealedRow
  <2>3. trusted' = [trusted EXCEPT ![r] = @ \cup trusted[r]]
    BY <2>1 DEF Typed
  <2> HIDE DEF made
  <2> QED BY <2>1, <2>2, <2>3, RowReplaced
<1>10. ASSUME NEW p \in Proc, Exit(p) PROVE SignedInv'
  <2>1. \A q \in Proc : proc'[q].snap = proc[q].snap \/ proc'[q].snap = Idle.snap
    BY <1>10 DEF Exit, Typed
  <2> QED BY <1>10, <2>1, SignedStays DEF Exit
<1>11. ASSUME NEW p \in Proc, RotateKey(p) PROVE SignedInv'
  <2>1. Fresh \in KeyOrNone /\ "refresh" \in Phase /\ "replace" \in Phase
    BY <1>11, FreshTyped DEF RotateKey, Typed, KeyOrNone, Phase
  <2>2. PICK at \in {"refresh", "replace"} : proc' = [proc EXCEPT ![p].at = at, ![p].new = Fresh]
    BY <1>11 DEF RotateKey
  <2>3. \A q \in Proc : proc'[q].snap = proc[q].snap
    BY <2>1, <2>2 DEF Typed, Work
  <2> QED BY <1>11, <2>3, SignedStays DEF RotateKey
<1>12. ASSUME NEW p \in Proc, RefreshKeyFile(p) PROVE SignedInv'
  <2>1. "list" \in Phase /\ NoKey \in KeyOrNone
    BY DEF Phase, KeyOrNone
  <2> QED BY <1>12, <2>1, SnapKept, SignedStays DEF RefreshKeyFile
<1>13. ASSUME NEW p \in Proc, ListPrinciples(p) PROVE SignedInv'
  <2>1. /\ sealed' = sealed /\ trusted' = trusted
        /\ proc'[p].snap = sealed
        /\ \A q \in Proc \ {p} : proc'[q].snap = proc[q].snap
    BY <1>13 DEF ListPrinciples, Typed, Work
  <2> QED BY <2>1 DEF SignedInv
<1>14. ASSUME NEW p \in Proc, ResignAllPrinciples(p) PROVE SignedInv'
  <2>1. \A r \in Principle :
          /\ sealed'[r].status # "absent" => Vouched(sealed'[r], trusted[r])
          /\ sealed'[r].status = "absent" => sealed'[r] = Unwritten
          /\ sealed[r].status # "absent" => sealed'[r].status # "absent"
    <3> TAKE r \in Principle
    <3>1. sealed'[r] = Resign(sealed[r], proc[p].snap[r], proc[p].key, proc[p].new)
      BY <1>14 DEF ResignAllPrinciples
    <3>2. /\ sealed[r] \in SealedRow /\ proc[p].snap[r] \in SealedRow
          /\ proc[p].key \in Key /\ proc[p].new \in Key
      BY <1>14 DEF ResignAllPrinciples, Typed, Work, HasKey, At, KeyOrNone
    <3> QED BY <3>1, <3>2, ResignSigned DEF SignedInv
  <2>2. /\ trusted' = trusted
        /\ \A q \in Proc : proc'[q].snap = proc[q].snap \/ proc'[q].snap = Idle.snap
    BY <1>14 DEF ResignAllPrinciples, Typed
  <2>3. \A r \in Principle : Idle.snap[r].status = "absent"
    BY DEF Idle, Unwritten
  <2>4. ASSUME NEW q \in Proc, NEW r \in Principle, proc'[q].snap[r].status # "absent"
        PROVE  /\ sealed'[r].status # "absent"
               /\ Vouched(proc'[q].snap[r], trusted[r])
    <3>1. proc'[q].snap = proc[q].snap
      BY <2>2, <2>3, <2>4
    <3> QED BY <2>1, <2>4, <3>1 DEF SignedInv
  <2> QED BY <2>1, <2>2, <2>4 DEF SignedInv
<1>15. ASSUME NEW p \in Proc, Crash(p) PROVE SignedInv'
  <2>1. \A q \in Proc : proc'[q].snap = proc[q].snap \/ proc'[q].snap = Idle.snap
    BY <1>15 DEF Crash, Typed
  <2> QED BY <1>15, <2>1, SignedStays DEF Crash
<1>16. CASE MarkerExpires
  BY <1>16, SignedStays DEF MarkerExpires
<1>17. CASE KeychainMoves
  BY <1>17, SignedStays DEF KeychainMoves
<1>18. ASSUME NEW k \in Key, LateStore(k) PROVE SignedInv'
  BY <1>18, SignedStays DEF LateStore
<1>19. ASSUME NEW r \in Principle, Damage(r) PROVE SignedInv'
  <2>1. PICK row \in {[sealed[r] EXCEPT !.title = writes'],
                      [sealed[r] EXCEPT !.narrative = writes', !.key = NoKey],
                      [sealed[r] EXCEPT !.key = Garbage],
                      [sealed[r] EXCEPT !.sig = Unsigned]} :
          /\ sealed' = [sealed EXCEPT ![r] = row]
          /\ trusted' = IF row.sig = Unsigned THEN [trusted EXCEPT ![r] = @ \cup {Content(row)}]
                        ELSE trusted
    BY <1>19 DEF Damage
  <2>2. /\ proc' = proc /\ sealed[r].status = "active" /\ row.status = "active"
        /\ row.sig \in {sealed[r].sig, Unsigned}
    BY <1>19 DEF Damage, Typed, SealedRow
  <2>3. CASE row.sig = Unsigned
    <3>1. Vouched(row, {Content(row)}) /\ trusted' = [trusted EXCEPT ![r] = @ \cup {Content(row)}]
      BY <2>1, <2>3 DEF Vouched
    <3> QED BY <2>1, <2>2, <3>1, RowReplaced
  <2>4. CASE row.sig # Unsigned
    <3>1. row.sig = sealed[r].sig
      BY <2>2, <2>4
    <3>2. Vouched(row, trusted[r])
      BY <2>2, <2>4, <3>1 DEF Vouched, SignedInv
    <3>3. trusted' = [trusted EXCEPT ![r] = @ \cup trusted[r]]
      BY <2>1, <2>4 DEF Typed
    <3> QED BY <2>1, <2>2, <3>2, <3>3, RowReplaced
  <2> QED BY <2>3, <2>4
<1>20. CASE UNCHANGED keyVars
  BY <1>20, SignedStays DEF keyVars
<1>21. ASSUME NEW p \in Proc, KeyFileFails(p) \/ RefreshFails(p) PROVE SignedInv'
  <2>1. \A q \in Proc : proc'[q].snap = proc[q].snap \/ proc'[q].snap = Idle.snap
    BY <1>21 DEF KeyFileFails, RefreshFails, Typed, Idle
  <2> QED BY <1>21, <2>1, SignedStays DEF KeyFileFails, RefreshFails
<1> QED BY <1>1, <1>2, <1>3, <1>4, <1>5, <1>6, <1>7, <1>8, <1>9, <1>10, <1>11, <1>12, <1>13,
           <1>14, <1>15, <1>16, <1>17, <1>18, <1>19, <1>20, <1>21 DEF KeysNext, Looks, Rotates

\* What a signature accepts was written by forge as a whole, or was in the row
\* while the row had no signature, whatever damages the rows and whoever writes them
\* while a rotation signs them again (ResignAllPrinciples verifies each row that
\* has a signature under the old key first).
THEOREM SignedCorrect == KeysSpec => []NothingDamagedIsSigned
<1>1. TypeInv /\ SignedInv => NothingDamagedIsSigned
  <2> SUFFICES ASSUME TypeInv, SignedInv, NEW r \in Principle, sealed[r].sig # Unsigned,
                      Opens(sealed[r], sealed[r].sig.key)
               PROVE  Content(sealed[r]) \in trusted[r]
    BY DEF NothingDamagedIsSigned
  <2>1. sealed[r].sig.key \in KeyOrNone /\ sealed[r] # Unwritten /\ sealed[r].status # "absent"
    BY DEF TypeInv, Typed, SealedRow, Signature, KeyOrNone, SignedInv, Unwritten
  <2>2. sealed[r].sig.key # NoKey
    BY DEF TypeInv, Typed, SealedRow, Signature, Key
  <2>3. sealed[r].sig = Sign(sealed[r].sig.key, sealed[r].title, sealed[r].narrative)
    BY <2>2 DEF Opens
  <2>4. sealed[r].sig.title = sealed[r].title /\ sealed[r].sig.narrative = sealed[r].narrative
    BY <2>1, <2>2, <2>3, SignIs DEF KeyOrNone
  <2> QED BY <2>1, <2>4 DEF SignedInv, Vouched, Content
<1>2. TypeInv /\ SignedInv /\ [KeysNext]_keyVars => SignedInv'
  BY SignedStep
<1>3. KeysSpec => []SignedInv
  BY SignedInit, <1>2, TypeAlways, PTL DEF KeysSpec
<1> QED BY <1>1, <1>3, TypeAlways, PTL

(* --------------------------- one key for all --------------------------- *)

\* Where a process that asks now ends up.
Shared == IF up THEN chain ELSE keyFile

\* While nothing happened that may split them, the processes that have a key
\* and the stored rows have the shared one; with a keychain that answers nobody
\* looks at the file, and what is about to be stored there replaces nothing.
SharedRow(row, key) ==
  key # NoKey /\ row.key \in {key, NoKey, Garbage} /\ row.sig.key \in {key, NoKey}
Agreed ==
  /\ \A p \in Proc :
       /\ At(p) \in {"ready", "rotate"} => proc[p].key = Shared /\ Shared # NoKey
       /\ At(p) \notin {"refresh", "replace", "list", "resign"}
       /\ up => At(p) \notin {"read", "write"}
       /\ up /\ At(p) = "set" => chain = NoKey
  /\ \A r \in Principle : sealed[r].status # "absent" => SharedRow(sealed[r], Shared)
  /\ up => ~marker
  /\ keyFile \in KeyOrNone
AgreeInv == causes = {} => Agreed

LEMMA AgreeInit == KeysInit => AgreeInv
  BY BoundsAssumption DEF KeysInit, AgreeInv, Agreed, Idle, Unwritten, At, KeyOrNone, Key

\* Nobody has a key while there is none to share.
LEMMA NothingShared ==
  ASSUME TypeInv, Agreed, Shared = NoKey
  PROVE  /\ \A p \in Proc : At(p) \notin {"ready", "rotate"}
         /\ \A r \in Principle : sealed[r].status = "absent"
  BY DEF Agreed, SharedRow

\* A process finds the key that is shared from then on; if the shared key
\* changes by that, there was none before.
LEMMA FoundAgrees ==
  ASSUME TypeInv, Agreed, NEW p \in Proc, NEW key \in Key, Found(p, key), up' = up, sealed' = sealed,
         key = Shared', Shared = Shared' \/ Shared = NoKey,
         up => ~marker', up => chain' = chain \/ At(p) = "set", keyFile' \in KeyOrNone
  PROVE  Agreed'
<1>1. key \in KeyOrNone /\ Shared' # NoKey
  BY DEF KeyOrNone, Key
<1>2. /\ proc'[p].at \in {"ready", "rotate"} /\ proc'[p].key = Shared'
      /\ \A q \in Proc \ {p} : proc'[q] = proc[q]
  BY <1>1, FoundFields DEF TypeInv
<1>3. \A q \in Proc \ {p} : At(q) \in {"ready", "rotate"} => proc[q].key = Shared'
  BY NothingShared DEF Agreed
<1>4. \A q \in Proc \ {p} : At(p) = "set" => At(q) # "set"
  BY DEF TypeInv, Probing
<1>5. \A r \in Principle : sealed[r].status # "absent" => SharedRow(sealed[r], Shared')
  BY NothingShared DEF Agreed
<1>6. \A q \in Proc :
        /\ proc'[q].at \in {"ready", "rotate"} => proc'[q].key = Shared' /\ Shared' # NoKey
        /\ proc'[q].at \notin {"refresh", "replace", "list", "resign"}
        /\ up => proc'[q].at \notin {"read", "write"}
        /\ up /\ proc'[q].at = "set" => chain' = NoKey
  <2> TAKE q \in Proc
  <2>1. CASE q = p
    BY <1>1, <1>2, <2>1
  <2>2. CASE q # p
    BY <1>1, <1>2, <1>3, <1>4, <2>2 DEF Agreed, At
  <2> QED BY <2>1, <2>2
<1> QED BY <1>5, <1>6 DEF Agreed, At

LEMMA AgreeStep == TypeInv /\ AgreeInv /\ [KeysNext]_keyVars => AgreeInv'
<1> SUFFICES ASSUME TypeInv, AgreeInv, [KeysNext]_keyVars, causes' = {} PROVE Agreed'
  BY DEF AgreeInv
<1> USE DEF TypeInv, storage, counters, history
<1>1. ASSUME NEW p \in Proc, NEW doing \in {"use", "rotate"}, GetOrCreateKey(p, doing) PROVE Agreed'
  <2>1. Agreed /\ (up => ~marker /\ probe = Nobody)
    BY <1>1 DEF GetOrCreateKey, AgreeInv, Agreed
  <2> QED BY <1>1, <2>1 DEF GetOrCreateKey, Agreed, Shared, At, Typed, Idle
<1>2. ASSUME NEW p \in Proc, KeyringGet(p) PROVE Agreed'
  <2>1. Agreed /\ Found(p, chain) /\ chain \in Key /\ sealed' = sealed
    BY <1>2 DEF KeyringGet, AgreeInv, Typed, KeyOrNone
  <2>2. /\ up' = up /\ up /\ chain' = chain /\ chain = Shared' /\ Shared = Shared' /\ ~marker'
        /\ keyFile' \in KeyOrNone
    BY <1>2, <2>1 DEF KeyringGet, Shared, Agreed
  <2> QED BY <2>1, <2>2, FoundAgrees
<1>3. ASSUME NEW p \in Proc, KeyringGetFails(p) PROVE Agreed'
  <2>1. Agreed
    BY <1>3 DEF KeyringGetFails, AgreeInv
  <2> QED BY <1>3, <2>1 DEF KeyringGetFails, Agreed, Shared, At, Typed, Work
<1>4. ASSUME NEW p \in Proc, KeyringSet(p) PROVE Agreed'
  <2>1. Agreed /\ Found(p, proc[p].new) /\ proc[p].new \in Key /\ sealed' = sealed
    BY <1>4 DEF KeyringSet, AgreeInv, Typed, Work, KeyOrNone, HasKey, At
  <2>2. /\ up' = up /\ up /\ proc[p].new = Shared' /\ Shared = NoKey
        /\ ~marker' /\ At(p) = "set" /\ keyFile' \in KeyOrNone
    BY <1>4, <2>1 DEF KeyringSet, Shared, Agreed
  <2> QED BY <2>1, <2>2, FoundAgrees
<1>5. ASSUME NEW p \in Proc, KeyringSetFails(p) PROVE Agreed'
  <2>1. Agreed
    BY <1>5 DEF KeyringSetFails, AgreeInv
  <2> QED BY <1>5, <2>1 DEF KeyringSetFails, Agreed, Shared, At, Typed, Work
<1>6. ASSUME NEW p \in Proc, ReadKeyFile(p) PROVE Agreed'
  <2>1. Agreed /\ ~up /\ up' = up /\ sealed' = sealed /\ keyFile' = keyFile /\ keyFile' \in KeyOrNone
    BY <1>6 DEF ReadKeyFile, AgreeInv, Agreed
  <2>2. CASE keyFile \in Key
    <3>1. Found(p, keyFile) /\ keyFile = Shared' /\ Shared = Shared'
      BY <1>6, <2>1, <2>2 DEF ReadKeyFile, Shared
    <3> QED BY <2>1, <2>2, <3>1, FoundAgrees
  <2>3. CASE keyFile \notin Key
    <3>1. proc' = [proc EXCEPT ![p].at = "write"] /\ marker' = marker
      BY <1>6, <2>3 DEF ReadKeyFile
    <3> QED BY <2>1, <3>1 DEF Agreed, Shared, At, Typed, Work
  <2> QED BY <2>2, <2>3
<1>7. ASSUME NEW p \in Proc, WriteKeyFile(p) PROVE Agreed'
  <2>1. Agreed /\ ~up /\ up' = up /\ sealed' = sealed /\ keyFile = NoKey
    BY <1>7 DEF WriteKeyFile, AgreeInv, Agreed, KeyOrNone
  <2>2. /\ Found(p, Fresh) /\ Fresh \in Key /\ Fresh = Shared' /\ Shared = NoKey
        /\ keyFile' \in KeyOrNone
    BY <1>7, <2>1, FreshTyped DEF WriteKeyFile, Typed, Shared, KeyOrNone
  <2> QED BY <2>1, <2>2, FoundAgrees
<1>8. ASSUME NEW p \in Proc, NEW r \in Principle, WritePrinciple(p, r) PROVE Agreed'
  <2>1. Agreed /\ Shared' = Shared /\ proc' = proc
    BY <1>8 DEF WritePrinciple, AgreeInv, Shared
  <2>2. proc[p].key = Shared /\ Shared # NoKey
    BY <1>8, <2>1 DEF WritePrinciple, Agreed
  <2>3. /\ sealed'[r].key = Shared /\ sealed'[r].sig.key = Shared
        /\ \A s \in Principle \ {r} : sealed'[s] = sealed[s]
    BY <1>8, <2>2 DEF WritePrinciple, Typed, Seal, Sign
  <2> QED BY <1>8, <2>1, <2>2, <2>3 DEF WritePrinciple, Agreed, SharedRow, At
<1>9. ASSUME NEW p \in Proc, NEW r \in Principle, RevokePrinciple(p, r) PROVE Agreed'
  <2>1. Agreed /\ Shared' = Shared /\ proc' = proc
    BY <1>9 DEF RevokePrinciple, AgreeInv, Shared
  <2>2. \A s \in Principle : /\ sealed'[s].key = sealed[s].key /\ sealed'[s].sig = sealed[s].sig
                             /\ sealed'[s].status # "absent" => sealed[s].status # "absent"
    BY <1>9 DEF RevokePrinciple, Typed, SealedRow
  <2> QED BY <1>9, <2>1, <2>2 DEF RevokePrinciple, Agreed, SharedRow, At
<1>10. ASSUME NEW p \in Proc, Exit(p) PROVE Agreed'
  BY <1>10 DEF Exit, AgreeInv, Agreed, Shared, At, Typed, Idle
<1>11. ASSUME NEW p \in Proc, RotateKey(p) PROVE Agreed'
  BY <1>11 DEF RotateKey
<1>12. ASSUME NEW p \in Proc, At(p) \in {"refresh", "replace", "list", "resign"}, causes' = causes
       PROVE  Agreed'
  BY <1>12 DEF AgreeInv, Agreed
<1>13. ASSUME NEW p \in Proc, Crash(p) PROVE Agreed'
  BY <1>13 DEF Crash, CutShort, AgreeInv, Agreed, Shared, At, Typed, Idle
<1>14. CASE MarkerExpires
  BY <1>14 DEF MarkerExpires, AgreeInv, Agreed, Shared, At
<1>15. CASE KeychainMoves
  BY <1>15 DEF KeychainMoves
<1>16. ASSUME NEW k \in Key, LateStore(k) PROVE Agreed'
  BY <1>16 DEF LateStore
<1>17. ASSUME NEW r \in Principle, Damage(r) PROVE Agreed'
  <2>1. Agreed /\ Shared' = Shared /\ proc' = proc
    BY <1>17 DEF Damage, AgreeInv, Shared
  <2>2. \A s \in Principle : /\ sealed'[s].status = sealed[s].status
                             /\ sealed'[s].key \in {sealed[s].key, NoKey, Garbage}
                             /\ sealed'[s].sig.key \in {sealed[s].sig.key, NoKey}
    <3> SUFFICES ASSUME NEW s \in Principle
                 PROVE  /\ sealed'[s].status = sealed[s].status
                        /\ sealed'[s].key \in {sealed[s].key, NoKey, Garbage}
                        /\ sealed'[s].sig.key \in {sealed[s].sig.key, NoKey}
      OBVIOUS
    <3>1. sealed[r] \in SealedRow
      BY <1>17 DEF Typed
    <3>2. PICK row \in {[sealed[r] EXCEPT !.title = writes'],
                        [sealed[r] EXCEPT !.narrative = writes', !.key = NoKey],
                        [sealed[r] EXCEPT !.key = Garbage],
                        [sealed[r] EXCEPT !.sig = Unsigned]} :
            sealed' = [sealed EXCEPT ![r] = row]
      BY <1>17 DEF Damage
    <3>3. /\ row.status = sealed[r].status
          /\ row.key \in {sealed[r].key, NoKey, Garbage}
          /\ row.sig \in {sealed[r].sig, Unsigned}
      BY <3>1 DEF SealedRow
    <3>4. Unsigned.key = NoKey
      BY DEF Unsigned
    <3> QED BY <3>2, <3>3, <3>4 DEF Typed
  <2>3. \A s \in Principle : SharedRow(sealed[s], Shared) => SharedRow(sealed'[s], Shared)
    BY <2>2 DEF SharedRow
  <2> QED BY <1>17, <2>1, <2>2, <2>3 DEF Damage, Agreed, At
<1>18. CASE UNCHANGED keyVars
  BY <1>18 DEF keyVars, AgreeInv, Agreed, Shared, At
<1>19. ASSUME NEW p \in Proc, RefreshKeyFile(p) \/ ListPrinciples(p) \/ ResignAllPrinciples(p)
       PROVE  Agreed'
  BY <1>12, <1>19 DEF RefreshKeyFile, ListPrinciples, ResignAllPrinciples
<1>20. ASSUME NEW p \in Proc, KeyFileFails(p) PROVE Agreed'
  BY <1>20 DEF KeyFileFails
<1>21. ASSUME NEW p \in Proc, RefreshFails(p) PROVE Agreed'
  BY <1>21 DEF RefreshFails, CutShort, AgreeInv, Agreed
<1> QED BY <1>1, <1>2, <1>3, <1>4, <1>5, <1>6, <1>7, <1>8, <1>9, <1>10, <1>11, <1>13, <1>14,
           <1>15, <1>16, <1>17, <1>18, <1>19, <1>20, <1>21 DEF KeysNext, Looks, Rotates

\* Two processes have different keys, or an undamaged row does not open, only
\* after a process used the file because another was probing, two processes
\* created the file or one could not, the keychain changed or answered late, or
\* the key was rotated (GetOrCreateKey, sealPrincipleContent).
THEOREM AgreeCorrect == KeysSpec => []KeysAgree
<1>1. TypeInv /\ AgreeInv => KeysAgree
  <2> SUFFICES ASSUME TypeInv, AgreeInv, causes = {}, NEW p \in Proc, At(p) = "ready"
               PROVE  /\ \A q \in Proc : At(q) = "ready" => proc[q].key = proc[p].key
                      /\ \A r \in Principle : sealed[r].status = "active" /\ Undamaged(sealed[r])
                                              => Opens(sealed[r], proc[p].key)
    BY DEF KeysAgree
  <2>1. Agreed /\ proc[p].key = Shared
    BY DEF AgreeInv, Agreed
  <2>2. \A q \in Proc : At(q) = "ready" => proc[q].key = proc[p].key
    BY <2>1 DEF Agreed
  <2>3. ASSUME NEW r \in Principle, sealed[r].status = "active", Undamaged(sealed[r])
        PROVE  Opens(sealed[r], Shared)
    <3>1. sealed[r].key \in {Shared, NoKey} /\ sealed[r].sig.key \in {Shared, NoKey}
      BY <2>1, <2>3 DEF Agreed, SharedRow, Undamaged
    <3> QED BY <2>3, <3>1 DEF Undamaged, Opens, Sign
  <2> QED BY <2>1, <2>2, <2>3
<1>2. TypeInv /\ AgreeInv /\ [KeysNext]_keyVars => AgreeInv'
  BY AgreeStep
<1>3. KeysSpec => []AgreeInv
  BY AgreeInit, <1>2, TypeAlways, PTL DEF KeysSpec
<1> QED BY <1>1, <1>3, TypeAlways, PTL

(* ---------------------------- retired keys ----------------------------- *)

\* Two commands that rotate at the same time are not serialized; each may
\* write to the file what the other has replaced.
SingleRotator == \A p, q \in Rotator : p = q

\* Every key in use was generated, so that the next one is new.
Bounded ==
  /\ chain <= keys /\ (keyFile \in KeyOrNone => keyFile <= keys)
  /\ \A k \in late \cup retired : k <= keys
  /\ \A p \in Proc : proc[p].key <= keys /\ proc[p].new <= keys

Roles ==
  \A p \in Proc :
    /\ proc[p].doing = "rotate" => p \in Rotator
    /\ At(p) \in {"rotate", "refresh", "replace", "list", "resign"} => proc[p].doing = "rotate"

\* A rotation is about to refresh the file, or one ended before that.
FileIsBehind == "cut" \in causes \/ \E p \in Proc : At(p) = "refresh"

\* A retired key is not in the keychain, and in the file only when that is
\* behind.  What a process is about to store in the keychain is known to nobody
\* else, and so can be neither retired nor kept before; and what a rotation is
\* about to write to the file is not retired.
Retired ==
  /\ \A k \in retired : k # NoKey /\ k # chain /\ (k = keyFile => FileIsBehind)
  /\ \A p \in Proc :
       /\ At(p) = "set" =>
            /\ proc[p].new \notin retired \cup {chain, keyFile}
            /\ \A q \in Proc : /\ proc[q].key # proc[p].new
                               /\ q # p => proc[q].new # proc[p].new
       /\ At(p) \in {"refresh", "replace"} => proc[p].new \notin retired
RetiredInv == "slow" \notin causes => Retired

RotationInv == Bounded /\ Roles /\ RetiredInv

LEMMA RotationInit == KeysInit => RotationInv
  BY DEF KeysInit, RotationInv, Bounded, Roles, RetiredInv, Retired, Idle, At

\* The key that a process finds is one that was kept, a new one, or the one it
\* has just stored, which nobody else knew.
LEMMA FoundRetires ==
  ASSUME TypeInv, Roles, Retired, NEW p \in Proc, NEW key \in Key, Found(p, key),
         retired' = retired, chain' \in {chain, key}, keyFile' \in {keyFile, key},
         key \notin retired \/ UNCHANGED <<chain, keyFile>>,
         At(p) # "refresh", causes \subseteq causes',
         \A q \in Proc \ {p} : At(q) = "set" => key # proc[q].new,
         chain' = chain \/ \A q \in Proc : proc[q].key # key
  PROVE  Roles' /\ Retired'
<1>1. key \in KeyOrNone
  BY DEF KeyOrNone
<1>2. /\ proc'[p].at \in {"ready", "rotate"} /\ proc'[p].key = key /\ proc'[p].new = NoKey
      /\ proc'[p].at = "rotate" => proc[p].doing = "rotate"
      /\ proc'[p].doing = proc[p].doing
      /\ \A q \in Proc \ {p} : proc'[q] = proc[q]
  BY <1>1, FoundFields DEF TypeInv
<1>3. \A q \in Proc : proc'[q].at # "set" \/ q # p
  BY <1>2
<1>4. Roles'
  BY <1>2 DEF Roles, At
<1>5. FileIsBehind => FileIsBehind'
  BY <1>2 DEF FileIsBehind, At
<1>6. \A k \in retired : k # NoKey /\ k # chain' /\ (k = keyFile' => FileIsBehind')
  BY <1>5 DEF Retired
<1>7. ASSUME NEW q \in Proc, proc'[q].at = "set"
      PROVE  /\ proc'[q].new \notin retired \cup {chain', keyFile'}
             /\ \A r \in Proc : /\ proc'[r].key # proc'[q].new
                                /\ r # q => proc'[r].new # proc'[q].new
  <2>1. q # p /\ proc'[q] = proc[q] /\ At(q) = "set"
    BY <1>2, <1>7 DEF At
  <2>2. proc[q].new # NoKey /\ proc[q].new # key
    BY <2>1 DEF TypeInv, HasKey
  <2>3. proc[q].new \notin retired \cup {chain', keyFile'}
    BY <2>1, <2>2 DEF Retired
  <2>4. ASSUME NEW r \in Proc
        PROVE  proc'[r].key # proc[q].new /\ (r # q => proc'[r].new # proc[q].new)
    <3>1. CASE r = p
      BY <1>2, <2>2, <3>1
    <3>2. CASE r # p
      BY <1>2, <2>1, <3>2 DEF Retired
    <3> QED BY <3>1, <3>2
  <2> QED BY <2>1, <2>3, <2>4
<1>8. ASSUME NEW q \in Proc, proc'[q].at \in {"refresh", "replace"}
      PROVE  proc'[q].new \notin retired
  <2>1. q # p /\ proc'[q] = proc[q]
    BY <1>2, <1>8
  <2> QED BY <1>8, <2>1 DEF Retired, At
<1> QED BY <1>4, <1>6, <1>7, <1>8 DEF Retired, At

LEMMA FoundBounded ==
  ASSUME Typed, NEW p \in Proc, NEW key \in KeyOrNone, Found(p, key), NEW n, key <= n, NoKey <= n,
         \A q \in Proc : proc[q].key <= n /\ proc[q].new <= n
  PROVE  \A q \in Proc : proc'[q].key <= n /\ proc'[q].new <= n
<1> TAKE q \in Proc
<1>1. CASE q = p
  BY <1>1, FoundFields
<1>2. CASE q # p
  BY <1>2, FoundFields
<1> QED BY <1>1, <1>2

\* A new key is one more than those in use.
LEMMA FreshIsNew ==
  ASSUME TypeInv, Bounded, keys < MaxKeys
  PROVE  /\ Fresh \in Key /\ Fresh \in KeyOrNone /\ Fresh # NoKey
         /\ \A k \in KeyOrNone : k <= keys => k <= Fresh /\ k # Fresh
         /\ keyFile # Fresh /\ (keyFile \in KeyOrNone => keyFile <= Fresh)
         /\ Fresh <= Fresh /\ NoKey <= Fresh
<1>1. Fresh \in Key /\ Fresh \in KeyOrNone /\ Fresh # NoKey /\ keys \in Nat
  BY FreshTyped DEF TypeInv, Typed, KeyOrNone
<1>2. KeyOrNone \subseteq Nat
  BY BoundsAssumption DEF KeyOrNone, Key
<1>3. keyFile # Fresh
  BY <1>1, <1>2, GarbageApart DEF Fresh, Bounded, TypeInv, Typed, InFile
<1>4. keyFile \in KeyOrNone => keyFile <= Fresh
  BY <1>1, <1>2 DEF Fresh, Bounded
<1> QED BY <1>1, <1>2, <1>3, <1>4 DEF Fresh

LEMMA BoundedStep == TypeInv /\ Bounded /\ [KeysNext]_keyVars => Bounded'
<1> SUFFICES ASSUME TypeInv, Bounded, [KeysNext]_keyVars PROVE Bounded'
  OBVIOUS
<1> USE DEF TypeInv, storage, counters, history
<1>a. NoKey <= keys /\ keys \in Nat
  BY DEF Typed
<1>b. \A p \in Proc : proc[p].key <= keys /\ proc[p].new <= keys
  BY DEF Bounded
<1>c. \A p \in Proc : proc[p].key \in KeyOrNone /\ proc[p].new \in KeyOrNone
  BY DEF Typed, Work
<1>1. ASSUME NEW p \in Proc, NEW doing \in {"use", "rotate"}, GetOrCreateKey(p, doing)
      PROVE  Bounded'
  <2>1. \A q \in Proc : proc'[q].key <= keys /\ proc'[q].new <= keys
    BY <1>1, <1>a, <1>b DEF GetOrCreateKey, Typed, Idle
  <2> QED BY <1>1, <2>1 DEF GetOrCreateKey, Bounded
<1>2. ASSUME NEW p \in Proc, KeyringGet(p) PROVE Bounded'
  <2>1. chain \in KeyOrNone /\ Found(p, chain) /\ chain <= keys
    BY <1>2 DEF KeyringGet, Typed, Bounded
  <2>2. \A q \in Proc : proc'[q].key <= keys /\ proc'[q].new <= keys
    BY <1>a, <1>b, <2>1, FoundBounded
  <2> QED BY <1>2, <2>2 DEF KeyringGet, Bounded
<1>3. ASSUME NEW p \in Proc, KeyringGetFails(p) PROVE Bounded'
  <2>1. keys < MaxKeys /\ keys' = Fresh
    BY <1>3 DEF KeyringGetFails
  <2>2. \A q \in Proc : proc'[q].key <= Fresh /\ proc'[q].new <= Fresh
    BY <1>3, <1>b, <1>c, <2>1, FreshIsNew DEF KeyringGetFails, Typed, Work
  <2> QED BY <1>3, <2>1, <2>2, FreshIsNew DEF KeyringGetFails, Bounded, Typed, KeyOrNone
<1>4. ASSUME NEW p \in Proc, KeyringSet(p) PROVE Bounded'
  <2>1. proc[p].new \in KeyOrNone /\ Found(p, proc[p].new) /\ proc[p].new <= keys
    BY <1>4, <1>b, <1>c DEF KeyringSet
  <2>2. \A q \in Proc : proc'[q].key <= keys /\ proc'[q].new <= keys
    BY <1>a, <1>b, <2>1, FoundBounded
  <2> QED BY <1>4, <2>1, <2>2 DEF KeyringSet, Bounded
<1>5. ASSUME NEW p \in Proc, KeyringSetFails(p) PROVE Bounded'
  <2>1. \A q \in Proc : proc'[q].key <= keys /\ proc'[q].new <= keys
    BY <1>5, <1>a, <1>b DEF KeyringSetFails, Typed, Work
  <2> QED BY <1>5, <1>b, <2>1 DEF KeyringSetFails, Bounded
<1>6. ASSUME NEW p \in Proc, ReadKeyFile(p) PROVE Bounded'
  <2>1. \A q \in Proc : proc'[q].key <= keys /\ proc'[q].new <= keys
    <3>1. CASE keyFile \in Key /\ Found(p, keyFile)
      <4>1. keyFile \in KeyOrNone /\ keyFile <= keys
        BY <3>1 DEF Bounded, KeyOrNone
      <4> QED BY <1>a, <1>b, <3>1, <4>1, FoundBounded
    <3>2. CASE proc' = [proc EXCEPT ![p].at = "write"]
      BY <1>b, <3>2 DEF Typed, Work
    <3> QED BY <1>6, <3>1, <3>2 DEF ReadKeyFile
  <2> QED BY <1>6, <2>1 DEF ReadKeyFile, Bounded
<1>7. ASSUME NEW p \in Proc, WriteKeyFile(p) PROVE Bounded'
  <2>1. keys < MaxKeys /\ keys' = Fresh /\ Found(p, Fresh)
    BY <1>7 DEF WriteKeyFile
  <2>2. \A q \in Proc : proc[q].key <= Fresh /\ proc[q].new <= Fresh
    BY <1>b, <1>c, <2>1, FreshIsNew
  <2>3. \A q \in Proc : proc'[q].key <= Fresh /\ proc'[q].new <= Fresh
    BY <2>1, <2>2, FreshIsNew, FoundBounded
  <2> QED BY <1>7, <2>1, <2>3, FreshIsNew DEF WriteKeyFile, Bounded, Typed, KeyOrNone
<1>8. ASSUME NEW p \in Proc, RotateKey(p) PROVE Bounded'
  <2>1. keys < MaxKeys /\ keys' = Fresh
    BY <1>8 DEF RotateKey
  <2>2. \A q \in Proc : proc'[q].key <= Fresh /\ proc'[q].new <= Fresh
    BY <1>8, <1>b, <1>c, <2>1, FreshIsNew DEF RotateKey, Typed, Work
  <2>3. chain' <= Fresh /\ (keyFile' \in KeyOrNone => keyFile' <= Fresh)
    BY <1>8, <2>1, FreshIsNew DEF RotateKey, Bounded, Typed, KeyOrNone
  <2>4. \A k \in late' : k <= Fresh
    BY <1>8, <2>1, FreshIsNew DEF RotateKey, Bounded, Typed, KeyOrNone
  <2>5. \A k \in retired' : k <= Fresh
    <3>1. proc[p].key <= Fresh /\ chain <= Fresh /\ \A k \in retired : k <= Fresh
      BY <1>a, <1>b, <1>c, <2>1, FreshIsNew DEF Bounded, Typed, KeyOrNone
    <3>2. retired' \subseteq retired \cup {proc[p].key, chain}
      BY <1>8 DEF RotateKey
    <3> QED BY <3>1, <3>2
  <2> QED BY <2>1, <2>2, <2>3, <2>4, <2>5 DEF Bounded
<1>9. ASSUME NEW p \in Proc, RefreshKeyFile(p) PROVE Bounded'
  <2>1. \A q \in Proc : proc'[q].key <= keys /\ proc'[q].new <= keys
    BY <1>9, <1>b DEF RefreshKeyFile, Typed, Work
  <2> QED BY <1>9, <1>b, <2>1 DEF RefreshKeyFile, Bounded
<1>10. ASSUME NEW p \in Proc, ListPrinciples(p) PROVE Bounded'
  <2>1. \A q \in Proc : proc'[q].key <= keys /\ proc'[q].new <= keys
    BY <1>10, <1>b DEF ListPrinciples, Typed, Work
  <2> QED BY <1>10, <2>1 DEF ListPrinciples, Bounded
<1>11. ASSUME NEW p \in Proc, Exit(p) \/ ResignAllPrinciples(p) \/ Crash(p) PROVE Bounded'
  <2>1. \A q \in Proc : proc'[q].key <= keys /\ proc'[q].new <= keys
    BY <1>11, <1>a, <1>b DEF Exit, ResignAllPrinciples, Crash, Typed, Idle
  <2> QED BY <1>11, <2>1 DEF Exit, ResignAllPrinciples, Crash, Bounded
<1>12. ASSUME NEW k \in Key, LateStore(k) PROVE Bounded'
  BY <1>12 DEF LateStore, Bounded
<1>13. CASE UNCHANGED <<chain, keyFile, late, retired, keys, proc>>
  BY <1>13 DEF Bounded
<1>14. ASSUME NEW p \in Proc, NEW r \in Principle, WritePrinciple(p, r) \/ RevokePrinciple(p, r)
       PROVE  UNCHANGED <<chain, keyFile, late, retired, keys, proc>>
  BY <1>14 DEF WritePrinciple, RevokePrinciple
<1>15. ASSUME NEW r \in Principle, Damage(r)
       PROVE  UNCHANGED <<chain, keyFile, late, retired, keys, proc>>
  BY <1>15 DEF Damage
<1>16. MarkerExpires \/ KeychainMoves \/ UNCHANGED keyVars
         => UNCHANGED <<chain, keyFile, late, retired, keys, proc>>
  BY DEF MarkerExpires, KeychainMoves, keyVars
<1>17. ASSUME NEW p \in Proc, KeyFileFails(p) \/ RefreshFails(p) PROVE Bounded'
  <2>1. \A q \in Proc : proc'[q].key <= keys /\ proc'[q].new <= keys
    BY <1>17, <1>a, <1>b DEF KeyFileFails, RefreshFails, Typed, Idle
  <2>2. keyFile' \in {keyFile, Garbage} /\ Garbage \notin KeyOrNone
    BY <1>17, GarbageApart DEF KeyFileFails, RefreshFails, KeyOrNone
  <2> QED BY <1>17, <2>1, <2>2 DEF KeyFileFails, RefreshFails, Bounded
<1> QED BY <1>1, <1>2, <1>3, <1>4, <1>5, <1>6, <1>7, <1>8, <1>9, <1>10, <1>11, <1>12, <1>13,
           <1>14, <1>15, <1>16, <1>17 DEF KeysNext, Looks, Rotates

LEMMA RolesStep == TypeInv /\ Roles /\ [KeysNext]_keyVars => Roles'
<1> SUFFICES ASSUME TypeInv, Roles, [KeysNext]_keyVars PROVE Roles'
  OBVIOUS
<1> USE DEF TypeInv, storage, counters, history
<1>1. ASSUME NEW p \in Proc, NEW doing \in {"use", "rotate"}, GetOrCreateKey(p, doing),
             doing = "rotate" => p \in Rotator
      PROVE  Roles'
  BY <1>1 DEF GetOrCreateKey, Roles, Typed, Idle, At
<1>2. ASSUME NEW p \in Proc, NEW key \in KeyOrNone, Found(p, key) PROVE Roles'
  <2>1. /\ proc'[p].at \in {"ready", "rotate"} /\ proc'[p].doing = proc[p].doing
        /\ proc'[p].at = "rotate" => proc[p].doing = "rotate"
        /\ \A q \in Proc \ {p} : proc'[q] = proc[q]
    BY <1>2, FoundFields
  <2> QED BY <2>1 DEF Roles, At
<1>3. ASSUME NEW p \in Proc, KeyringGet(p) \/ KeyringSet(p) \/ WriteKeyFile(p) PROVE Roles'
  <2>1. chain \in KeyOrNone /\ proc[p].new \in KeyOrNone
    BY DEF Typed, Work
  <2>2. WriteKeyFile(p) => Fresh \in KeyOrNone
    BY FreshTyped DEF WriteKeyFile, Typed, KeyOrNone
  <2> QED BY <1>2, <1>3, <2>1, <2>2 DEF KeyringGet, KeyringSet, WriteKeyFile
<1>4. ASSUME NEW p \in Proc, KeyringGetFails(p) \/ KeyringSetFails(p) \/ RotateKey(p)
                               \/ RefreshKeyFile(p) \/ ListPrinciples(p)
      PROVE  Roles'
  <2>1. /\ proc'[p].doing = proc[p].doing
        /\ proc'[p].at \in {"set", "read", "refresh", "replace", "list", "resign"}
        /\ At(p) \in {"get", "set"} => proc'[p].at \in {"set", "read"}
        /\ At(p) \in {"get", "set", "rotate", "refresh", "replace", "list"}
        /\ \A q \in Proc \ {p} : proc'[q] = proc[q]
    BY <1>4 DEF KeyringGetFails, KeyringSetFails, RotateKey, RefreshKeyFile, ListPrinciples, Typed,
                Work, At
  <2> QED BY <2>1 DEF Roles, At
<1>5. ASSUME NEW p \in Proc, ReadKeyFile(p) PROVE Roles'
  <2>1. CASE proc' = [proc EXCEPT ![p].at = "write"]
    BY <2>1 DEF Roles, Typed, Work, At
  <2> QED BY <1>2, <1>5, <2>1 DEF ReadKeyFile, KeyOrNone
<1>6. ASSUME NEW p \in Proc, Exit(p) \/ ResignAllPrinciples(p) \/ Crash(p) PROVE Roles'
  BY <1>6 DEF Exit, ResignAllPrinciples, Crash, Roles, Typed, Idle, At
<1>7. CASE proc' = proc
  BY <1>7 DEF Roles, At
<1>8. ASSUME NEW p \in Proc, NEW r \in Principle, WritePrinciple(p, r) \/ RevokePrinciple(p, r)
      PROVE  proc' = proc
  BY <1>8 DEF WritePrinciple, RevokePrinciple
<1>9. ASSUME NEW r \in Principle, Damage(r) PROVE proc' = proc
  BY <1>9 DEF Damage
<1>10. ASSUME NEW k \in Key, LateStore(k) PROVE proc' = proc
  BY <1>10 DEF LateStore
<1>11. MarkerExpires \/ KeychainMoves \/ UNCHANGED keyVars => proc' = proc
  BY DEF MarkerExpires, KeychainMoves, keyVars
<1>12. ASSUME NEW p \in Proc, KeyFileFails(p) \/ RefreshFails(p) PROVE Roles'
  BY <1>12 DEF KeyFileFails, RefreshFails, Roles, Typed, Idle, At
<1> QED BY <1>1, <1>3, <1>4, <1>5, <1>6, <1>7, <1>8, <1>9, <1>10, <1>11, <1>12
        DEF KeysNext, Looks, Rotates

LEMMA RetiredStep ==
  ASSUME SingleRotator
  PROVE  TypeInv /\ RotationInv /\ [KeysNext]_keyVars => RetiredInv'
<1> SUFFICES ASSUME TypeInv, Bounded, Roles, RetiredInv, [KeysNext]_keyVars, "slow" \notin causes'
             PROVE  Retired'
  BY DEF RotationInv, RetiredInv
<1> USE DEF TypeInv, storage, counters, history
<1>a. \A p \in Proc : proc[p].key \in KeyOrNone /\ proc[p].new \in KeyOrNone
  BY DEF Typed, Work
<1>b. chain \in KeyOrNone /\ \A k \in retired : k \in KeyOrNone
  BY DEF Typed, KeyOrNone
<1>c. \A p \in Proc : At(p) # "refresh" /\ causes \subseteq causes'
                     /\ (\A q \in Proc \ {p} : proc'[q] = proc[q])
                       => (FileIsBehind => FileIsBehind')
  BY DEF FileIsBehind, At
<1>d. \A p, q \in Proc : At(p) \in {"rotate", "refresh", "replace"} /\ At(q) = "refresh" => q = p
  BY DEF Roles, SingleRotator
<1>1. ASSUME NEW p \in Proc, NEW doing \in {"use", "rotate"}, GetOrCreateKey(p, doing) PROVE Retired'
  <2>1. Retired /\ UNCHANGED <<chain, keyFile, retired>>
    BY <1>1 DEF GetOrCreateKey, RetiredInv
  <2>2. /\ proc'[p].at \in {"get", "read"} /\ proc'[p].key = NoKey /\ proc'[p].new = NoKey
        /\ \A q \in Proc \ {p} : proc'[q] = proc[q]
    BY <1>1 DEF GetOrCreateKey, Typed, Idle
  <2>3. FileIsBehind => FileIsBehind'
    BY <1>1, <1>c, <2>2 DEF GetOrCreateKey, At
  <2> QED BY <2>1, <2>2, <2>3 DEF Retired, At, HasKey
<1>2. ASSUME NEW p \in Proc, KeyringGet(p) PROVE Retired'
  <2>1. Retired /\ Found(p, chain) /\ chain \in Key
    BY <1>2 DEF KeyringGet, RetiredInv, Typed, KeyOrNone
  <2>2. chain \notin retired /\ \A q \in Proc \ {p} : At(q) = "set" => chain # proc[q].new
    BY <2>1 DEF Retired
  <2>3. UNCHANGED <<chain, keyFile, retired, causes>> /\ At(p) # "refresh"
    BY <1>2 DEF KeyringGet
  <2> QED BY <2>1, <2>2, <2>3, FoundRetires
<1>3. ASSUME NEW p \in Proc, KeyringGetFails(p) PROVE Retired'
  <2>1. Retired /\ UNCHANGED <<chain, keyFile, retired>> /\ keys < MaxKeys
    BY <1>3 DEF KeyringGetFails, RetiredInv
  <2>2. /\ proc'[p].at = "set" /\ proc'[p].key = proc[p].key /\ proc'[p].new = Fresh
        /\ \A q \in Proc \ {p} : proc'[q] = proc[q]
    BY <1>3 DEF KeyringGetFails, Typed, Work
  <2>3. /\ Fresh \notin retired \cup {chain, keyFile}
        /\ \A q \in Proc : proc[q].key # Fresh /\ proc[q].new # Fresh
    BY <1>a, <1>b, <2>1, FreshIsNew DEF Bounded
  <2>4. FileIsBehind => FileIsBehind'
    BY <1>3, <1>c, <2>2 DEF KeyringGetFails
  <2> QED BY <2>1, <2>2, <2>3, <2>4 DEF Retired, At
<1>4. ASSUME NEW p \in Proc, KeyringSet(p) PROVE Retired'
  <2>1. Retired /\ Found(p, proc[p].new) /\ proc[p].new \in Key /\ At(p) = "set"
    BY <1>4 DEF KeyringSet, RetiredInv, Typed, Work, HasKey, At, KeyOrNone
  <2>2. /\ proc[p].new \notin retired
        /\ \A q \in Proc \ {p} : At(q) = "set" => proc[p].new # proc[q].new
        /\ \A q \in Proc : proc[q].key # proc[p].new
    BY <2>1 DEF Retired
  <2>3. UNCHANGED <<retired, keyFile, causes>> /\ chain' = proc[p].new
    BY <1>4 DEF KeyringSet
  <2> QED BY <2>1, <2>2, <2>3, FoundRetires
<1>5. ASSUME NEW p \in Proc, KeyringSetFails(p) PROVE Retired'
  <2>1. Retired /\ UNCHANGED <<chain, keyFile, retired>>
    BY <1>5 DEF KeyringSetFails, RetiredInv
  <2>2. /\ proc'[p].at = "read" /\ proc'[p].key = proc[p].key /\ proc'[p].new = NoKey
        /\ \A q \in Proc \ {p} : proc'[q] = proc[q]
    BY <1>5 DEF KeyringSetFails, Typed, Work
  <2>3. FileIsBehind => FileIsBehind'
    BY <1>5, <1>c, <2>2 DEF KeyringSetFails
  <2> QED BY <2>1, <2>2, <2>3 DEF Retired, At, HasKey
<1>6. ASSUME NEW p \in Proc, ReadKeyFile(p) PROVE Retired'
  <2>1. Retired /\ UNCHANGED <<chain, keyFile, retired, causes>> /\ At(p) = "read"
    BY <1>6 DEF ReadKeyFile, RetiredInv
  <2>2. CASE keyFile \in Key
    <3>1. Found(p, keyFile)
      BY <1>6, <2>2 DEF ReadKeyFile
    <3>2. \A q \in Proc \ {p} : At(q) = "set" => keyFile # proc[q].new
      BY <2>1 DEF Retired
    <3> QED BY <2>1, <2>2, <3>1, <3>2, FoundRetires
  <2>3. CASE keyFile \notin Key
    <3>1. /\ proc'[p].at = "write" /\ proc'[p].key = proc[p].key /\ proc'[p].new = proc[p].new
          /\ \A q \in Proc \ {p} : proc'[q] = proc[q]
      BY <1>6, <2>3 DEF ReadKeyFile, Typed, Work
    <3>2. FileIsBehind => FileIsBehind'
      BY <1>c, <2>1, <3>1
    <3> QED BY <2>1, <3>1, <3>2 DEF Retired, At
  <2> QED BY <2>2, <2>3
<1>7. ASSUME NEW p \in Proc, WriteKeyFile(p) PROVE Retired'
  <2>1. Retired /\ Found(p, Fresh) /\ keys < MaxKeys
    BY <1>7 DEF WriteKeyFile, RetiredInv
  <2>2. Fresh \in Key /\ Fresh \notin retired /\ \A q \in Proc : proc[q].new # Fresh
    BY <1>a, <1>b, <2>1, FreshIsNew DEF Bounded
  <2>3. /\ retired' = retired /\ chain' = chain /\ keyFile' = Fresh
        /\ At(p) # "refresh" /\ causes \subseteq causes'
    BY <1>7 DEF WriteKeyFile
  <2> QED BY <2>1, <2>2, <2>3, FoundRetires
<1>8. ASSUME NEW p \in Proc, RotateKey(p) PROVE Retired'
  <2>1. Retired /\ keyFile' = keyFile /\ keys < MaxKeys /\ At(p) = "rotate" /\ causes \subseteq causes'
    BY <1>8 DEF RotateKey, RetiredInv
  <2>2. /\ Fresh \notin retired \cup {chain, keyFile} /\ Fresh # NoKey
        /\ \A q \in Proc : proc[q].key # Fresh /\ proc[q].new # Fresh
    BY <1>a, <1>b, <2>1, FreshIsNew DEF Bounded
  <2>3. /\ proc'[p].key = proc[p].key /\ proc'[p].new = Fresh
        /\ \/ proc'[p].at = "refresh" /\ chain' = Fresh /\ retired' = retired \cup ({proc[p].key, chain} \ {NoKey})
           \/ proc'[p].at = "replace" /\ chain' = chain /\ retired' = retired
        /\ \A q \in Proc \ {p} : proc'[q] = proc[q]
    BY <1>8 DEF RotateKey, Typed, Work
  <2>4. \A k \in retired' : k # NoKey /\ k # chain' /\ (k = keyFile' => FileIsBehind')
    <3>1. CASE proc'[p].at = "refresh"
      BY <2>1, <2>2, <2>3, <3>1 DEF Retired, FileIsBehind, At
    <3>2. CASE proc'[p].at = "replace"
      <4>1. FileIsBehind => FileIsBehind'
        BY <1>c, <2>1, <2>3
      <4> QED BY <2>1, <2>3, <3>2, <4>1 DEF Retired
    <3> QED BY <2>3, <3>1, <3>2
  <2>5. ASSUME NEW q \in Proc, proc'[q].at = "set"
        PROVE  /\ proc'[q].new \notin retired' \cup {chain', keyFile'}
               /\ \A r \in Proc : /\ proc'[r].key # proc'[q].new
                                  /\ r # q => proc'[r].new # proc'[q].new
    <3>1. q # p /\ proc'[q] = proc[q] /\ At(q) = "set"
      BY <2>3, <2>5 DEF At
    <3> QED BY <2>1, <2>2, <2>3, <3>1 DEF Retired
  <2>6. ASSUME NEW q \in Proc, proc'[q].at \in {"refresh", "replace"}
        PROVE  proc'[q].new \notin retired'
    <3>1. CASE q = p
      <4>1. proc[p].key # Fresh /\ chain # Fresh
        BY <2>2
      <4> QED BY <2>2, <2>3, <3>1, <4>1
    <3>2. CASE q # p
      BY <2>1, <2>3, <2>6, <3>2 DEF Roles, SingleRotator, At
    <3> QED BY <3>1, <3>2
  <2> QED BY <2>4, <2>5, <2>6 DEF Retired, At
<1>9. ASSUME NEW p \in Proc, RefreshKeyFile(p) PROVE Retired'
  <2>1. /\ Retired /\ chain' = chain /\ retired' = retired /\ causes' = causes
        /\ At(p) \in {"refresh", "replace"}
    BY <1>9 DEF RefreshKeyFile, RetiredInv
  <2>2. /\ proc'[p].at = "list" /\ proc'[p].key = proc[p].key /\ proc'[p].new = proc[p].new
        /\ \A q \in Proc \ {p} : proc'[q] = proc[q]
    BY <1>9 DEF RefreshKeyFile, Typed, Work
  <2>3. \A q \in Proc \ {p} : At(q) \notin {"refresh", "replace"}
    BY <2>1 DEF Roles, SingleRotator
  <2>4. /\ proc[p].new \notin retired /\ NoKey \notin retired
        /\ keyFile' \in {NoKey, proc[p].new}
    BY <1>9, <2>1 DEF RefreshKeyFile, Retired
  <2>5. \A k \in retired' : k # NoKey /\ k # chain' /\ k # keyFile'
    BY <2>1, <2>4 DEF Retired
  <2>6. ASSUME NEW q \in Proc, proc'[q].at = "set"
        PROVE  /\ proc'[q].new \notin retired' \cup {chain', keyFile'}
               /\ \A r \in Proc : /\ proc'[r].key # proc'[q].new
                                  /\ r # q => proc'[r].new # proc'[q].new
    <3>1. q # p /\ proc'[q] = proc[q] /\ At(q) = "set"
      BY <2>2, <2>6 DEF At
    <3>2. proc[q].new # NoKey
      BY <3>1 DEF HasKey
    <3> QED BY <2>1, <2>2, <2>4, <3>1, <3>2 DEF Retired
  <2>7. \A q \in Proc : proc'[q].at \notin {"refresh", "replace"}
    BY <2>2, <2>3 DEF At
  <2> QED BY <2>5, <2>6, <2>7 DEF Retired, At
<1>10. ASSUME NEW p \in Proc, ListPrinciples(p) PROVE Retired'
  <2>1. Retired /\ UNCHANGED <<chain, keyFile, retired>>
    BY <1>10 DEF ListPrinciples, RetiredInv
  <2>2. /\ proc'[p].at = "resign" /\ proc'[p].key = proc[p].key /\ proc'[p].new = proc[p].new
        /\ \A q \in Proc \ {p} : proc'[q] = proc[q]
    BY <1>10 DEF ListPrinciples, Typed, Work
  <2>3. FileIsBehind => FileIsBehind'
    BY <1>10, <1>c, <2>2 DEF ListPrinciples
  <2> QED BY <2>1, <2>2, <2>3 DEF Retired, At
<1>11. ASSUME NEW p \in Proc,
              Exit(p) \/ ResignAllPrinciples(p) \/ Crash(p) \/ KeyFileFails(p) \/ RefreshFails(p)
       PROVE  Retired'
  <2>1. /\ Retired /\ UNCHANGED <<chain, retired>> /\ causes \subseteq causes'
        /\ keyFile' \in {keyFile, Garbage}
    BY <1>11 DEF Exit, ResignAllPrinciples, Crash, KeyFileFails, RefreshFails, CutShort, RetiredInv
  <2>2. /\ proc'[p].at \in {"idle", "ready"} /\ proc'[p].key = NoKey /\ proc'[p].new = NoKey
        /\ \A q \in Proc \ {p} : proc'[q] = proc[q]
    BY <1>11 DEF Exit, ResignAllPrinciples, Crash, KeyFileFails, RefreshFails, Typed, Idle
  <2>3. At(p) = "refresh" => "cut" \in causes'
    BY <1>11 DEF Exit, ResignAllPrinciples, Crash, KeyFileFails, RefreshFails, CutShort
  <2>4. FileIsBehind => FileIsBehind'
    BY <1>c, <2>1, <2>2, <2>3 DEF FileIsBehind
  <2>5. Garbage \notin retired
    BY <1>b, GarbageApart DEF KeyOrNone
  <2>6. \A k \in retired' : k # NoKey /\ k # chain' /\ (k = keyFile' => FileIsBehind')
    BY <2>1, <2>4, <2>5 DEF Retired
  <2>7. ASSUME NEW q \in Proc, proc'[q].at = "set"
        PROVE  /\ proc'[q].new \notin retired' \cup {chain', keyFile'}
               /\ \A r \in Proc : /\ proc'[r].key # proc'[q].new
                                  /\ r # q => proc'[r].new # proc'[q].new
    <3>1. q # p /\ proc'[q] = proc[q] /\ At(q) = "set"
      BY <2>2, <2>7 DEF At
    <3>2. proc[q].new # NoKey /\ proc[q].new # Garbage
      BY <1>a, <3>1, GarbageApart DEF HasKey, KeyOrNone
    <3> QED BY <2>1, <2>2, <3>1, <3>2 DEF Retired
  <2>8. \A q \in Proc : proc'[q].at \in {"refresh", "replace"} => proc'[q].new \notin retired'
    BY <2>1, <2>2 DEF Retired, At
  <2> QED BY <2>6, <2>7, <2>8 DEF Retired, At
<1>12. ASSUME NEW k \in Key, LateStore(k) PROVE Retired'
  BY <1>12 DEF LateStore
<1> DEFINE NoLess == "slow" \notin causes /\ causes \subseteq causes'
<1>13. CASE UNCHANGED <<chain, keyFile, retired, proc>> /\ NoLess
  BY <1>13 DEF RetiredInv, Retired, FileIsBehind, At
<1>14. ASSUME NEW p \in Proc, NEW r \in Principle, WritePrinciple(p, r) \/ RevokePrinciple(p, r)
       PROVE  UNCHANGED <<chain, keyFile, retired, proc>> /\ NoLess
  BY <1>14 DEF WritePrinciple, RevokePrinciple
<1>15. ASSUME NEW r \in Principle, Damage(r)
       PROVE  UNCHANGED <<chain, keyFile, retired, proc>> /\ NoLess
  BY <1>15 DEF Damage
<1>16. MarkerExpires \/ KeychainMoves \/ UNCHANGED keyVars
         => UNCHANGED <<chain, keyFile, retired, proc>> /\ NoLess
  BY DEF MarkerExpires, KeychainMoves, keyVars
<1> QED BY <1>1, <1>2, <1>3, <1>4, <1>5, <1>6, <1>7, <1>8, <1>9, <1>10, <1>11, <1>12, <1>13,
           <1>14, <1>15, <1>16 DEF KeysNext, Looks, Rotates

\* With one command at a time that rotates, a key that a rotation replaced in
\* the keychain is not in the keychain again, and in the file only until the
\* rotation has refreshed that, unless a store that was given up lands afterwards
\* or the rotation is cut short between the two (RotateKey).
THEOREM RetiredCorrect ==
  ASSUME SingleRotator
  PROVE  KeysSpec => []RetiredStaysRetired
<1>1. RotationInv => RetiredStaysRetired
  BY DEF RotationInv, RetiredInv, Retired, FileIsBehind, RetiredStaysRetired
<1>2. TypeInv /\ RotationInv /\ [KeysNext]_keyVars => RotationInv'
  BY RetiredStep, RolesStep, BoundedStep DEF RotationInv
<1>3. KeysSpec => []RotationInv
  BY RotationInit, <1>2, TypeAlways, PTL DEF KeysSpec
<1> QED BY <1>1, <1>3, PTL
=============================================================================
