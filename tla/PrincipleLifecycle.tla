------------------------- MODULE PrincipleLifecycle -------------------------
(***************************************************************************)
(* The life of a principle in the principles table: inserted by the        *)
(* distiller or forge save, marked as conflicting with another one, its    *)
(* conflict resolved in the dashboard, revoked or deleted by the user, and *)
(* rewritten, expired, added or revived by forge consolidate.              *)
(*                                                                         *)
(* Each of these is a process of its own that works on rows it read some   *)
(* time ago: the conflict detector and the consolidation wait for a        *)
(* provider, the dashboard for its user.  SQLite lets one transaction      *)
(* write at a time: while the consolidation is inside its transaction      *)
(* nobody else writes, and readers see the committed rows.  A row's        *)
(* fingerprint, which is unique, stands for its title and project: one     *)
(* project is modelled.                                                    *)
(***************************************************************************)
EXTENDS Naturals, Sequences, FiniteSets

CONSTANTS
    Ids,        \* principle ids
    Titles,     \* titles: equal titles have equal fingerprints
    None,       \* the empty conflict_peer_id or superseded_by
    Stray,      \* an id that the provider made up: no row ever has it
    MaxOps      \* bound: decisions of the provider on one batch

ASSUME PrincipleAssumption ==
    /\ None \notin Ids /\ Stray \notin Ids /\ Stray # None
    /\ MaxOps \in Nat

VARIABLES
    rows,       \* the table, by id
    born,       \* the ids that were ever used: a new UUID is none of them
    det,        \* detectAndMarkConflicts of one distiller
    con,        \* forge consolidate: its batch, decisions, and how far it is
    work,       \* the rows as its transaction sees them
    audit,      \* the memory_ops rows that its transaction inserts
    dash,       \* the dashboard: rows it still looks at, pairs it shows
    manual,     \* history: revoked by the user, and not kept by them since
    settled     \* history: revoked by the user when nobody referred to it

vars == <<rows, born, det, con, work, audit, dash, manual, settled>>

-----------------------------------------------------------------------------
(* The table and its statements. *)

NoRow == [status |-> "none", title |-> None, peer |-> None,
          expired |-> FALSE, superseded |-> None]

(* insertPrinciple leaves the status empty: every read path takes that for *)
(* active, and so does the model.                                          *)
NewRow(t) == [NoRow EXCEPT !.status = "active", !.title = t]

NoRows == [i \in Ids |-> NoRow]

Exists(r, i) == i \in Ids /\ r[i].status # "none"
Active(r) == {i \in Ids : r[i].status = "active"}
WithTitle(r, t) == {i \in Ids : Exists(r, i) /\ r[i].title = t}

(* MarkConflicting: an UPDATE of a missing row changes nothing, and what   *)
(* is written to the other row does not depend on that.                    *)
MarkConflicting(r, a, b) ==
    [i \in Ids |-> IF i \in {a, b} /\ Exists(r, i)
                   THEN [r[i] EXCEPT !.status = "conflicting", !.peer = IF i = a THEN b ELSE a]
                   ELSE r[i]]

(* ClearConflictStatus *)
ClearConflictStatus(r, i) ==
    IF Exists(r, i) THEN [r EXCEPT ![i].status = "active", ![i].peer = None] ELSE r

(* ResolvePrincipleConflict *)
ResolvePrincipleConflict(r, keep, del) ==
    [i \in Ids |-> IF i = del THEN NoRow
                   ELSE IF Exists(r, i) /\ (i = keep \/ r[i].peer = del)
                        THEN [r[i] EXCEPT !.status = "active", !.peer = None]
                        ELSE r[i]]

(* Mutation: the peers are unlinked, and keep their status. *)
ExpirePrincipleKeepsStatus(r, i, by) ==
    [j \in Ids |->
        LET row == IF j = i /\ Exists(r, i)
                   THEN [r[i] EXCEPT !.status = "revoked", !.expired = TRUE, !.superseded = by]
                   ELSE r[j]
        IN  IF row.peer # i THEN row ELSE [row EXCEPT !.peer = None]]

(* Mutation: the status of memory_records is written. *)
ExpirePrincipleAsRecord(r, i, by) ==
    [r EXCEPT ![i] = [@ EXCEPT !.status = "expired", !.expired = TRUE, !.superseded = by]]

(* expirePrinciple: the row is revoked and expired, and who conflicts with *)
(* it returns to the active set.                                           *)
ExpirePrinciple(r, i, by) ==
    [j \in Ids |->
        LET row == IF j = i /\ Exists(r, i)
                   THEN [r[i] EXCEPT !.status = "revoked", !.expired = TRUE, !.superseded = by]
                   ELSE r[j]
        IN  IF row.peer # i THEN row
            ELSE [row EXCEPT !.status = IF @ = "conflicting" THEN "active" ELSE @, !.peer = None]]

(* Mutation: any row with the fingerprint is revived. *)
RevivableAny(r, t) == WithTitle(r, t)

(* The rows revivePrincipleIfExpired revives: it refuses the others. *)
Revivable(r, t) == {i \in WithTitle(r, t) : r[i].expired}

RevivePrinciple(r, i) ==
    [r EXCEPT ![i] = [@ EXCEPT !.status = "active", !.expired = FALSE, !.superseded = None]]

-----------------------------------------------------------------------------
(* Initial states. *)

IdleDetector == [phase |-> "idle", new |-> {}, old |-> {}]
IdleConsolidation == [phase |-> "idle", batch |-> {}, plan |-> <<>>, done |-> 0]

Init ==
    /\ rows = NoRows /\ born = {}
    /\ det = IdleDetector
    /\ con = IdleConsolidation /\ work = NoRows /\ audit = {}
    /\ dash = [todo |-> {}, shown |-> {}]
    /\ manual = {} /\ settled = {}

(* Another process may write. *)
Unlocked == con.phase # "tx"

-----------------------------------------------------------------------------
(* The distiller and forge save. *)

(* InsertPrinciple stores a row unless its fingerprint exists. *)
InsertPrinciple(i, t) ==
    /\ Unlocked
    /\ i \notin born /\ WithTitle(rows, t) = {}
    /\ rows' = [rows EXCEPT ![i] = NewRow(t)]
    /\ born' = born \cup {i}

Save(i, t) ==
    /\ InsertPrinciple(i, t)
    /\ UNCHANGED <<det, con, work, audit, dash, manual, settled>>

DistillInsert(i, t) ==
    /\ det.phase = "idle"
    /\ InsertPrinciple(i, t)
    /\ det' = [det EXCEPT !.new = @ \cup {i}]
    /\ UNCHANGED <<con, work, audit, dash, manual, settled>>

(* The active rows of the project, or the most recent of them. *)
DetRead ==
    /\ det.phase = "idle" /\ det.new # {}
    /\ \E old \in SUBSET (Active(rows) \ det.new) :
          det' = IF old = {} THEN IdleDetector ELSE [det EXCEPT !.phase = "mark", !.old = old]
    /\ UNCHANGED <<rows, born, con, work, audit, dash, manual, settled>>

(* The provider named a pair.  It was shown the new rows and the old ones  *)
(* and asked for one of each; parseConflictPairs lets any two ids through: *)
(* two of a kind, one id twice, or an id that is no row's.                 *)
DetMark(a, b) ==
    /\ Unlocked
    /\ det.phase = "mark" /\ {a, b} \subseteq det.new \cup det.old \cup {Stray}
    /\ rows' = MarkConflicting(rows, a, b)
    /\ UNCHANGED <<born, det, con, work, audit, dash, manual, settled>>

(* No more pairs, no answer, or the process is killed. *)
DetEnd ==
    /\ det.phase = "mark"
    /\ det' = IdleDetector
    /\ UNCHANGED <<rows, born, con, work, audit, dash, manual, settled>>

-----------------------------------------------------------------------------
(* The user's commands and the dashboard. *)

(* forge memory delete; thumbs-down, when the score gets too low. *)
Delete(i) ==
    /\ Unlocked /\ Exists(rows, i)
    /\ rows' = [rows EXCEPT ![i] = NoRow]
    /\ manual' = manual \ {i} /\ settled' = settled \ {i}
    /\ UNCHANGED <<born, det, con, work, audit, dash>>

(* Nobody has read row i and will still act on it. *)
Unnoticed(i) ==
    /\ i \notin det.new \cup det.old \cup con.batch
    /\ \A p \in dash.todo \cup dash.shown : i # p[1] /\ i # p[2]

Unreferenced(i) ==
    /\ ~ rows[i].expired /\ rows[i].peer = None
    /\ \A j \in Ids : rows[j].peer # i
    /\ Unnoticed(i)

(* forge harden revoke *)
Revoke(i) ==
    /\ Unlocked /\ Exists(rows, i)
    /\ rows' = [rows EXCEPT ![i].status = "revoked"]
    /\ manual' = manual \cup {i}
    /\ settled' = IF rows[i].status # "conflicting" /\ Unreferenced(i)
                  THEN settled \cup {i} ELSE settled
    /\ UNCHANGED <<born, det, con, work, audit, dash>>

(* handleConflicts reads the conflicting rows that have a peer. *)
DashList ==
    /\ dash.todo = {}
    /\ dash' = [shown |-> {}, todo |-> {<<i, rows[i].peer>> : i \in
                   {j \in Ids : rows[j].status = "conflicting" /\ rows[j].peer # None}}]
    /\ UNCHANGED <<rows, born, det, con, work, audit, manual, settled>>

(* For each of them, unless the pair is on the list already: is the peer   *)
(* still there?  If not the row is repaired, or, when the database is      *)
(* busy, left as it is.                                                    *)
DashCheck(p) ==
    /\ p \in dash.todo
    /\ LET next == [dash EXCEPT !.todo = @ \ {p}]
           seen == <<p[2], p[1]>> \in dash.shown
       IN  \/ /\ seen
              /\ dash' = next /\ UNCHANGED rows
           \/ /\ ~ seen /\ Exists(rows, p[2])
              /\ dash' = [next EXCEPT !.shown = @ \cup {p}] /\ UNCHANGED rows
           \/ /\ ~ seen /\ ~ Exists(rows, p[2])
              /\ dash' = next
              /\ rows' = IF Unlocked THEN ClearConflictStatus(rows, p[1]) ELSE rows
    /\ UNCHANGED <<born, det, con, work, audit, manual, settled>>

(* The user picks the one to keep of a pair on screen, and the page loads  *)
(* the conflicts again.                                                    *)
DashResolve(keep, del) ==
    /\ Unlocked /\ dash.todo = {}
    /\ <<keep, del>> \in dash.shown \/ <<del, keep>> \in dash.shown
    /\ rows' = ResolvePrincipleConflict(rows, keep, del)
    /\ dash' = [todo |-> {}, shown |-> {}]
    /\ manual' = manual \ {keep, del} /\ settled' = settled \ {del}
    /\ UNCHANGED <<born, det, con, work, audit>>

-----------------------------------------------------------------------------
(* forge consolidate --apply *)

(* RecentPrinciplesForConsolidation: active rows, as of now. *)
ConLoad ==
    /\ con.phase = "idle"
    /\ \E batch \in SUBSET Active(rows) :
          /\ batch # {}
          /\ con' = [con EXCEPT !.phase = "ready", !.batch = batch]
    /\ UNCHANGED <<rows, born, det, work, audit, dash, manual, settled>>

(* What validateResults lets through: UPDATE and DELETE name a row of the  *)
(* batch, ADD an id the provider made up or saw there.                     *)
Decisions ==
    [op : {"UPDATE", "DELETE"}, id : con.batch, title : Titles]
    \cup [op : {"ADD"}, id : con.batch \cup (Ids \ born), title : Titles]

(* applyResults opens the transaction of a batch.  The decisions were made *)
(* earlier; nothing looks at them before this step.                        *)
ConBegin ==
    /\ con.phase = "ready"
    /\ \E n \in 1..MaxOps : \E plan \in [1..n -> Decisions] :
          con' = [con EXCEPT !.phase = "tx", !.plan = plan, !.done = 0]
    /\ work' = rows /\ audit' = {}
    /\ UNCHANGED <<rows, born, det, dash, manual, settled>>

ConNext(op) ==
    /\ con.phase = "tx" /\ con.done < Len(con.plan)
    /\ con.plan[con.done + 1].op = op
    /\ con' = [con EXCEPT !.done = @ + 1]
    /\ UNCHANGED <<rows, born, det, dash, manual, settled>>

Decision == con.plan[con.done + 1]

(* applyUpdate: a missing row or a fingerprint that exists is an error.    *)
ConUpdate ==
    /\ ConNext("UPDATE")
    /\ Exists(work, Decision.id)
    /\ WithTitle(work, Decision.title) \subseteq {Decision.id}
    /\ work' = [work EXCEPT ![Decision.id].title = Decision.title]
    /\ audit' = audit \cup {<<"UPDATE", Decision.id>>}

(* applyExpire: superseded by the first ADD with the title it was given,   *)
(* or by itself.                                                           *)
Supersedes(by) ==
    LET adds == {k \in DOMAIN con.plan :
                    con.plan[k].op = "ADD" /\ con.plan[k].title = Decision.title}
    IN  \/ adds = {} /\ by = Decision.id
        \/ \E k \in adds : by = con.plan[k].id /\ \A m \in adds : k <= m

ConExpire ==
    /\ ConNext("DELETE")
    /\ \E by \in Ids : Supersedes(by) /\ work' = ExpirePrinciple(work, Decision.id, by)
    /\ audit' = audit \cup {<<"EXPIRE", Decision.id>>}

(* applyAdd: INSERT OR IGNORE, else revive, else record that it was        *)
(* skipped.                                                                *)
ConAdd ==
    /\ ConNext("ADD")
    /\ LET same == WithTitle(work, Decision.title)
           old  == Revivable(work, Decision.title)
       IN  \/ /\ ~ Exists(work, Decision.id) /\ same = {}
              /\ work' = [work EXCEPT ![Decision.id] = NewRow(Decision.title)]
              /\ audit' = audit \cup {<<"ADD", Decision.id>>}
           \/ \E i \in old :
                 /\ work' = RevivePrinciple(work, i)
                 /\ audit' = audit \cup {<<"REVIVE", i>>}
           \/ /\ Exists(work, Decision.id) \/ same # {}
              /\ old = {}
              /\ work' = work
              /\ audit' = audit \cup {<<"SKIP", i>> : i \in same}

(* MarkPrinciplesConsolidatedTx and the commit. *)
ConCommit ==
    /\ con.phase = "tx" /\ con.done = Len(con.plan)
    /\ rows' = work
    /\ born' = born \cup {i \in Ids : Exists(work, i)}
    /\ con' = IdleConsolidation /\ work' = NoRows /\ audit' = {}
    /\ UNCHANGED <<det, dash, manual, settled>>

(* A decision fails, the database is busy, or the process is killed: the   *)
(* batch is rolled back and the later ones are given up.                   *)
ConAbort ==
    /\ con.phase \in {"ready", "tx"}
    /\ con' = [IdleConsolidation EXCEPT !.phase = "failed"] /\ work' = NoRows /\ audit' = {}
    /\ UNCHANGED <<rows, born, det, dash, manual, settled>>

(* The next run of the command. *)
ConAgain ==
    /\ con.phase = "failed"
    /\ con' = IdleConsolidation
    /\ UNCHANGED <<rows, born, det, work, audit, dash, manual, settled>>

-----------------------------------------------------------------------------
(* The specification. *)

Distiller ==
    \/ \E i \in Ids, t \in Titles : DistillInsert(i, t)
    \/ DetRead \/ (\E a, b \in Ids \cup {Stray} : DetMark(a, b)) \/ DetEnd

User ==
    \/ \E i \in Ids, t \in Titles : Save(i, t)
    \/ \E i \in Ids : Delete(i) \/ Revoke(i)
    \/ DashList \/ (\E p \in dash.todo : DashCheck(p))
    \/ \E keep, del \in Ids : DashResolve(keep, del)

Consolidation ==
    \/ ConLoad \/ ConBegin \/ ConUpdate \/ ConExpire \/ ConAdd
    \/ ConCommit \/ ConAbort \/ ConAgain

Next == Distiller \/ User \/ Consolidation

Spec == Init /\ [][Next]_vars

-----------------------------------------------------------------------------
(* Properties. *)

Row == [status : {"none", "active", "conflicting", "revoked"}, title : Titles \cup {None},
        peer : Ids \cup {None, Stray}, expired : BOOLEAN, superseded : Ids \cup {None}]

Table == [Ids -> Row]

Decided == [op : {"UPDATE", "DELETE", "ADD"}, id : Ids, title : Titles]

AuditRows == {"UPDATE", "EXPIRE", "ADD", "REVIVE", "SKIP"} \X Ids

TableType == rows \in Table /\ work \in Table /\ born \in SUBSET Ids

DetectorType ==
    det \in [phase : {"idle", "mark"}, new : SUBSET Ids, old : SUBSET Ids]

ConsolidationType ==
    /\ con \in [phase : {"idle", "ready", "tx", "failed"}, batch : SUBSET Ids,
                plan : Seq(Decided), done : Nat]
    /\ con.done <= Len(con.plan)
    /\ audit \in SUBSET AuditRows

DashType ==
    dash \in [todo : SUBSET (Ids \X (Ids \cup {Stray})), shown : SUBSET (Ids \X Ids)]

HistoryType == manual \in SUBSET Ids /\ settled \in SUBSET Ids

(* Every variable keeps its type. *)
TypeOK == TableType /\ DetectorType /\ ConsolidationType /\ DashType /\ HistoryType

(* The inductive invariant, part by part: a conflicting row names a peer,  *)
(* in the committed table and in the transaction.                          *)
Linked(r) == \A i \in Ids : r[i].status = "conflicting" => r[i].peer # None

ConflictsLinked == Linked(rows) /\ Linked(work)

(* Row i is revoked, not expired, and in no conflict. *)
Alone(r, i) ==
    /\ r[i].status = "revoked" /\ ~ r[i].expired /\ r[i].peer = None
    /\ \A j \in Ids : r[j].peer # i

SettledAlone ==
    \A i \in settled :
        i \in born /\ Alone(rows, i) /\ (con.phase = "tx" => Alone(work, i)) /\ Unnoticed(i)

(* Only an ADD names an id outside the batch. *)
PlanInBatch ==
    /\ con.phase # "tx" => con.plan = <<>>
    /\ \A k \in DOMAIN con.plan : con.plan[k].op # "ADD" => con.plan[k].id \in con.batch

(* What the transaction expired, it has unlinked. *)
ExpiredUnlinked ==
    \A i, j \in Ids : <<"EXPIRE", i>> \in audit => work[j].peer # i

(* Every row has an id that was used. *)
RowsBorn == \A i \in Ids : Exists(rows, i) => i \in born

IInv ==
    /\ TypeOK /\ ConflictsLinked /\ SettledAlone
    /\ PlanInBatch /\ ExpiredUnlinked /\ RowsBorn

(* A quarantined principle can always be found again: a conflicting row    *)
(* names a peer, so that handleConflicts shows the pair or, where there is *)
(* no such peer, repairs the row.  One with an empty peer would be skipped *)
(* there and excluded from every other read path, for good.  It holds for  *)
(* whatever ids the provider names; the peer need not be another row.      *)
ConflictHasPeer == Linked(rows)

(* A manual revocation made while nobody referred to the row (no conflict  *)
(* peer, no detector, batch or screen that had read it) survives whatever  *)
(* the distillers, the consolidation and the dashboard do afterwards, an   *)
(* ADD with the same fingerprint included.                                 *)
SettledRevocations ==
    \A i \in settled : rows[i].status = "revoked" /\ ~ rows[i].expired

Commits == con.phase = "tx" /\ con'.phase = "idle"

(* A committed batch leaves no row in conflict with one that it expired,   *)
(* however its decisions and the marking of conflicts interleave.          *)
ExpiryUnlinksPeers ==
    [][Commits => \A i, j \in Ids : <<"EXPIRE", i>> \in audit => rows'[j].peer # i]_vars

(* What the code says of the program, and the runs refute. *)

(* distill.go:1783: a marked pair is one of two principles.  A row in      *)
(* conflict with itself is on screen twice, and keeping it deletes it.     *)
PairsOfTwo == \A i \in Ids : rows[i].status = "conflicting" => rows[i].peer # i

(* principles.go:929: an ADD decision must not undo a manual revocation.   *)
RevivalSparesManual ==
    [][Commits => \A i \in manual : <<"REVIVE", i>> \notin audit]_vars
=============================================================================
