---------------------------- MODULE HandlersProofs ----------------------------
(***************************************************************************)
(* Theorems about what the daemon's handlers leave behind when commands    *)
(* fail: the signatures and alerts of FailureAlerts, for any number of     *)
(* observers, commands, messages and rows, and the jobs of RetrievalQueue, *)
(* for any libraries, handlers and bounds, which implements                *)
(* RetrievalPromise.                                                       *)
(***************************************************************************)
EXTENDS FailureAlerts, RetrievalQueue, TLAPS

(***************************************************************************)
(* FailureAlerts: its invariants and what a resolved row keeps.            *)
(***************************************************************************)

(* The table of signatures as a value: t for sigs before a step and u for  *)
(* sigs after it.                                                          *)
Table == [Ids -> Signature \cup {NoRow}]
Rows(t) == {i \in Ids : t[i] # NoRow}
OpenRows(t) == {i \in Rows(t) : t[i].resolved = Unresolved}

(* What a handler may rely on in its phase, however the others interleave. *)
Work(r, t) ==
    /\ r.todo \subseteq r.ids /\ r.ids \subseteq Rows(t)
    /\ r.phase # "resolve" => r.todo = {}
    /\ r.phase \in {"count", "read", "alert"} => r.event \in Failure
    /\ r.phase \in {"select", "resolve", "acknowledge"} => r.event \in Success
    /\ r.phase = "alert" => \A i \in r.ids : t[i].fp = r.event.fp /\ t[i].count >= 2
    /\ r.phase = "resolve" => r.ids \cap OpenRows(t) \subseteq r.todo
    /\ r.phase = "acknowledge" => r.ids \cap OpenRows(t) = {}

Observing == \A h \in Observers : Work(observer[h], sigs)

(* The inductive invariant. *)
AlertsInv == AlertsTypeOK /\ Observing /\ AlertsNameRepeats /\ AcknowledgedIsResolved

(* What every step does to the table: rows stay, count on while they are   *)
(* open, and never open again.                                             *)
Grows(t, u) ==
    \A i \in Rows(t) :
        /\ i \in Rows(u) /\ u[i].fp = t[i].fp
        /\ t[i].count \in Nat /\ u[i].count \in Nat /\ u[i].count >= t[i].count
        /\ i \notin OpenRows(t) => i \notin OpenRows(u) /\ u[i].count = t[i].count

-----------------------------------------------------------------------------
(* The statements that write signatures. *)

LEMMA RowTypes ==
    ASSUME NEW t \in Table
    PROVE  \A i \in Rows(t) : t[i] \in Signature /\ t[i].count \in Nat
  BY DEF Table, Rows, Signature

(* Another failure of an open row. *)
LEMMA CountGrows ==
    ASSUME NEW t \in Table, NEW i \in OpenRows(t)
    PROVE  /\ [t EXCEPT ![i].count = @ + 1] \in Table
           /\ Grows(t, [t EXCEPT ![i].count = @ + 1])
<1> DEFINE u == [t EXCEPT ![i].count = @ + 1]
<1>1. i \in Ids /\ t[i] \in Signature /\ t[i].count \in Nat
  BY RowTypes DEF OpenRows, Rows
<1>2. /\ u[i] \in Signature /\ u[i].fp = t[i].fp
      /\ u[i].count = t[i].count + 1 /\ u[i].resolved = t[i].resolved
  BY <1>1 DEF Table, Signature
<1>3. \A j \in Ids \ {i} : u[j] = t[j]
  BY DEF Table
<1>4. u \in Table
  BY <1>1, <1>2, <1>3 DEF Table
<1> HIDE DEF u
<1>5. Grows(t, u)
  BY <1>1, <1>2, <1>3, RowTypes, FailureAssumption DEF Grows, Rows, OpenRows
<1> QED BY <1>4, <1>5 DEF u

(* The first failure since the fingerprint was resolved. *)
LEMMA InsertGrows ==
    ASSUME NEW t \in Table, NEW i \in Ids \ Rows(t), NEW s \in Signature
    PROVE  [t EXCEPT ![i] = s] \in Table /\ Grows(t, [t EXCEPT ![i] = s])
  BY RowTypes DEF Table, Grows, Rows, OpenRows

LEMMA ResolveGrows ==
    ASSUME NEW t \in Table, NEW i \in Rows(t), NEW ts \in Times
    PROVE  /\ [t EXCEPT ![i].resolved = ts] \in Table
           /\ Grows(t, [t EXCEPT ![i].resolved = ts])
           /\ i \notin OpenRows([t EXCEPT ![i].resolved = ts])
<1> DEFINE u == [t EXCEPT ![i].resolved = ts]
<1>1. i \in Ids /\ t[i] \in Signature /\ t[i].count \in Nat
  BY RowTypes DEF Rows
<1>2. /\ u[i] \in Signature /\ u[i].fp = t[i].fp
      /\ u[i].count = t[i].count /\ u[i].resolved # Unresolved
  BY <1>1, FailureAssumption DEF Table, Signature
<1>3. \A j \in Ids \ {i} : u[j] = t[j]
  BY DEF Table
<1>4. u \in Table
  BY <1>1, <1>2, <1>3 DEF Table
<1> HIDE DEF u
<1>5. Grows(t, u) /\ i \notin OpenRows(u)
  BY <1>1, <1>2, <1>3, RowTypes, FailureAssumption DEF Grows, Rows, OpenRows
<1> QED BY <1>4, <1>5 DEF u

LEMMA SameGrows == ASSUME NEW t \in Table PROVE Grows(t, t)
  BY RowTypes DEF Grows

-----------------------------------------------------------------------------
(* While the table only grows, what a handler relies on and what the       *)
(* alerts say stays true.                                                  *)

LEMMA WorkStays ==
    ASSUME NEW t \in Table, NEW u \in Table, Grows(t, u),
           NEW r \in ObserverStates, Work(r, t)
    PROVE  Work(r, u)
<1>1. OpenRows(u) \cap Rows(t) \subseteq OpenRows(t)
  BY DEF Grows
<1> QED BY <1>1 DEF Work, Grows, ObserverStates

LEMMA AlertsStay ==
    ASSUME AlertsInv, Grows(sigs, sigs'), UNCHANGED <<active, acked>>
    PROVE  AlertsNameRepeats' /\ AcknowledgedIsResolved'
<1>1. \A i \in Stored : /\ i \in Stored' /\ sigs'[i].fp = sigs[i].fp
                        /\ sigs[i].count >= 2 => sigs'[i].count >= 2
                        /\ i \notin Open => i \notin Open'
  BY DEF Grows, Rows, OpenRows, Stored, Open
<1>2. AlertsNameRepeats'
  BY <1>1 DEF AlertsInv, AlertsNameRepeats
<1>3. AcknowledgedIsResolved'
  BY <1>1 DEF AlertsInv, AlertsNameRepeats, AcknowledgedIsResolved
<1> QED BY <1>2, <1>3

(* A handler moves to state r, and the others stay where they are. *)
LEMMA Moved ==
    ASSUME AlertsInv, sigs' \in Table, Grows(sigs, sigs'),
           NEW h \in Observers, observer'[h] \in ObserverStates, Work(observer'[h], sigs'),
           \E r : observer' = [observer EXCEPT ![h] = r]
    PROVE  observer' \in [Observers -> ObserverStates] /\ Observing'
<1>1. \A g \in Observers \ {h} : observer'[g] = observer[g]
  BY DEF AlertsInv, AlertsTypeOK
<1>2. observer' \in [Observers -> ObserverStates]
  BY DEF AlertsInv, AlertsTypeOK
<1>3. ASSUME NEW g \in Observers \ {h} PROVE Work(observer[g], sigs')
  <2>1. sigs \in Table /\ observer[g] \in ObserverStates /\ Work(observer[g], sigs)
    BY DEF AlertsInv, AlertsTypeOK, Table, Observing
  <2> QED BY <2>1, WorkStays
<1> QED BY <1>1, <1>2, <1>3 DEF Observing

LEMMA IdleWorks ==
    ASSUME NEW t \in Table
    PROVE  Idle \in ObserverStates /\ Work(Idle, t)
  BY DEF Idle, ObserverStates, Phase, Work

-----------------------------------------------------------------------------
(* The induction. *)

LEMMA AlertsInvInit == AlertsInit => AlertsInv
<1> SUFFICES ASSUME AlertsInit PROVE AlertsInv
  OBVIOUS
<1>1. sigs \in Table
  BY DEF AlertsInit, Table
<1>2. AlertsTypeOK /\ Observing
  BY <1>1, IdleWorks DEF AlertsInit, AlertsTypeOK, Table, Observing
<1>3. AlertsNameRepeats /\ AcknowledgedIsResolved
  BY DEF AlertsInit, AlertsNameRepeats, AcknowledgedIsResolved
<1> QED BY <1>2, <1>3 DEF AlertsInv

-----------------------------------------------------------------------------
(* Each action keeps the invariant and only lets the table grow. *)

LEMMA Here ==
    ASSUME AlertsInv, NEW h \in Observers
    PROVE  /\ sigs \in Table /\ observer[h] \in ObserverStates
           /\ Work(observer[h], sigs)
  BY DEF AlertsInv, AlertsTypeOK, Table, Observing

(* A step that leaves the alerts alone. *)
LEMMA AlertsAside ==
    ASSUME AlertsInv, sigs' \in Table, Grows(sigs, sigs'),
           NEW h \in Observers, observer'[h] \in ObserverStates, Work(observer'[h], sigs'),
           \E r : observer' = [observer EXCEPT ![h] = r],
           UNCHANGED <<active, acked>>,
           events' \in Nat, faults' \in Nat, panics' \in BOOLEAN
    PROVE  AlertsInv' /\ Grows(sigs, sigs')
<1>1. observer' \in [Observers -> ObserverStates] /\ Observing'
  BY Moved
<1>2. AlertsNameRepeats' /\ AcknowledgedIsResolved'
  BY AlertsStay
<1> QED BY <1>1, <1>2 DEF AlertsInv, AlertsTypeOK, Table

LEMMA ReceiveKeeps ==
    ASSUME AlertsInv, NEW h \in Observers, NEW e \in Event, Receive(h, e)
    PROVE  AlertsInv' /\ Grows(sigs, sigs')
<1> DEFINE r == [phase |-> IF e.kind = "failure" THEN "count" ELSE "select",
                 event |-> e, ids |-> {}, todo |-> {}]
<1>1. observer' = [observer EXCEPT ![h] = r]
  BY DEF Receive
<1>2. r \in ObserverStates /\ Work(r, sigs)
  BY DEF ObserverStates, Phase, Work, Event, Failure, Success
<1> HIDE DEF r
<1>3. observer'[h] = r
  BY <1>1 DEF AlertsInv, AlertsTypeOK
<1>4. sigs' = sigs /\ sigs \in Table /\ Grows(sigs, sigs)
  BY Here, SameGrows DEF Receive
<1>5. UNCHANGED <<active, acked>> /\ events' \in Nat /\ faults' \in Nat /\ panics' \in BOOLEAN
  BY DEF Receive, AlertsInv, AlertsTypeOK
<1> QED BY <1>1, <1>2, <1>3, <1>4, <1>5, AlertsAside

LEMMA UpsertKeeps ==
    ASSUME AlertsInv, NEW h \in Observers, NEW i \in Ids, UpsertFailureSignature(h, i)
    PROVE  AlertsInv' /\ Grows(sigs, sigs')
<1>1. /\ sigs \in Table /\ observer[h] \in ObserverStates /\ Work(observer[h], sigs)
      /\ observer[h].phase = "count" /\ Ev(h) \in Failure
  BY Here DEF UpsertFailureSignature, At, Work, Ev
<1>2. sigs' \in Table /\ Grows(sigs, sigs')
  <2>1. CASE OpenOf(Ev(h).fp) # {}
    <3>1. i \in OpenRows(sigs) /\ sigs' = [sigs EXCEPT ![i].count = @ + 1]
      BY <2>1 DEF UpsertFailureSignature, OpenOf, Open, Stored, OpenRows, Rows
    <3> QED BY <1>1, <3>1, CountGrows
  <2>2. CASE OpenOf(Ev(h).fp) = {}
    <3> DEFINE s == [fp |-> Ev(h).fp, count |-> 1, resolved |-> Unresolved]
    <3>1. i \in Ids \ Rows(sigs) /\ sigs' = [sigs EXCEPT ![i] = s]
      BY <2>2 DEF UpsertFailureSignature, Stored, Rows
    <3>2. s \in Signature
      BY <1>1 DEF Failure, Signature
    <3> HIDE DEF s
    <3> QED BY <1>1, <3>1, <3>2, InsertGrows
  <2> QED BY <2>1, <2>2
<1> DEFINE r == [observer[h] EXCEPT !.phase = "read"]
<1>3. observer' = [observer EXCEPT ![h] = r] /\ observer'[h] = r
  BY DEF UpsertFailureSignature, Goto, AlertsInv, AlertsTypeOK
<1>4. r \in ObserverStates /\ Work(r, sigs)
  BY <1>1 DEF ObserverStates, Phase, Work, Ev
<1> HIDE DEF r
<1>5. Work(r, sigs')
  BY <1>1, <1>2, <1>4, WorkStays
<1>6. UNCHANGED <<active, acked>> /\ events' \in Nat /\ faults' \in Nat /\ panics' \in BOOLEAN
  BY DEF UpsertFailureSignature, AlertsInv, AlertsTypeOK
<1> QED BY <1>2, <1>3, <1>4, <1>5, <1>6, AlertsAside

(* The handler returns, with nothing but its own state changed. *)
LEMMA ReturnKeeps ==
    ASSUME AlertsInv, NEW h \in Observers, Done(h), UNCHANGED <<sigs, active, acked>>,
           events' \in Nat, faults' \in Nat, panics' \in BOOLEAN
    PROVE  AlertsInv' /\ Grows(sigs, sigs')
<1>1. sigs' = sigs /\ sigs \in Table /\ Grows(sigs, sigs)
  BY Here, SameGrows
<1>2. observer' = [observer EXCEPT ![h] = Idle] /\ observer'[h] = Idle
  BY DEF Done, AlertsInv, AlertsTypeOK
<1>3. Idle \in ObserverStates /\ Work(Idle, sigs)
  BY <1>1, IdleWorks
<1> QED BY <1>1, <1>2, <1>3, AlertsAside

LEMMA ReadKeeps ==
    ASSUME AlertsInv, NEW h \in Observers, NEW i \in Ids, ReadSignature(h, i)
    PROVE  AlertsInv' /\ Grows(sigs, sigs')
<1>1. /\ sigs \in Table /\ observer[h] \in ObserverStates /\ Work(observer[h], sigs)
      /\ observer[h].phase = "read" /\ Ev(h) \in Failure /\ Grows(sigs, sigs)
  BY Here, SameGrows DEF ReadSignature, At, Work, Ev
<1>2. UNCHANGED <<sigs, active, acked>> /\ events' \in Nat /\ faults' \in Nat /\ panics' \in BOOLEAN
  BY DEF ReadSignature, AlertsInv, AlertsTypeOK
<1>3. CASE sigs[i].count < 2
  BY <1>2, <1>3, ReturnKeeps DEF ReadSignature
<1>4. CASE ~ (sigs[i].count < 2)
  <2> DEFINE r == [observer[h] EXCEPT !.phase = "alert", !.ids = {i}]
  <2>1. observer' = [observer EXCEPT ![h].phase = "alert", ![h].ids = {i}]
    BY <1>4 DEF ReadSignature
  <2>2. observer' = [observer EXCEPT ![h] = r] /\ observer'[h] = r
    BY <2>1 DEF AlertsInv, AlertsTypeOK
  <2>3. observer[h].todo = {}
    BY <1>1, <1>2 DEF Work
  <2>4. /\ i \in Rows(sigs) /\ sigs[i].fp = observer[h].event.fp
        /\ sigs[i].count >= 2
    BY <1>1, <1>4, RowTypes DEF Ev, ReadSignature, OpenOf, Open, Stored, Rows
  <2>5. /\ r.phase = "alert" /\ r.ids = {i} /\ r.todo = {}
        /\ r.event = observer[h].event /\ r \in ObserverStates
    BY <1>1, <2>3 DEF ObserverStates, Phase
  <2> HIDE DEF r
  <2>6. Work(r, sigs)
    BY <1>1, <2>4, <2>5 DEF Work, Ev
  <2> QED BY <1>1, <1>2, <2>2, <2>5, <2>6, AlertsAside
<1> QED BY <1>3, <1>4

LEMMA PanicKeeps ==
    ASSUME AlertsInv, NEW h \in Observers, Panic(h)
    PROVE  AlertsInv' /\ Grows(sigs, sigs')
<1>1. sigs' = sigs /\ sigs \in Table /\ Grows(sigs, sigs)
  BY Here, SameGrows DEF Panic
<1>2. AlertsNameRepeats' /\ AcknowledgedIsResolved'
  BY <1>1, AlertsStay DEF Panic
<1>3. observer' \in [Observers -> ObserverStates] /\ Observing'
  BY <1>1, IdleWorks DEF Panic, Observing
<1> QED BY <1>1, <1>2, <1>3 DEF AlertsInv, AlertsTypeOK, Panic

LEMMA RaiseKeeps ==
    ASSUME AlertsInv, NEW h \in Observers, UpsertActiveAlert(h)
    PROVE  AlertsInv' /\ Grows(sigs, sigs')
<1>1. /\ sigs' = sigs /\ sigs \in Table /\ Grows(sigs, sigs)
      /\ observer[h] \in ObserverStates /\ Work(observer[h], sigs)
      /\ observer[h].phase = "alert" /\ Ev(h) \in Failure
  BY Here, SameGrows DEF UpsertActiveAlert, At, Work, Ev
<1>2. PICK i \in observer[h].ids : active' = [active EXCEPT ![Ev(h).fp] = i]
  BY DEF UpsertActiveAlert
<1>3. i \in Stored /\ sigs[i].fp = Ev(h).fp /\ sigs[i].count >= 2
  BY <1>1, <1>2 DEF Work, Ev, Rows, Stored
<1>4. Ev(h).fp \in Fingerprint /\ i \in Ids
  BY <1>1, <1>3 DEF Failure, Stored
<1>5. active' \in [Fingerprint -> Ids \cup {NoRow}]
  BY <1>2, <1>4 DEF AlertsInv, AlertsTypeOK
<1>6. active'[Ev(h).fp] = i
  BY <1>2, <1>4 DEF AlertsInv, AlertsTypeOK
<1>7. \A fp \in Fingerprint \ {Ev(h).fp} : active'[fp] = active[fp]
  BY <1>2 DEF AlertsInv, AlertsTypeOK
<1>8. acked' = acked /\ Stored' = Stored /\ Open' = Open
  BY DEF UpsertActiveAlert, Stored, Open
<1>9. AlertsNameRepeats'
  <2> SUFFICES ASSUME NEW fp \in Fingerprint, NEW j \in {active'[fp], acked'[fp]} \ {NoRow}
               PROVE  j \in Stored /\ sigs[j].fp = fp /\ sigs[j].count >= 2
    BY <1>1, <1>8 DEF AlertsNameRepeats
  <2>1. CASE fp = Ev(h).fp /\ j = i
    BY <1>3, <2>1
  <2>2. CASE ~ (fp = Ev(h).fp /\ j = i)
    <3>1. j \in {active[fp], acked[fp]} \ {NoRow}
      BY <1>6, <1>7, <1>8, <2>2
    <3> QED BY <3>1 DEF AlertsInv, AlertsNameRepeats
  <2> QED BY <2>1, <2>2
<1>10. AcknowledgedIsResolved'
  BY <1>8 DEF AlertsInv, AcknowledgedIsResolved
<1>11. observer' \in [Observers -> ObserverStates] /\ Observing'
  <2>1. observer' = [observer EXCEPT ![h] = Idle] /\ observer'[h] = Idle
    BY DEF UpsertActiveAlert, Done, AlertsInv, AlertsTypeOK
  <2>2. Idle \in ObserverStates /\ Work(Idle, sigs)
    BY <1>1, IdleWorks
  <2> QED BY <1>1, <2>1, <2>2, Moved
<1> QED BY <1>1, <1>5, <1>9, <1>10, <1>11 DEF AlertsInv, AlertsTypeOK, UpsertActiveAlert

LEMMA SelectKeeps ==
    ASSUME AlertsInv, NEW h \in Observers, SelectSignatures(h)
    PROVE  AlertsInv' /\ Grows(sigs, sigs')
<1>1. /\ sigs \in Table /\ observer[h] \in ObserverStates /\ Work(observer[h], sigs)
      /\ observer[h].phase = "select" /\ Ev(h) \in Success /\ Grows(sigs, sigs)
  BY Here, SameGrows DEF SelectSignatures, At, Work, Ev
<1>2. UNCHANGED <<sigs, active, acked>> /\ events' \in Nat /\ faults' \in Nat /\ panics' \in BOOLEAN
  BY DEF SelectSignatures, AlertsInv, AlertsTypeOK
<1> DEFINE rows == Selected(Ev(h).command)
           r == [phase |-> "resolve", event |-> Ev(h), ids |-> rows, todo |-> rows]
<1>3. CASE rows = {}
  BY <1>2, <1>3, ReturnKeeps DEF SelectSignatures
<1>4. CASE rows # {}
  <2>1. observer' = [observer EXCEPT ![h] = r] /\ observer'[h] = r
    BY <1>4 DEF SelectSignatures, AlertsInv, AlertsTypeOK, Ev
  <2>2. rows \subseteq Rows(sigs) /\ rows \subseteq Ids
    BY DEF Selected, Open, Stored, Rows
  <2> HIDE DEF rows
  <2>3. r \in ObserverStates /\ Work(r, sigs)
    BY <1>1, <2>2 DEF ObserverStates, Phase, Event, Work
  <2> HIDE DEF r
  <2> QED BY <1>1, <1>2, <2>1, <2>3, AlertsAside
<1> QED BY <1>3, <1>4

LEMMA ResolveOneKeeps ==
    ASSUME AlertsInv, NEW h \in Observers, NEW i \in Ids, ResolveOne(h, i)
    PROVE  AlertsInv' /\ Grows(sigs, sigs')
<1>1. /\ sigs \in Table /\ observer[h] \in ObserverStates /\ Work(observer[h], sigs)
      /\ observer[h].phase = "resolve" /\ Ev(h) \in Success
      /\ i \in observer[h].todo /\ i \in Rows(sigs) /\ Ev(h).ts \in Times
  BY Here DEF ResolveOne, At, Work, Ev, Success
<1>2. sigs' = [sigs EXCEPT ![i].resolved = Ev(h).ts]
  BY DEF ResolveOne
<1>3. sigs' \in Table /\ Grows(sigs, sigs') /\ i \notin OpenRows(sigs')
  BY <1>1, <1>2, ResolveGrows
<1> DEFINE rest == observer[h].todo \ {i}
           r == [observer[h] EXCEPT !.todo = rest,
                                   !.phase = IF rest = {} THEN "acknowledge" ELSE @]
<1>4. observer' = [observer EXCEPT ![h] = r] /\ observer'[h] = r
  BY DEF ResolveOne, AlertsInv, AlertsTypeOK
<1>5. /\ r.phase = IF rest = {} THEN "acknowledge" ELSE "resolve"
      /\ r.todo = rest /\ r.ids = observer[h].ids /\ r.event = observer[h].event
      /\ r \in ObserverStates
  BY <1>1 DEF ObserverStates, Phase
<1> HIDE DEF r
<1>6. OpenRows(sigs') \cap Rows(sigs) \subseteq OpenRows(sigs) \ {i}
  BY <1>3 DEF Grows
<1>7. r.ids \cap OpenRows(sigs') \subseteq rest
  BY <1>1, <1>5, <1>6 DEF Work
<1>8. r.ids \subseteq Rows(sigs')
  BY <1>1, <1>3, <1>5 DEF Work, Grows
<1>9. Work(r, sigs')
  BY <1>1, <1>5, <1>7, <1>8 DEF Work, Ev
<1>10. UNCHANGED <<active, acked>> /\ events' \in Nat /\ faults' \in Nat /\ panics' \in BOOLEAN
  BY DEF ResolveOne, AlertsInv, AlertsTypeOK
<1> QED BY <1>3, <1>4, <1>5, <1>9, <1>10, AlertsAside

LEMMA AcknowledgeKeeps ==
    ASSUME AlertsInv, NEW h \in Observers, AcknowledgeAlerts(h)
    PROVE  AlertsInv' /\ Grows(sigs, sigs')
<1>1. /\ sigs' = sigs /\ sigs \in Table /\ Grows(sigs, sigs)
      /\ Work(observer[h], sigs) /\ observer[h].phase = "acknowledge"
  BY Here, SameGrows DEF AcknowledgeAlerts, At
<1>2. events' \in Nat /\ faults' \in Nat /\ panics' \in BOOLEAN /\ Done(h)
  BY DEF AcknowledgeAlerts, AlertsInv, AlertsTypeOK
<1>3. CASE \E fp \in Named(h) : acked[fp] # NoRow
  BY <1>1, <1>2, <1>3, ReturnKeeps DEF AcknowledgeAlerts
<1>4. CASE ~ \E fp \in Named(h) : acked[fp] # NoRow
  <2>1. /\ acked' = [fp \in Fingerprint |-> IF fp \in Named(h) THEN active[fp] ELSE acked[fp]]
        /\ active' = [fp \in Fingerprint |-> IF fp \in Named(h) THEN NoRow ELSE active[fp]]
        /\ Stored' = Stored /\ Open' = Open
    BY <1>1, <1>4 DEF AcknowledgeAlerts, Stored, Open
  <2>2. \A fp \in Named(h) : active[fp] \notin Open
    BY <1>1 DEF Named, Work, OpenRows, Rows, Open, Stored
  <2>3. /\ active' \in [Fingerprint -> Ids \cup {NoRow}]
        /\ acked' \in [Fingerprint -> Ids \cup {NoRow}]
    BY <2>1 DEF AlertsInv, AlertsTypeOK
  <2>4. \A fp \in Fingerprint : {active'[fp], acked'[fp]} \ {NoRow}
                                    \subseteq {active[fp], acked[fp]} \ {NoRow}
    BY <2>1
  <2>5. AlertsNameRepeats'
    BY <1>1, <2>1, <2>4 DEF AlertsInv, AlertsNameRepeats
  <2>6. AcknowledgedIsResolved'
    BY <2>1, <2>2 DEF AlertsInv, AcknowledgedIsResolved
  <2>7. observer' \in [Observers -> ObserverStates] /\ Observing'
    <3>1. observer' = [observer EXCEPT ![h] = Idle] /\ observer'[h] = Idle
      BY <1>2 DEF Done, AlertsInv, AlertsTypeOK
    <3>2. Idle \in ObserverStates /\ Work(Idle, sigs)
      BY <1>1, IdleWorks
    <3> QED BY <1>1, <3>1, <3>2, Moved
  <2> QED BY <1>1, <1>2, <2>3, <2>5, <2>6, <2>7 DEF AlertsInv, AlertsTypeOK
<1> QED BY <1>3, <1>4

LEMMA StepKeeps == AlertsInv /\ AlertsNext => AlertsInv' /\ Grows(sigs, sigs')
<1> SUFFICES ASSUME AlertsInv, NEW h \in Observers, Step(h) PROVE AlertsInv' /\ Grows(sigs, sigs')
  BY DEF AlertsNext
<1>1. ASSUME NEW e \in Event, Receive(h, e) PROVE AlertsInv' /\ Grows(sigs, sigs')
  BY <1>1, ReceiveKeeps
<1>2. ASSUME NEW i \in Ids, UpsertFailureSignature(h, i) PROVE AlertsInv' /\ Grows(sigs, sigs')
  BY <1>2, UpsertKeeps
<1>3. ASSUME NEW i \in Ids, ReadSignature(h, i) PROVE AlertsInv' /\ Grows(sigs, sigs')
  BY <1>3, ReadKeeps
<1>4. CASE Panic(h)
  BY <1>4, PanicKeeps
<1>5. CASE UpsertActiveAlert(h)
  BY <1>5, RaiseKeeps
<1>6. CASE SelectSignatures(h)
  BY <1>6, SelectKeeps
<1>7. ASSUME NEW i \in Ids, ResolveOne(h, i) PROVE AlertsInv' /\ Grows(sigs, sigs')
  BY <1>7, ResolveOneKeeps
<1>8. ASSUME NEW i \in Ids, ResolveClash(h, i) PROVE AlertsInv' /\ Grows(sigs, sigs')
  BY <1>8, ReturnKeeps DEF ResolveClash, AlertsInv, AlertsTypeOK
<1>9. CASE AcknowledgeAlerts(h)
  BY <1>9, AcknowledgeKeeps
<1>10. CASE Fault(h)
  BY <1>10, ReturnKeeps DEF Fault, AlertsInv, AlertsTypeOK
<1> QED BY <1>1, <1>2, <1>3, <1>4, <1>5, <1>6, <1>7, <1>8, <1>9, <1>10 DEF Step

LEMMA StutterKeeps == AlertsInv /\ UNCHANGED alertVars => AlertsInv' /\ Grows(sigs, sigs')
<1> SUFFICES ASSUME AlertsInv, UNCHANGED alertVars PROVE AlertsInv' /\ Grows(sigs, sigs')
  OBVIOUS
<1>1. sigs \in Table
  BY DEF AlertsInv, AlertsTypeOK, Table
<1> QED BY <1>1, SameGrows
        DEF alertVars, AlertsInv, AlertsTypeOK, Observing, Work, AlertsNameRepeats, AcknowledgedIsResolved,
            Stored, Open, Rows, OpenRows

-----------------------------------------------------------------------------
(* The theorems. *)

(* The inductive invariant holds in every reachable state. *)
THEOREM AlertsInvCorrect == AlertsSpec => []AlertsInv
<1>1. AlertsInv /\ [AlertsNext]_alertVars => AlertsInv'
  BY StepKeeps, StutterKeeps
<1> QED BY AlertsInvInit, <1>1, PTL DEF AlertsSpec

(* Every variable keeps its type. *)
THEOREM AlertsTypeCorrect == AlertsSpec => []AlertsTypeOK
<1>1. AlertsInv => AlertsTypeOK
  BY DEF AlertsInv
<1> QED BY <1>1, AlertsInvCorrect, PTL

(* Alerts only ever name failures of their own fingerprint that repeated.  *)
THEOREM AlertsCorrect == AlertsSpec => []AlertsNameRepeats
<1>1. AlertsInv => AlertsNameRepeats
  BY DEF AlertsInv
<1> QED BY <1>1, AlertsInvCorrect, PTL

(* An acknowledgement never silences a failure that is not resolved, for   *)
(* any number of handlers and any interleaving of their statements.        *)
THEOREM AcknowledgedCorrect == AlertsSpec => []AcknowledgedIsResolved
<1>1. AlertsInv => AcknowledgedIsResolved
  BY DEF AlertsInv
<1> QED BY <1>1, AlertsInvCorrect, PTL

(* A resolved row never counts and never opens again. *)
THEOREM ClosedCorrect == AlertsSpec => ResolvedRowsClosed
<1> DEFINE Closed == \A i \in Stored \ Open : sigs'[i].count = sigs[i].count /\ i \notin Open'
<1>1. Grows(sigs, sigs') => Closed
  BY DEF Grows, Rows, OpenRows, Stored, Open
<1>2. AlertsInv /\ [AlertsNext]_alertVars => [Closed]_alertVars
  BY <1>1, StepKeeps, StutterKeeps
<1> HIDE DEF Closed
<1>3. AlertsSpec => [][Closed]_alertVars
  BY <1>2, AlertsInvCorrect, PTL DEF AlertsSpec
<1> QED BY <1>3 DEF ResolvedRowsClosed, Closed

-----------------------------------------------------------------------------
(***************************************************************************)
(* RetrievalQueue: its invariants, and that it implements                  *)
(* RetrievalPromise.                                                       *)
(***************************************************************************)

(* Only a working loop has a job, and it is within its batch. *)
LoopShape ==
    /\ loop.phase \in Working => loop.job \in Key /\ loop.done < BatchLimit
    /\ loop.phase \notin Working => loop.job = None

(* What is about to be closed as done has been stored. *)
FinishStored == LoopAt("finish") => cache[loop.job] # "none"

(* Prompts and failures never queue the same job, and a busy handler has   *)
(* the library of its failure.                                             *)
Triggers ==
    /\ \A k \in prompt : k.trigger = "prompt"
    /\ \A k \in signalled : k.trigger = "failure"
    /\ \A h \in Handlers : handler[h].phase # "idle" => handler[h].lib \in Libs

(* The inductive invariant. *)
IInv ==
    /\ TypeOK /\ LoopShape /\ RunningAccounted
    /\ FinishStored /\ DoneHasSummary
    /\ Triggers /\ WakeNotLost

-----------------------------------------------------------------------------
(* The questions of a failure are jobs, and those of a prompt are other    *)
(* jobs (EnqueueFailureRetrieval, planPrompt).                             *)
LEMMA FailureKeys ==
    ASSUME NEW lib \in Libs
    PROVE  /\ FailureDocsKey(lib) \in Key /\ FailureWebKey(lib) \in Key
           /\ FailureDocsKey(lib).trigger = "failure" /\ FailureDocsKey(lib).lib = lib
           /\ FailureWebKey(lib).trigger = "failure" /\ FailureWebKey(lib).lib = lib
  BY DEF FailureDocsKey, FailureWebKey, JobKey, Key

LEMMA PromptKeys ==
    ASSUME NEW p \in Prompt, NEW web \in BOOLEAN
    PROVE  PlanPrompt(p, web) \in SUBSET {k \in Key : k.trigger = "prompt"}
  <1> DEFINE prompts == {k \in Key : k.trigger = "prompt"}
             libs == p.libs \ {Context7}
             setup == IF p.setup /\ Context7 \in p.libs THEN {SetupKey} ELSE {}
             docs == {JobKey("context7", l, "prompt") : l \in libs}
             source == {JobKey("opensrc", l, "prompt") :
                           l \in IF p.source THEN libs \cap OpenLibs ELSE {}}
             search == {JobKey("web", l, "prompt") : l \in IF web THEN libs ELSE {}}
  <1>1. libs \subseteq Libs
    BY DEF Prompt
  <1>2. SetupKey \in prompts /\ PlainWebKey \in prompts
    BY DEF SetupKey, PlainWebKey, JobKey, Key
  <1>3. docs \subseteq prompts /\ search \subseteq prompts
    BY <1>1 DEF JobKey, Key
  <1>4. source \subseteq prompts
    BY <1>1 DEF JobKey, Key
  <1>5. PlanPrompt(p, web) \in {{}, {PlainWebKey}, setup \cup docs \cup source \cup search}
    BY DEF PlanPrompt
  <1> QED
    BY <1>2, <1>3, <1>4, <1>5

-----------------------------------------------------------------------------
(* Queueing keeps the jobs' type, and never touches a running job.         *)
LEMMA InsertKeeps ==
    ASSUME TypeOK, NEW k \in Key, InsertRetrievalJob(k)
    PROVE  /\ jobs' \in [Key -> Status]
           /\ \A l \in Key : jobs'[l] = "running" <=> jobs[l] = "running"
           /\ \A l \in Key : jobs'[l] = "done" => jobs[l] = "done"
           /\ \A l \in Key \ {k} : jobs'[l] = jobs[l]
  BY DEF TypeOK, LoopStates, InsertRetrievalJob, Status

(* The loop has ended its batch. *)
AtRest(cut) ==
    /\ loop' \in LoopStates
    /\ loop'.phase = "waiting" /\ loop'.done = 0 /\ loop'.job = None /\ loop'.cut = cut

LEMMA EndBatchRests == ASSUME NEW cut \in BOOLEAN, EndBatch(cut) PROVE AtRest(cut)
  BY RetrievalAssumption DEF EndBatch, AtRest, WaitingLoop, LoopStates

LEMMA InvInit == Init => IInv
  BY RetrievalAssumption
  DEF Init, IInv, TypeOK, LoopStates, LoopShape, RunningAccounted, FinishStored,
      DoneHasSummary, Triggers,
      WakeNotLost, IdleHandler, WaitingLoop, Status, Working, LoopAt, Held

(* Every step keeps the invariant. *)
LEMMA InvStep == IInv /\ [Next]_vars => IInv'
<1> SUFFICES ASSUME IInv, [Next]_vars PROVE IInv'
  OBVIOUS
<1> USE RetrievalAssumption
<1>0. /\ TypeOK /\ LoopShape /\ RunningAccounted /\ FinishStored
      /\ DoneHasSummary /\ Triggers /\ WakeNotLost
  BY DEF IInv
<1>1. ASSUME NEW p \in Prompt, NEW web \in BOOLEAN, PromptPlan(p, web)
       PROVE  IInv'
  <2>1. TypeOK'
    BY <1>0, <1>1, PromptKeys
    DEF PromptPlan, TypeOK, LoopStates, LoopAt, LoopTo, EndBatch, WaitingLoop, Working,
        Status, Request
  <2>2. Triggers'
    BY <1>0, <1>1, PromptKeys DEF PromptPlan, Triggers, TypeOK, LoopStates, Request
  <2>3. /\ LoopShape' /\ RunningAccounted' /\ FinishStored'
        /\ DoneHasSummary' /\ WakeNotLost'
    BY <1>0, <1>1
    DEF PromptPlan, LoopShape, TypeOK, LoopStates, LoopAt, LoopTo, EndBatch, WaitingLoop,
        Working, Request, RunningAccounted, Held, FinishStored, DoneHasSummary, WakeNotLost,
        Triggers, Queued
  <2> QED BY <2>1, <2>2, <2>3 DEF IInv
<1>2. ASSUME NEW k \in prompt, PromptInsert(k)
       PROVE  IInv'
  <2>1. TypeOK'
    BY <1>0, <1>2, InsertKeeps
    DEF PromptInsert, TypeOK, LoopStates, LoopAt, LoopTo, EndBatch, WaitingLoop, Working, Status
  <2>2. RunningAccounted'
    BY <1>0, <1>2, InsertKeeps
    DEF PromptInsert, RunningAccounted, TypeOK, LoopStates, LoopShape, LoopAt, LoopTo,
        EndBatch, WaitingLoop, Held, Working
  <2>3. DoneHasSummary'
    BY <1>0, <1>2, InsertKeeps
    DEF PromptInsert, DoneHasSummary, TypeOK, LoopStates, LoopShape, FinishStored, LoopAt,
        LoopTo, Working
  <2>4. WakeNotLost'
    BY <1>0, <1>2, InsertKeeps
    DEF PromptInsert, WakeNotLost, TypeOK, LoopStates, Triggers, LoopAt, LoopTo, EndBatch,
        WaitingLoop, Queued
  <2>5. LoopShape' /\ FinishStored' /\ Triggers'
    BY <1>0, <1>2
    DEF PromptInsert, LoopShape, TypeOK, LoopStates, LoopAt, LoopTo, EndBatch, WaitingLoop,
        Working, FinishStored, Triggers
  <2> QED BY <2>1, <2>2, <2>3, <2>4, <2>5 DEF IInv
<1>3. CASE PromptAbort
  BY <1>0, <1>3
  DEF IInv, PromptAbort, TypeOK, LoopStates, LoopAt, LoopTo, EndBatch, WaitingLoop, Working,
      Status, LoopShape, RunningAccounted, Held, FinishStored, DoneHasSummary, Triggers,
      WakeNotLost, Queued
<1>4. ASSUME NEW h \in Handlers, NEW lib \in Libs, FailureSeen(h, lib)
       PROVE  IInv'
  <2>1. TypeOK'
    BY <1>0, <1>4
    DEF FailureSeen, TypeOK, LoopStates, LoopAt, LoopTo, EndBatch, WaitingLoop, Working,
        Status, HandlerAt, Request
  <2>2. Triggers'
    BY <1>0, <1>4 DEF FailureSeen, Triggers, TypeOK, LoopStates, HandlerAt, Request
  <2>3. WakeNotLost'
    BY <1>0, <1>4
    DEF FailureSeen, WakeNotLost, TypeOK, LoopStates, Triggers, LoopAt, LoopTo, EndBatch,
        WaitingLoop, Queued, HandlerAt, Request
  <2>4. LoopShape' /\ RunningAccounted' /\ FinishStored' /\ DoneHasSummary'
    BY <1>0, <1>4
    DEF FailureSeen, LoopShape, TypeOK, LoopStates, LoopAt, LoopTo, EndBatch, WaitingLoop,
        Working, HandlerAt, Request, RunningAccounted, Held, FinishStored, DoneHasSummary
  <2> QED BY <2>1, <2>2, <2>3, <2>4 DEF IInv
<1>5. ASSUME NEW h \in Handlers, FailureDocs(h)
       PROVE  IInv'
  <2> DEFINE key == FailureDocsKey(handler[h].lib)
  <2>1. /\ handler[h].lib \in Libs /\ key \in Key
        /\ key.trigger = "failure" /\ key.lib = handler[h].lib
    BY <1>0, <1>5, FailureKeys DEF FailureDocs, HandlerAt, Triggers
  <2>2. CASE InsertRetrievalJob(key) /\ signalled' = signalled \cup {key}
             /\ HandlerTo(h, "check") /\ UNCHANGED used
    <3> HIDE DEF key
    <3>1. /\ jobs' \in [Key -> Status]
          /\ \A l \in Key : jobs'[l] = "running" <=> jobs[l] = "running"
          /\ \A l \in Key : jobs'[l] = "done" => jobs[l] = "done"
          /\ \A l \in Key \ {key} : jobs'[l] = jobs[l]
      BY <1>0, <2>1, <2>2, InsertKeeps
    <3>2. /\ handler'[h].phase = "check" /\ handler'[h].lib = handler[h].lib
          /\ \A g \in Handlers \ {h} : handler'[g] = handler[g]
      BY <1>0, <2>2 DEF HandlerTo, TypeOK, LoopStates
    <3>3. TypeOK'
      BY <1>0, <1>5, <2>1, <2>2, <3>1 DEF FailureDocs, HandlerTo, TypeOK, LoopStates
    <3>4. LoopShape' /\ FinishStored' /\ RunningAccounted' /\ DoneHasSummary'
      BY <1>0, <1>5, <3>1
      DEF FailureDocs, TypeOK, LoopStates, LoopShape, FinishStored, RunningAccounted,
          DoneHasSummary, LoopAt, Held, Working
    <3>5. Triggers'
      BY <1>0, <1>5, <2>1, <2>2, <3>2 DEF FailureDocs, Triggers
    <3>6. WakeNotLost'
      BY <1>0, <1>5, <2>1, <2>2, <3>1, <3>2
      DEF FailureDocs, HandlerAt, TypeOK, LoopStates, WakeNotLost, LoopAt, Queued
    <3> QED BY <3>3, <3>4, <3>5, <3>6 DEF IInv
  <2>3. CASE DatabaseFault /\ HandlerDone(h) /\ UNCHANGED <<jobs, signalled>>
    <3>1. TypeOK'
      BY <1>0, <1>5, <2>1, <2>3
      DEF FailureDocs, HandlerDone, IdleHandler, DatabaseFault, TypeOK, LoopStates
    <3>2. LoopShape' /\ FinishStored' /\ RunningAccounted' /\ DoneHasSummary'
      BY <1>0, <1>5, <2>3
      DEF FailureDocs, LoopShape, FinishStored, RunningAccounted, DoneHasSummary, LoopAt, Held
    <3>3. Triggers' /\ WakeNotLost'
      BY <1>0, <1>5, <2>1, <2>3
      DEF FailureDocs, HandlerAt, HandlerDone, IdleHandler, TypeOK, LoopStates, Triggers,
          WakeNotLost, LoopAt, Queued
    <3> QED BY <3>1, <3>2, <3>3 DEF IInv
  <2> QED BY <1>5, <2>2, <2>3 DEF FailureDocs
<1>6. ASSUME NEW h \in Handlers, NEW web \in BOOLEAN, FailureCheck(h, web)
       PROVE  IInv'
  <2>1. TypeOK'
    BY <1>0, <1>6
    DEF FailureCheck, TypeOK, LoopStates, LoopAt, LoopTo, EndBatch, WaitingLoop, Working,
        Status, HandlerAt, HandlerTo
  <2>2. Triggers'
    BY <1>0, <1>6 DEF FailureCheck, Triggers, TypeOK, LoopStates, HandlerAt, HandlerTo
  <2>3. WakeNotLost'
    BY <1>0, <1>6
    DEF FailureCheck, WakeNotLost, TypeOK, LoopStates, Triggers, LoopAt, LoopTo, EndBatch,
        WaitingLoop, Queued, HandlerAt, HandlerTo
  <2>4. LoopShape' /\ RunningAccounted' /\ FinishStored' /\ DoneHasSummary'
    BY <1>0, <1>6
    DEF FailureCheck, LoopShape, TypeOK, LoopStates, LoopAt, LoopTo, EndBatch, WaitingLoop,
        Working, HandlerAt, HandlerTo, RunningAccounted, Held, FinishStored, DoneHasSummary
  <2> QED BY <2>1, <2>2, <2>3, <2>4 DEF IInv
<1>7. ASSUME NEW h \in Handlers, FailureWeb(h)
       PROVE  IInv'
  <2> DEFINE key == FailureWebKey(handler[h].lib)
  <2>1. /\ handler[h].lib \in Libs /\ key \in Key
        /\ key.trigger = "failure" /\ key.lib = handler[h].lib
    BY <1>0, <1>7, FailureKeys DEF FailureWeb, HandlerAt, Triggers
  <2>2. CASE InsertRetrievalJob(key) /\ signalled' = signalled \cup {key}
             /\ HandlerTo(h, "wake") /\ UNCHANGED used
    <3> HIDE DEF key
    <3>1. /\ jobs' \in [Key -> Status]
          /\ \A l \in Key : jobs'[l] = "running" <=> jobs[l] = "running"
          /\ \A l \in Key : jobs'[l] = "done" => jobs[l] = "done"
          /\ \A l \in Key \ {key} : jobs'[l] = jobs[l]
      BY <1>0, <2>1, <2>2, InsertKeeps
    <3>2. /\ handler'[h].phase = "wake" /\ handler'[h].lib = handler[h].lib
          /\ \A g \in Handlers \ {h} : handler'[g] = handler[g]
      BY <1>0, <2>2 DEF HandlerTo, TypeOK, LoopStates
    <3>3. TypeOK'
      BY <1>0, <1>7, <2>1, <2>2, <3>1 DEF FailureWeb, HandlerTo, TypeOK, LoopStates
    <3>4. LoopShape' /\ FinishStored' /\ RunningAccounted' /\ DoneHasSummary'
      BY <1>0, <1>7, <3>1
      DEF FailureWeb, TypeOK, LoopStates, LoopShape, FinishStored, RunningAccounted,
          DoneHasSummary, LoopAt, Held, Working
    <3>5. Triggers'
      BY <1>0, <1>7, <2>1, <2>2, <3>2 DEF FailureWeb, Triggers
    <3>6. WakeNotLost'
      BY <1>0, <1>7, <2>1, <2>2, <3>1, <3>2
      DEF FailureWeb, HandlerAt, TypeOK, LoopStates, WakeNotLost, LoopAt, Queued
    <3> QED BY <3>3, <3>4, <3>5, <3>6 DEF IInv
  <2>3. CASE DatabaseFault /\ HandlerTo(h, "wake") /\ UNCHANGED <<jobs, signalled>>
    <3>1. TypeOK'
      BY <1>0, <1>7, <2>1, <2>3 DEF FailureWeb, HandlerTo, DatabaseFault, TypeOK, LoopStates
    <3>2. LoopShape' /\ FinishStored' /\ RunningAccounted' /\ DoneHasSummary'
      BY <1>0, <1>7, <2>3
      DEF FailureWeb, LoopShape, FinishStored, RunningAccounted, DoneHasSummary, LoopAt, Held
    <3>3. Triggers' /\ WakeNotLost'
      BY <1>0, <1>7, <2>1, <2>3
      DEF FailureWeb, HandlerAt, HandlerTo, TypeOK, LoopStates, Triggers, WakeNotLost, LoopAt,
          Queued
    <3> QED BY <3>1, <3>2, <3>3 DEF IInv
  <2> QED BY <1>7, <2>2, <2>3 DEF FailureWeb
<1>8. ASSUME NEW h \in Handlers, FailureWake(h)
       PROVE  IInv'
  <2>1. TypeOK'
    BY <1>0, <1>8
    DEF FailureWake, TypeOK, LoopStates, LoopAt, LoopTo, EndBatch, WaitingLoop, Working,
        Status, HandlerAt, HandlerDone, IdleHandler
  <2>2. Triggers'
    BY <1>0, <1>8
    DEF FailureWake, Triggers, TypeOK, LoopStates, HandlerAt, HandlerDone, IdleHandler
  <2>3. /\ LoopShape' /\ RunningAccounted' /\ FinishStored'
        /\ DoneHasSummary' /\ WakeNotLost'
    BY <1>0, <1>8
    DEF FailureWake, LoopShape, TypeOK, LoopStates, LoopAt, LoopTo, EndBatch, WaitingLoop,
        Working, HandlerAt, HandlerDone, IdleHandler, RunningAccounted, Held, FinishStored,
        DoneHasSummary, WakeNotLost, Triggers, Queued
  <2> QED BY <2>1, <2>2, <2>3 DEF IInv
<1>9. CASE LoopTick
  <2>1. TypeOK'
    BY <1>0, <1>9
    DEF LoopTick, TypeOK, LoopStates, LoopAt, LoopTo, EndBatch, WaitingLoop, Working, Status
  <2>2. /\ LoopShape' /\ RunningAccounted' /\ FinishStored'
        /\ DoneHasSummary' /\ Triggers' /\ WakeNotLost'
    BY <1>0, <1>9
    DEF LoopTick, LoopShape, TypeOK, LoopStates, LoopAt, LoopTo, EndBatch, WaitingLoop,
        Working, RunningAccounted, Held, FinishStored, DoneHasSummary, Triggers, WakeNotLost,
        Queued
  <2> QED BY <2>1, <2>2 DEF IInv
<1>10. CASE LoopWake
  <2>1. TypeOK'
    BY <1>0, <1>10
    DEF LoopWake, TypeOK, LoopStates, LoopAt, LoopTo, EndBatch, WaitingLoop, Working, Status
  <2>2. /\ LoopShape' /\ RunningAccounted' /\ FinishStored'
        /\ DoneHasSummary' /\ Triggers' /\ WakeNotLost'
    BY <1>0, <1>10
    DEF LoopWake, LoopShape, TypeOK, LoopStates, LoopAt, LoopTo, EndBatch, WaitingLoop,
        Working, RunningAccounted, Held, FinishStored, DoneHasSummary, Triggers, WakeNotLost,
        Queued
  <2> QED BY <2>1, <2>2 DEF IInv
<1>11. ASSUME NEW k \in Key, Claim(k)
       PROVE  IInv'
  <2>1. TypeOK'
    BY <1>0, <1>11, NoneAssumption
    DEF Claim, TypeOK, LoopStates, LoopAt, LoopTo, EndBatch, WaitingLoop, Working, Status,
        Queued
  <2>2. LoopShape'
    BY <1>0, <1>11, NoneAssumption
    DEF Claim, LoopShape, TypeOK, LoopStates, LoopAt, LoopTo, EndBatch, WaitingLoop, Working,
        Queued
  <2>3. RunningAccounted'
    BY <1>0, <1>11, NoneAssumption
    DEF Claim, RunningAccounted, TypeOK, LoopStates, LoopShape, LoopAt, LoopTo, EndBatch,
        WaitingLoop, Held, Working, Queued
  <2>4. DoneHasSummary'
    BY <1>0, <1>11, NoneAssumption
    DEF Claim, DoneHasSummary, TypeOK, LoopStates, LoopShape, FinishStored, LoopAt, LoopTo,
        Working, Queued
  <2>5. FinishStored' /\ Triggers' /\ WakeNotLost'
    BY <1>0, <1>11
    DEF Claim, FinishStored, TypeOK, LoopStates, LoopShape, LoopAt, LoopTo, EndBatch,
        WaitingLoop, Working, Queued, Triggers, WakeNotLost
  <2> QED BY <2>1, <2>2, <2>3, <2>4, <2>5 DEF IInv
<1>12. CASE BatchEmpty
  <2>1. AtRest(FALSE)
    BY <1>12, EndBatchRests DEF BatchEmpty
  <2>2. TypeOK'
    BY <1>0, <1>12, <2>1 DEF AtRest, BatchEmpty, TypeOK, LoopStates
  <2>3. LoopShape' /\ FinishStored'
    BY <1>0, <1>12, <2>1 DEF AtRest, LoopShape, FinishStored, LoopAt, Working
  <2>4. RunningAccounted' /\ DoneHasSummary'
    BY <1>0, <1>12, <2>1
    DEF AtRest, BatchEmpty, TypeOK, LoopStates, LoopShape, RunningAccounted, DoneHasSummary,
        LoopAt, Held, Working
  <2>5. Triggers' /\ WakeNotLost'
    BY <1>0, <1>12, <2>1
    DEF AtRest, BatchEmpty, TypeOK, LoopStates, Triggers, WakeNotLost, LoopAt, Queued
  <2> QED BY <2>2, <2>3, <2>4, <2>5 DEF IInv
<1>13. CASE BatchFull
  <2>1. AtRest(TRUE)
    BY <1>13, EndBatchRests DEF BatchFull
  <2>2. TypeOK'
    BY <1>0, <1>13, <2>1 DEF AtRest, BatchFull, TypeOK, LoopStates
  <2>3. LoopShape' /\ FinishStored'
    BY <1>0, <1>13, <2>1 DEF AtRest, LoopShape, FinishStored, LoopAt, Working
  <2>4. RunningAccounted' /\ DoneHasSummary'
    BY <1>0, <1>13, <2>1
    DEF AtRest, BatchFull, TypeOK, LoopStates, LoopShape, RunningAccounted, DoneHasSummary,
        LoopAt, Held, Working
  <2>5. Triggers' /\ WakeNotLost'
    BY <1>0, <1>13, <2>1
    DEF AtRest, BatchFull, TypeOK, LoopStates, Triggers, WakeNotLost, LoopAt, Queued
  <2> QED BY <2>2, <2>3, <2>4, <2>5 DEF IInv
<1>14. CASE ClaimFault
  <2>1. AtRest(TRUE)
    BY <1>14, EndBatchRests DEF ClaimFault
  <2>2. TypeOK'
    BY <1>0, <1>14, <2>1 DEF AtRest, ClaimFault, DatabaseFault, TypeOK, LoopStates
  <2>3. LoopShape' /\ FinishStored'
    BY <1>0, <1>14, <2>1 DEF AtRest, LoopShape, FinishStored, LoopAt, Working
  <2>4. RunningAccounted' /\ DoneHasSummary'
    BY <1>0, <1>14, <2>1
    DEF AtRest, ClaimFault, DatabaseFault, TypeOK, LoopStates, LoopShape, RunningAccounted,
        DoneHasSummary, LoopAt, Held, Working
  <2>5. Triggers' /\ WakeNotLost'
    BY <1>0, <1>14, <2>1
    DEF AtRest, ClaimFault, DatabaseFault, TypeOK, LoopStates, Triggers, WakeNotLost, LoopAt,
        Queued
  <2> QED BY <2>2, <2>3, <2>4, <2>5 DEF IInv
<1>15. ASSUME NEW ok \in BOOLEAN, Fetch(ok)
       PROVE  IInv'
  <2>1. TypeOK'
    BY <1>0, <1>15
    DEF Fetch, TypeOK, LoopStates, LoopAt, LoopTo, EndBatch, WaitingLoop, Working, Status
  <2>2. RunningAccounted'
    BY <1>0, <1>15
    DEF Fetch, RunningAccounted, TypeOK, LoopStates, LoopShape, LoopAt, LoopTo, EndBatch,
        WaitingLoop, Held, Working
  <2>3. /\ LoopShape' /\ FinishStored' /\ DoneHasSummary'
        /\ Triggers' /\ WakeNotLost'
    BY <1>0, <1>15
    DEF Fetch, LoopShape, TypeOK, LoopStates, LoopAt, LoopTo, EndBatch, WaitingLoop, Working,
        FinishStored, DoneHasSummary, Triggers, WakeNotLost, Queued
  <2> QED BY <2>1, <2>2, <2>3 DEF IInv
<1>16. CASE Store
  <2>1. TypeOK'
    BY <1>0, <1>16
    DEF Store, TypeOK, LoopStates, LoopAt, LoopTo, EndBatch, WaitingLoop, Working, Status,
        DatabaseFault
  <2>2. RunningAccounted'
    BY <1>0, <1>16
    DEF Store, RunningAccounted, TypeOK, LoopStates, LoopShape, LoopAt, LoopTo, EndBatch,
        WaitingLoop, Held, Working, DatabaseFault
  <2>3. FinishStored'
    BY <1>0, <1>16
    DEF Store, FinishStored, TypeOK, LoopStates, LoopShape, LoopAt, LoopTo, EndBatch,
        WaitingLoop, Working, DatabaseFault
  <2>4. DoneHasSummary'
    BY <1>0, <1>16
    DEF Store, DoneHasSummary, TypeOK, LoopStates, LoopShape, FinishStored, LoopAt, LoopTo,
        Working, DatabaseFault
  <2>5. LoopShape' /\ Triggers' /\ WakeNotLost'
    BY <1>0, <1>16
    DEF Store, LoopShape, TypeOK, LoopStates, LoopAt, LoopTo, EndBatch, WaitingLoop, Working,
        DatabaseFault, Triggers, WakeNotLost, Queued
  <2> QED BY <2>1, <2>2, <2>3, <2>4, <2>5 DEF IInv
<1>17. CASE Fail
  <2>1. AtRest(TRUE) /\ loop.job \in Key
    BY <1>0, <1>17, EndBatchRests DEF Fail, LoopShape, LoopAt, Working
  <2>2. TypeOK'
    BY <1>0, <1>17, <2>1 DEF AtRest, Fail, DatabaseFault, TypeOK, LoopStates, Status
  <2>3. LoopShape' /\ FinishStored'
    BY <1>0, <1>17, <2>1 DEF AtRest, LoopShape, FinishStored, LoopAt, Working
  <2>4. RunningAccounted' /\ DoneHasSummary'
    BY <1>0, <1>17, <2>1
    DEF AtRest, Fail, TypeOK, LoopStates, LoopShape, RunningAccounted, DoneHasSummary, LoopAt,
        Held, Working
  <2>5. Triggers' /\ WakeNotLost'
    BY <1>0, <1>17, <2>1
    DEF AtRest, Fail, TypeOK, LoopStates, Triggers, WakeNotLost, LoopAt, Queued
  <2> QED BY <2>2, <2>3, <2>4, <2>5 DEF IInv
<1>18. CASE Finish
  <2>1. loop.job \in Key /\ loop.done < BatchLimit /\ cache[loop.job] # "none"
    BY <1>0, <1>18 DEF Finish, LoopShape, FinishStored, LoopAt, Working
  <2>2. CASE /\ jobs' = [jobs EXCEPT ![loop.job] = "done"]
             /\ loop' = [loop EXCEPT !.phase = "batch", !.done = @ + 1, !.job = None]
             /\ UNCHANGED <<used, orphans>>
    <3>1. /\ loop'.phase = "batch" /\ loop'.done = loop.done + 1
          /\ loop'.job = None /\ loop'.cut = loop.cut
      BY <1>0, <2>2 DEF TypeOK, LoopStates
    <3>2. TypeOK'
      <4>1. loop.done + 1 \in 0..BatchLimit
        BY <1>0, <2>1 DEF TypeOK, LoopStates
      <4> QED BY <1>0, <1>18, <2>1, <2>2, <4>1 DEF Finish, TypeOK, LoopStates, Status
    <3>3. LoopShape' /\ FinishStored'
      BY <3>1 DEF LoopShape, FinishStored, LoopAt, Working
    <3>4. RunningAccounted' /\ DoneHasSummary'
      BY <1>0, <1>18, <2>1, <2>2, <3>1
      DEF Finish, TypeOK, LoopStates, RunningAccounted, DoneHasSummary, LoopAt, Held, Working
    <3>5. Triggers' /\ WakeNotLost'
      BY <1>0, <1>18, <3>1 DEF Finish, TypeOK, LoopStates, Triggers, WakeNotLost, LoopAt
    <3> QED BY <3>2, <3>3, <3>4, <3>5 DEF IInv
  <2>3. CASE /\ DatabaseFault /\ EndBatch(TRUE)
             /\ orphans' = orphans \cup {loop.job} /\ UNCHANGED jobs
    <3>1. AtRest(TRUE)
      BY <2>3, EndBatchRests
    <3>2. TypeOK'
      BY <1>0, <1>18, <2>1, <2>3, <3>1 DEF AtRest, Finish, DatabaseFault, TypeOK, LoopStates
    <3>3. LoopShape' /\ FinishStored'
      BY <3>1 DEF AtRest, LoopShape, FinishStored, LoopAt, Working
    <3>4. RunningAccounted' /\ DoneHasSummary'
      BY <1>0, <1>18, <2>1, <2>3, <3>1
      DEF AtRest, Finish, TypeOK, LoopStates, RunningAccounted, DoneHasSummary, LoopAt, Held,
          Working
    <3>5. Triggers' /\ WakeNotLost'
      BY <1>0, <1>18, <3>1 DEF AtRest, Finish, TypeOK, LoopStates, Triggers, WakeNotLost, LoopAt
    <3> QED BY <3>2, <3>3, <3>4, <3>5 DEF IInv
  <2> QED BY <1>18, <2>2, <2>3 DEF Finish
<1>19. CASE DaemonEnds
  <2>1. /\ loop' \in LoopStates
        /\ loop'.phase = "down" /\ loop'.done = 0 /\ loop'.job = None
    <3>1. loop' = [phase |-> "down", done |-> 0, job |-> None, cut |-> FALSE]
      BY <1>19 DEF DaemonEnds, WaitingLoop
    <3> QED BY <3>1 DEF LoopStates
  <2>2. TypeOK'
    BY <1>0, <1>19, <2>1
    DEF DaemonEnds, TypeOK, LoopShape, LoopStates, Held, IdleHandler, Working
  <2>3. LoopShape' /\ FinishStored'
    BY <2>1 DEF LoopShape, FinishStored, LoopAt, Working
  <2>4. RunningAccounted' /\ DoneHasSummary'
    BY <1>0, <1>19, <2>1
    DEF DaemonEnds, TypeOK, LoopStates, RunningAccounted, DoneHasSummary, Held, Working
  <2>5. Triggers' /\ WakeNotLost'
    BY <1>0, <1>19, <2>1 DEF DaemonEnds, Triggers, WakeNotLost, LoopAt, IdleHandler
  <2> QED BY <2>2, <2>3, <2>4, <2>5 DEF IInv
<1>20. CASE DaemonStarts
  <2>1. TypeOK'
    BY <1>0, <1>20
    DEF DaemonStarts, TypeOK, LoopStates, LoopAt, LoopTo, EndBatch, WaitingLoop, Working, Status
  <2>2. /\ LoopShape' /\ RunningAccounted' /\ FinishStored'
        /\ DoneHasSummary' /\ Triggers' /\ WakeNotLost'
    BY <1>0, <1>20
    DEF DaemonStarts, LoopShape, TypeOK, LoopStates, LoopAt, LoopTo, EndBatch, WaitingLoop,
        Working, RunningAccounted, Held, FinishStored, DoneHasSummary, Triggers, WakeNotLost,
        Queued
  <2> QED BY <2>1, <2>2 DEF IInv
<1>21. ASSUME NEW k \in Key, SummaryExpires(k)
       PROVE  IInv'
  <2>1. TypeOK'
    BY <1>0, <1>21
    DEF SummaryExpires, TypeOK, LoopStates, LoopAt, LoopTo, EndBatch, WaitingLoop, Working,
        Status
  <2>2. FinishStored'
    BY <1>0, <1>21
    DEF SummaryExpires, FinishStored, TypeOK, LoopStates, LoopShape, LoopAt, LoopTo, EndBatch,
        WaitingLoop, Working
  <2>3. DoneHasSummary'
    BY <1>0, <1>21
    DEF SummaryExpires, DoneHasSummary, TypeOK, LoopStates, LoopShape, FinishStored, LoopAt,
        LoopTo, Working
  <2>4. LoopShape' /\ RunningAccounted' /\ Triggers' /\ WakeNotLost'
    BY <1>0, <1>21
    DEF SummaryExpires, LoopShape, TypeOK, LoopStates, LoopAt, LoopTo, EndBatch, WaitingLoop,
        Working, RunningAccounted, Held, Triggers, WakeNotLost, Queued
  <2> QED BY <2>1, <2>2, <2>3, <2>4 DEF IInv
<1>22. CASE UNCHANGED vars
  BY <1>0, <1>22
  DEF vars, IInv, TypeOK, LoopStates, LoopShape, RunningAccounted, FinishStored,
      DoneHasSummary, Triggers, WakeNotLost, LoopAt, Held, Queued
<1> QED
  BY <1>1, <1>2, <1>3, <1>4, <1>5, <1>6, <1>7, <1>8, <1>9, <1>10, <1>11, <1>12, <1>13, <1>14,
      <1>15, <1>16, <1>17, <1>18, <1>19, <1>20, <1>21, <1>22
  DEF Next, LoopStep, HandlerStep, PromptStep

THEOREM IInvCorrect == Spec => []IInv
  BY InvInit, InvStep, PTL DEF Spec

(* Every variable keeps its type. *)
THEOREM TypeCorrect == Spec => []TypeOK
  BY IInvCorrect, PTL DEF IInv

(* NextQueuedRetrievalJob and UpdateRetrievalJobStatus: a running job is   *)
(* the worker's, or one whose worker ended or failed to write the outcome. *)
THEOREM RunningCorrect == Spec => []RunningAccounted
  BY IInvCorrect, PTL DEF IInv

(* RunOnce: a job is done only when its summary was stored. *)
THEOREM DoneCorrect == Spec => []DoneHasSummary
  BY IInvCorrect, PTL DEF IInv

(* RequestImmediateWake and retrievalLoop: no job of a failure waits for   *)
(* the ticker because its wake-up was dropped.                             *)
THEOREM WakeCorrect == Spec => []WakeNotLost
  BY IInvCorrect, PTL DEF IInv

-----------------------------------------------------------------------------
(* RetrievalQueue implements RetrievalPromise. *)

LEMMA PromiseInit == Init => Promise!Init
  BY DEF Init, Promise!Init, WaitingLoop, Working

(* A request is an Ask of the abstract queue. *)
LEMMA InsertAsks ==
    ASSUME NEW k \in Key, InsertRetrievalJob(k), UNCHANGED <<cache, loop>>
    PROVE  Promise!Ask(k)
  BY DEF InsertRetrievalJob, Promise!Ask

LEMMA PromiseStep == IInv /\ [Next]_vars => [Promise!Next]_(Promise!promised)
<1> SUFFICES ASSUME IInv, [Next]_vars PROVE Promise!Next \/ UNCHANGED Promise!promised
  OBVIOUS
<1> DEFINE heldJob == IF loop.phase \in Working THEN loop.job ELSE None
           answeredJobs == {k \in Key : cache[k] # "none"}
<1> USE NoneAssumption
<1>0. TypeOK /\ LoopShape /\ FinishStored
  BY DEF IInv
<1>1. ASSUME UNCHANGED <<jobs, cache, heldJob>> PROVE UNCHANGED Promise!promised
  BY <1>1 DEF Promise!promised
<1>2. ASSUME NEW k \in prompt, PromptInsert(k) PROVE Promise!Next
  BY <1>0, <1>2, InsertAsks DEF TypeOK, PromptInsert, Promise!Next
<1>3. ASSUME NEW h \in Handlers, FailureDocs(h) \/ FailureWeb(h)
      PROVE  Promise!Next \/ UNCHANGED Promise!promised
  <2>1. handler[h].lib \in Libs
    BY <1>3 DEF FailureDocs, FailureWeb, HandlerAt, IInv, Triggers
  <2>2. \/ \E k \in Key : InsertRetrievalJob(k) /\ UNCHANGED <<cache, loop>>
        \/ UNCHANGED <<jobs, cache, loop>>
    BY <1>3, <2>1, FailureKeys DEF FailureDocs, FailureWeb
  <2> QED BY <2>2, <1>1, InsertAsks DEF Promise!Next
<1>4. ASSUME NEW k \in Key, Claim(k) PROVE Promise!Next
  <2>1. Promise!Take(k)
    BY <1>0, <1>4
    DEF Claim, Promise!Take, LoopAt, LoopShape, Queued, TypeOK, LoopStates, Working
  <2> QED BY <2>1 DEF Promise!Next
<1>5. CASE Store
  <2>1. heldJob = loop.job /\ heldJob' = loop.job /\ loop.job \in Key
    BY <1>0, <1>5 DEF Store, LoopAt, LoopTo, LoopShape, TypeOK, LoopStates, Working
  <2>2. CASE cache' = [cache EXCEPT ![loop.job] = "fresh"]
    <3>1. Promise!Learn
      BY <1>0, <1>5, <2>1, <2>2 DEF Store, Promise!Learn, TypeOK
    <3> QED BY <3>1 DEF Promise!Next
  <2>3. CASE UNCHANGED cache
    BY <1>1, <1>5, <2>1, <2>3 DEF Store
  <2> QED BY <1>5, <2>2, <2>3 DEF Store
<1>6. CASE Fail \/ Finish
  <2>1. heldJob = loop.job /\ heldJob' = None /\ loop.job \in Key
    BY <1>0, <1>6
    DEF Fail, Finish, LoopAt, EndBatch, WaitingLoop, LoopShape, TypeOK, LoopStates, Working
  <2>2. Finish => cache[loop.job] # "none"
    BY <1>0 DEF Finish, FinishStored
  <2>3. CASE jobs' = [jobs EXCEPT ![loop.job] = "failed"] /\ Fail
    <3>1. Promise!Close("failed")
      BY <1>0, <2>1, <2>3 DEF Fail, Promise!Close, TypeOK
    <3> QED BY <3>1 DEF Promise!Next
  <2>4. CASE jobs' = [jobs EXCEPT ![loop.job] = "done"] /\ Finish
    <3>1. Promise!Close("done")
      BY <1>0, <2>1, <2>2, <2>4 DEF Finish, Promise!Close, TypeOK
    <3> QED BY <3>1 DEF Promise!Next
  <2>5. CASE UNCHANGED jobs
    <3>1. Promise!Abandon
      BY <1>6, <2>1, <2>5 DEF Fail, Finish, Promise!Abandon
    <3> QED BY <3>1 DEF Promise!Next
  <2> QED BY <1>6, <2>3, <2>4, <2>5 DEF Fail, Finish
<1>7. CASE DaemonEnds
  <2>1. heldJob' = None /\ (heldJob = None \/ heldJob \in Key)
    BY <1>0, <1>7 DEF DaemonEnds, WaitingLoop, LoopShape, Working
  <2>2. heldJob # None => Promise!Abandon
    BY <1>7, <2>1 DEF DaemonEnds, Promise!Abandon
  <2>3. heldJob = None => UNCHANGED Promise!promised
    BY <1>1, <1>7, <2>1 DEF DaemonEnds
  <2> QED BY <2>2, <2>3 DEF Promise!Next
<1>8. ASSUME NEW k \in Key, SummaryExpires(k) PROVE UNCHANGED Promise!promised
  <2>1. answeredJobs' = answeredJobs
    BY <1>0, <1>8 DEF SummaryExpires, TypeOK
  <2> QED BY <1>8, <2>1 DEF SummaryExpires, Promise!promised
<1>9. ASSUME \/ LoopTick \/ LoopWake \/ BatchEmpty \/ BatchFull \/ ClaimFault \/ DaemonStarts
             \/ \E ok \in BOOLEAN : Fetch(ok)
      PROVE  UNCHANGED Promise!promised
  <2>1. UNCHANGED <<jobs, cache>>
    BY <1>9 DEF LoopTick, LoopWake, BatchEmpty, BatchFull, ClaimFault, DaemonStarts, Fetch
  <2>2. UNCHANGED heldJob
    <3>1. CASE LoopTick \/ LoopWake \/ DaemonStarts
      BY <1>0, <3>1
      DEF LoopTick, LoopWake, DaemonStarts, LoopAt, LoopTo, TypeOK, LoopStates, Working
    <3>2. CASE BatchEmpty \/ BatchFull \/ ClaimFault
      BY <1>0, <3>2
      DEF BatchEmpty, BatchFull, ClaimFault, LoopAt, EndBatch, WaitingLoop, Working
    <3>3. CASE \E ok \in BOOLEAN : Fetch(ok)
      BY <1>0, <3>3 DEF Fetch, LoopAt, LoopTo, TypeOK, LoopStates, Working
    <3> QED BY <1>9, <3>1, <3>2, <3>3
  <2> QED BY <1>1, <2>1, <2>2
<1>10. ASSUME \/ \E p \in Prompt, web \in BOOLEAN : PromptPlan(p, web)
              \/ PromptAbort
              \/ \E h \in Handlers : \/ \E lib \in Libs : FailureSeen(h, lib)
                                     \/ \E web \in BOOLEAN : FailureCheck(h, web)
                                     \/ FailureWake(h)
              \/ UNCHANGED vars
       PROVE  UNCHANGED Promise!promised
  <2>1. UNCHANGED <<jobs, cache, loop>>
    BY <1>10 DEF PromptPlan, PromptAbort, FailureSeen, FailureCheck, FailureWake, vars
  <2> QED BY <1>1, <2>1
<1> QED
  BY <1>2, <1>3, <1>4, <1>5, <1>6, <1>7, <1>8, <1>9, <1>10
  DEF Next, LoopStep, HandlerStep, PromptStep

(* The queue keeps what RetrievalPromise says of it: one job per question, *)
(* one worked on at a time and the most important first, requests that     *)
(* leave the worker's job alone, and done only with a stored answer.       *)
THEOREM PromiseKept == Spec => KeepsPromise
<1>1. Init /\ [][Next]_vars /\ []IInv => Promise!Spec
  BY PromiseInit, PromiseStep, PTL DEF Promise!Spec
<1> QED BY <1>1, IInvCorrect, PTL DEF Spec, KeepsPromise
=============================================================================
