---------------------------- MODULE FailureAlerts ----------------------------
(***************************************************************************)
(* Repeated failures: the daemon handles every PostToolUse event in a      *)
(* goroutine of its own.  A failure adds to the row of its fingerprint in  *)
(* failure_signatures and from the second time on raises an alert; a       *)
(* success of the same command resolves the rows and acknowledges their    *)
(* alerts (internal/detect/failures.go, internal/db/alerts.go).            *)
(*                                                                         *)
(* Every SQL statement is one step, and the handlers interleave between    *)
(* them.  One session of one project and one tool are modelled: every      *)
(* statement is restricted to one.  A fingerprint is a command family with *)
(* a normalised message.                                                   *)
(***************************************************************************)
EXTENDS Naturals, FiniteSets

CONSTANTS
    Commands,   \* families of commands
    AnyCommand, \* a success whose command is unknown
    Messages,   \* normalised messages
    Times,      \* the seconds that events carry
    Observers,  \* goroutines of the daemon
    Ids,        \* primary keys that inserted rows draw from (a bound)
    NoRow,      \* no row
    MaxEvents,  \* bound: events
    MaxErrors   \* bound: database errors

Unresolved == 0

Fingerprint == Commands \X Messages

Failure == [kind : {"failure"}, fp : Fingerprint]
Success == [kind : {"success"}, command : Commands \cup {AnyCommand}, ts : Times]
Event == Failure \cup Success

Signature == [fp : Fingerprint, count : Nat, resolved : Times \cup {Unresolved}]

ASSUME FailureAssumption ==
    /\ Times \subseteq Nat \ {Unresolved}
    /\ NoRow \notin Ids /\ NoRow \notin Signature
    /\ MaxEvents \in Nat /\ MaxErrors \in Nat

VARIABLES
    sigs,       \* failure_signatures by id
    active,     \* alerts with acknowledged = 0: the source_ref by fingerprint
    acked,      \* alerts with acknowledged = 1
    observer,   \* the handlers: their phase, event, ids, and ids still to do
    events,     \* events handled so far
    faults,     \* database errors so far
    panics      \* history: whether a handler brought the daemon down

alertVars == <<sigs, active, acked, observer, events, faults, panics>>

Stored == {i \in Ids : sigs[i] # NoRow}
Open == {i \in Stored : sigs[i].resolved = Unresolved}
OpenOf(fp) == {i \in Open : sigs[i].fp = fp}

(* The rows that ResolveFailureSignatures selects. *)
Selected(command) == {i \in Open : command = AnyCommand \/ sigs[i].fp[1] = command}

Idle == [phase |-> "idle", event |-> NoRow, ids |-> {}, todo |-> {}]

AlertsInit ==
    /\ sigs = [i \in Ids |-> NoRow]
    /\ active = [fp \in Fingerprint |-> NoRow]
    /\ acked = [fp \in Fingerprint |-> NoRow]
    /\ observer = [h \in Observers |-> Idle]
    /\ events = 0 /\ faults = 0 /\ panics = FALSE

-----------------------------------------------------------------------------

At(h, phase) == observer[h].phase = phase
Goto(h, phase) == observer' = [observer EXCEPT ![h].phase = phase]
Done(h) == observer' = [observer EXCEPT ![h] = Idle]
Ev(h) == observer[h].event

(* A statement fails, and the handler returns its error. *)
Fault(h) ==
    /\ observer[h].phase # "idle" /\ faults < MaxErrors
    /\ faults' = faults + 1
    /\ Done(h)
    /\ UNCHANGED <<sigs, active, acked, events, panics>>

(* handleConn: an event that observeFailure or observeSuccess recognises. *)
Receive(h, e) ==
    /\ At(h, "idle") /\ events < MaxEvents
    /\ events' = events + 1
    /\ observer' = [observer EXCEPT ![h] =
           [phase |-> IF e.kind = "failure" THEN "count" ELSE "select",
            event |-> e, ids |-> {}, todo |-> {}]]
    /\ UNCHANGED <<sigs, active, acked, faults, panics>>

(* Mutation: resolved_ts is NULL instead of the empty string. *)
UpsertFailureSignatureNull(h, i) ==
    LET fp == Ev(h).fp
    IN  /\ At(h, "count")
        /\ IF OpenOf(fp) # {}
           THEN i \in OpenOf(fp) /\ sigs' = [sigs EXCEPT ![i].count = @ + 1]
           ELSE /\ i \notin Stored
                /\ sigs' = [sigs EXCEPT ![i] = [fp |-> fp, count |-> 1, resolved |-> NoRow]]
        /\ Goto(h, "read")
        /\ UNCHANGED <<active, acked, events, faults, panics>>

(* UpsertFailureSignature: the row that is UNIQUE over (fingerprint,       *)
(* resolved_ts = '') counts one more, or a new one is inserted.            *)
UpsertFailureSignature(h, i) ==
    LET fp == Ev(h).fp
    IN  /\ At(h, "count")
        /\ IF OpenOf(fp) # {}
           THEN i \in OpenOf(fp) /\ sigs' = [sigs EXCEPT ![i].count = @ + 1]
           ELSE /\ i \notin Stored
                /\ sigs' = [sigs EXCEPT ![i] =
                                [fp |-> fp, count |-> 1, resolved |-> Unresolved]]
        /\ Goto(h, "read")
        /\ UNCHANGED <<active, acked, events, faults, panics>>

(* Mutation: every failure raises an alert. *)
ReadSignatureAlerts(h, i) ==
    /\ At(h, "read") /\ i \in OpenOf(Ev(h).fp)
    /\ observer' = [observer EXCEPT ![h].phase = "alert", ![h].ids = {i}]
    /\ UNCHANGED <<sigs, active, acked, events, faults, panics>>

(* getActiveFailureSignature, a statement of its own. *)
ReadSignature(h, i) ==
    /\ At(h, "read") /\ i \in OpenOf(Ev(h).fp)
    /\ IF sigs[i].count < 2 THEN Done(h)
       ELSE observer' = [observer EXCEPT ![h].phase = "alert", ![h].ids = {i}]
    /\ UNCHANGED <<sigs, active, acked, events, faults, panics>>

(* There is no such row any more: ProcessEvent dereferences a nil pointer, *)
(* no handler recovers, and the daemon is gone with all its handlers.  The *)
(* service manager or the next forge command starts another one.           *)
Panic(h) ==
    /\ At(h, "read") /\ OpenOf(Ev(h).fp) = {}
    /\ panics' = TRUE
    /\ observer' = [g \in Observers |-> Idle]
    /\ UNCHANGED <<sigs, active, acked, events, faults>>

(* UpsertActiveAlert: the alert now refers to the row that was read. *)
UpsertActiveAlert(h) ==
    /\ At(h, "alert") /\ Done(h)
    /\ \E i \in observer[h].ids : active' = [active EXCEPT ![Ev(h).fp] = i]
    /\ UNCHANGED <<sigs, acked, events, faults, panics>>

(* ResolveFailureSignatures reads the rows, then updates them one by one;  *)
(* with nothing to resolve there is nothing to acknowledge.                *)
SelectSignatures(h) ==
    /\ At(h, "select")
    /\ IF Selected(Ev(h).command) = {} THEN Done(h)
       ELSE observer' = [observer EXCEPT ![h] =
                [phase |-> "resolve", event |-> @.event,
                 ids |-> Selected(@.event.command), todo |-> Selected(@.event.command)]]
    /\ UNCHANGED <<sigs, active, acked, events, faults, panics>>

(* Another row of the fingerprint was resolved in the same second. *)
Clash(i, ts) ==
    \E j \in Stored \ {i} : sigs[j].fp = sigs[i].fp /\ sigs[j].resolved = ts

(* Mutation: a failing update is skipped, and its alert acknowledged. *)
ResolveOneSkips(h, i) ==
    LET todo == observer[h].todo \ {i}
    IN  /\ At(h, "resolve") /\ i \in observer[h].todo
        /\ IF Clash(i, Ev(h).ts) THEN UNCHANGED sigs
           ELSE sigs' = [sigs EXCEPT ![i].resolved = Ev(h).ts]
        /\ observer' = [observer EXCEPT ![h].todo = todo,
                                        ![h].phase = IF todo = {} THEN "acknowledge" ELSE @]
        /\ UNCHANGED <<active, acked, events, faults, panics>>

ResolveOne(h, i) ==
    LET todo == observer[h].todo \ {i}
    IN  /\ At(h, "resolve") /\ i \in observer[h].todo /\ ~ Clash(i, Ev(h).ts)
        /\ sigs' = [sigs EXCEPT ![i].resolved = Ev(h).ts]
        /\ observer' = [observer EXCEPT ![h].todo = todo,
                                        ![h].phase = IF todo = {} THEN "acknowledge" ELSE @]
        /\ UNCHANGED <<active, acked, events, faults, panics>>

(* The update violates the UNIQUE constraint, and nothing is acknowledged. *)
ResolveClash(h, i) ==
    /\ At(h, "resolve") /\ i \in observer[h].todo /\ Clash(i, Ev(h).ts)
    /\ Done(h)
    /\ UNCHANGED <<sigs, active, acked, events, faults, panics>>

Named(h) == {fp \in Fingerprint : active[fp] \in observer[h].ids}

(* AcknowledgeAlerts, which the index over (fingerprint, acknowledged)     *)
(* refuses when one of the alerts was acknowledged before.                 *)
AcknowledgeAlerts(h) ==
    /\ At(h, "acknowledge") /\ Done(h)
    /\ IF \E fp \in Named(h) : acked[fp] # NoRow
       THEN UNCHANGED <<active, acked>>
       ELSE /\ acked' = [fp \in Fingerprint |-> IF fp \in Named(h) THEN active[fp] ELSE acked[fp]]
            /\ active' = [fp \in Fingerprint |-> IF fp \in Named(h) THEN NoRow ELSE active[fp]]
    /\ UNCHANGED <<sigs, events, faults, panics>>

Step(h) ==
    \/ \E e \in Event : Receive(h, e)
    \/ \E i \in Ids : UpsertFailureSignature(h, i)
    \/ \E i \in Ids : ReadSignature(h, i)
    \/ Panic(h) \/ UpsertActiveAlert(h)
    \/ SelectSignatures(h)
    \/ \E i \in Ids : ResolveOne(h, i)
    \/ \E i \in Ids : ResolveClash(h, i)
    \/ AcknowledgeAlerts(h)
    \/ Fault(h)

AlertsNext == \E h \in Observers : Step(h)

AlertsSpec == AlertsInit /\ [][AlertsNext]_alertVars

-----------------------------------------------------------------------------
(* Properties. *)

Phase == {"idle", "count", "read", "alert", "select", "resolve", "acknowledge"}

ObserverStates == [phase : Phase, event : Event \cup {NoRow},
                  ids : SUBSET Ids, todo : SUBSET Ids]

(* Every variable keeps its type. *)
AlertsTypeOK ==
    /\ sigs \in [Ids -> Signature \cup {NoRow}]
    /\ active \in [Fingerprint -> Ids \cup {NoRow}]
    /\ acked \in [Fingerprint -> Ids \cup {NoRow}]
    /\ observer \in [Observers -> ObserverStates]
    /\ events \in Nat /\ faults \in Nat /\ panics \in BOOLEAN

(* An alert names a signature of its own fingerprint that was counted at   *)
(* least twice, whoever resolved or counted it since.                      *)
AlertsNameRepeats ==
    \A fp \in Fingerprint : \A i \in {active[fp], acked[fp]} \ {NoRow} :
        i \in Stored /\ sigs[i].fp = fp /\ sigs[i].count >= 2

(* An acknowledged alert is about a resolved signature: a success never    *)
(* silences a failure that it did not resolve, also when the alert was     *)
(* raised again, for later failures, while the success was being handled,  *)
(* and when a statement failed half way.                                   *)
AcknowledgedIsResolved ==
    \A fp \in Fingerprint : acked[fp] # NoRow => acked[fp] \notin Open

(* A resolved row is closed: failures that come later count from one in a  *)
(* row of their own, and the row stays resolved whatever handlers that had *)
(* read it before do.                                                      *)
ResolvedRowsClosed ==
    [][\A i \in Stored \ Open : sigs'[i].count = sigs[i].count /\ i \notin Open']_alertVars

(* What the code says of the program, and the runs refute. *)

(* alerts.go:44: the signature is inserted or incremented atomically, so   *)
(* that UpsertFailureSignature returns it.                                 *)
UpsertReturnsTheRow == ~ panics

(* failures.go:103: an active alert says that its failure has no detected  *)
(* resolution.                                                             *)
ActiveIsUnresolved ==
    (\A h \in Observers : At(h, "idle")) =>
        \A fp \in Fingerprint : active[fp] # NoRow => active[fp] \in Open
=============================================================================
