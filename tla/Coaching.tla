------------------------------ MODULE Coaching ------------------------------
(***************************************************************************)
(* The coach of forge: observations detected in sessions, the evidence     *)
(* kept for each of them, the state of the skill an observation is about,  *)
(* and the coaching items queued for the developer, who accepts, defers or *)
(* dismisses them.                                                         *)
(*                                                                         *)
(* Four programs write the same tables: the daemon after a distillation    *)
(* cycle, "forge coach", "forge knowledge-gap", and coach.Backfill, which  *)
(* the package exports and its tests call, while no command of forge does. *)
(* None of them holds a lock.  Each SQL statement is a step; the only      *)
(* transaction is the one of ApplySkillStateOnce.  One project.            *)
(***************************************************************************)
EXTENDS Naturals, Sequences, FiniteSets, SequencesExt

CONSTANTS
  Session,      \* the sessions of the project
  Obs,          \* the identities an observation can have
  Gap,          \* the observations of the knowledge-gap report
  Drafts,       \* what DetectVerification finds in a session, in its order
  SkillOf,      \* the skill an observation is about
  Failed,       \* the observations that count as a failed application
  Confidence,   \* of an observation: 0 below 0.70, 1 below 0.85, 2 from 0.85
  User,         \* the commands a developer may run at once
  Mode,         \* the coaching modes in use
  Command,      \* the commands: accept, defer, dismiss, never (show again)
  MaxRuns,      \* a bound on the runs of the four programs
  MaxStarts,    \* a bound on these runs and the developer's commands together
  MaxMishaps    \* a bound on failing statements and ends of processes

ASSUME DraftsAssumption == Drafts \in [Session -> Seq(Obs \ Gap)]
ASSUME ConfidenceAssumption == Confidence \in [Obs -> 0..2]
ASSUME CommandAssumption == Command \subseteq {"accept", "defer", "dismiss", "never"}
ASSUME ModeAssumption == Mode \subseteq {"off", "observe", "quiet", "normal", "strict"}

Program == {"daemon", "backfill", "coach", "gaps"}
Skill == {SkillOf[o] : o \in Obs}
State == {"unobserved", "suspected_gap", "learning", "applied", "regressed"}
Open == {"queued", "deferred"}
Status == Open \cup {"accepted", "dismissed"}
NoObs == "none"
NoItem == [status |-> "none", never |-> FALSE, mode |-> "off"]
NoState == [state |-> "none", conf |-> 0, success |-> 0, failed |-> 0]

VARIABLES
  complete,     \* the sessions with a session-end event
  observations, \* the table of observations
  evidence,     \* observations whose sources are all recorded
  provenance,   \* per observation, the ingestion modes recorded
  marked,       \* observations with the processing marker
  skill,        \* the table of skill states
  items,        \* per observation, its coaching item
  job,          \* per program, its run
  act,          \* per command of the developer, its run
  uncounted,    \* history: per skill, applications written without a marker
  recounted,    \* history: per skill, the failed ones among them
  starts, runs, mishaps

tables == <<complete, observations, evidence, provenance, marked, skill, items>>
history == <<uncounted, recounted>>
vars == <<tables, history, job, act, starts, runs, mishaps>>

Idle == [at |-> "idle", todo |-> <<>>, read |-> NoState, left |-> {}, known |-> {},
         mode |-> "off"]
NoAct == [at |-> "idle", obs |-> NoObs, item |-> NoItem, doing |-> "none", read |-> NoState]

Current(p) == Head(job[p].todo)
Live(p) == IF p \in {"daemon", "gaps"} THEN "live" ELSE "backfill"
UsesMarker(p) == p \in {"daemon", "backfill"}

(* ------------------------ the skill evaluator ------------------------- *)

\* GetSkillState, and the row the callers start from when there is none.
StateOr(row) == IF row = NoState THEN [row EXCEPT !.state = "unobserved"] ELSE row

\* stateAfter: the rules in their order.  No caller sets CrossSessionSuccess,
\* so the rule for "reliable" is never reached.
StateAfter(current, next, summary) ==
  IF summary.failed > 0 /\ summary.conf = 2 /\ current.state \in {"learning", "applied"}
    THEN "regressed"
  ELSE IF summary.accepted /\ summary.conf >= 1 THEN "learning"
  ELSE IF summary.success > 0 /\ summary.conf >= 1 THEN "applied"
  ELSE IF next.failed >= 2 /\ summary.conf >= 1 THEN "suspected_gap"
  ELSE current.state

\* Evaluate for project states whose callers count applications only: the
\* evidence count stays zero and the confidence is the last summary's.
Evaluate(row, summary) ==
  LET current == StateOr(row)
      next == [current EXCEPT !.success = @ + summary.success,
                              !.failed = @ + summary.failed,
                              !.conf = summary.conf]
  IN [next EXCEPT !.state = StateAfter(current, next, summary)]

VerificationEvidence(o) ==
  [conf |-> Confidence[o], accepted |-> FALSE,
   success |-> IF o \in Failed THEN 0 ELSE 1, failed |-> IF o \in Failed THEN 1 ELSE 0]

Acceptance(row) == [conf |-> row.conf, accepted |-> TRUE, success |-> 0, failed |-> 0]

(* --------------------------- the four programs ------------------------ *)

Init ==
  /\ complete = {} /\ observations = {} /\ evidence = {} /\ marked = {}
  /\ provenance = [o \in Obs |-> {}]
  /\ skill = [s \in Skill |-> NoState]
  /\ items = [o \in Obs |-> NoItem]
  /\ job = [p \in Program |-> Idle]
  /\ act = [u \in User |-> NoAct]
  /\ uncounted = [s \in Skill |-> 0] /\ recounted = [s \in Skill |-> 0]
  /\ starts = 0 /\ runs = 0 /\ mishaps = 0

SessionCompletes(s) ==
  /\ s \notin complete
  /\ complete' = complete \cup {s}
  /\ UNCHANGED <<observations, evidence, provenance, marked, skill, items, history,
                 job, act, starts, runs, mishaps>>

Quiet(mode) == mode \in {"off", "observe"}

\* What follows the last draft: the queueing, unless the mode asks for none.
StageFor(todo, mode) == IF todo # <<>> THEN "save"
                     ELSE IF Quiet(mode) THEN "idle" ELSE "observations"

\* Every caller gives a list of observations; the proofs take this from here.
Begin(p, todo, mode) ==
  /\ todo \in Seq(Obs) /\ job[p] = Idle /\ starts < MaxStarts /\ runs < MaxRuns
  /\ starts' = starts + 1 /\ runs' = runs + 1
  /\ job' = [job EXCEPT ![p] = IF StageFor(todo, mode) = "idle" THEN Idle ELSE
                 [Idle EXCEPT !.at = StageFor(todo, mode), !.todo = todo, !.mode = mode]]
  /\ UNCHANGED <<tables, history, act, mishaps>>

\* processCompletedSessions runs on the daemon's only distill goroutine.
ProcessCompletedSession(s, mode) == s \in complete /\ Begin("daemon", Drafts[s], mode)

\* The high-signal sessions, in some order; an incomplete one is skipped.  No
\* command calls it: what the run shows of it holds of the package, as tested.
Backfill(mode) ==
  \E chosen \in SUBSET Session : \E order \in SetToSeqs(chosen \cap complete) :
    Begin("backfill", FlattenSeq([i \in DOMAIN order |-> Drafts[order[i]]]), mode)

\* "forge coach" looks at every session of the project, ended or not.
DetectAndQueueVerification(mode) ==
  \E order \in SetToSeqs(Session) :
    Begin("coach", FlattenSeq([i \in DOMAIN order |-> Drafts[order[i]]]), mode)

\* The provider's answer may name a gap again at every run, and one topic twice;
\* off records nothing.
QueueKnowledgeGaps(gaps, mode) ==
  gaps \in SeqOf(Gap, 2) /\ gaps # <<>> /\ mode # "off" /\ Begin("gaps", gaps, mode)

At(p, at) == job[p].at = at
GoTo(p, at) == job' = [job EXCEPT ![p].at = at]

\* A mutant: a known observation is not saved again.
InsertUnlessKnown(p) ==
  /\ At(p, "save")
  /\ observations' = observations \cup {Current(p)}
  /\ GoTo(p, IF Current(p) \in observations THEN "state" ELSE "evidence")
  /\ UNCHANGED <<complete, evidence, provenance, marked, skill, items, history, act,
                 starts, runs, mishaps>>

InsertObservation(p) ==
  /\ At(p, "save")
  /\ observations' = observations \cup {Current(p)}
  /\ GoTo(p, "evidence")
  /\ UNCHANGED <<complete, evidence, provenance, marked, skill, items, history, act,
                 starts, runs, mishaps>>

AddEvidence(p) ==
  /\ At(p, "evidence")
  /\ evidence' = evidence \cup {Current(p)}
  /\ GoTo(p, "listed")
  /\ UNCHANGED <<complete, observations, provenance, marked, skill, items, history, act,
                 starts, runs, mishaps>>

\* addProvenance reads the evidence rows and adds its own where it saw none.
ListEvidence(p) ==
  /\ At(p, "listed")
  /\ GoTo(p, IF provenance[Current(p)] = {} THEN "provenance" ELSE "state")
  /\ UNCHANGED <<tables, history, act, starts, runs, mishaps>>

AddProvenance(p) ==
  /\ At(p, "provenance")
  /\ provenance' = [provenance EXCEPT ![Current(p)] = @ \cup {Live(p)}]
  /\ GoTo(p, "state")
  /\ UNCHANGED <<complete, observations, evidence, marked, skill, items, history, act,
                 starts, runs, mishaps>>

GetSkillState(p) ==
  /\ At(p, "state")
  /\ job' = [job EXCEPT ![p].at = "apply", ![p].read = skill[SkillOf[Current(p)]]]
  /\ UNCHANGED <<tables, history, act, starts, runs, mishaps>>

Continue(p) ==
  LET rest == Tail(job[p].todo)
      at == StageFor(rest, job[p].mode)
  IN job' = [job EXCEPT ![p] = IF at = "idle" THEN Idle ELSE
               [Idle EXCEPT !.at = at, !.todo = rest, !.mode = job[p].mode]]

\* The state written is computed from the row read before.
Count(p) ==
  LET o == Current(p)
  IN skill' = [skill EXCEPT ![SkillOf[o]] = Evaluate(job[p].read, VerificationEvidence(o))]

\* A mutant: the marker is written and never looked at.
ApplySkillStateAlways(p) ==
  /\ Count(p) /\ marked' = marked \cup {Current(p)}
  /\ UNCHANGED history

\* One transaction: nothing if the marker is there, else the state and the marker.
ApplySkillStateOnce(p) ==
  /\ IF Current(p) \in marked
       THEN UNCHANGED <<skill, marked>>
       ELSE Count(p) /\ marked' = marked \cup {Current(p)}
  /\ UNCHANGED history

UpsertSkillState(p) ==
  LET o == Current(p)
  IN /\ Count(p)
     /\ uncounted' = [uncounted EXCEPT ![SkillOf[o]] = @ + 1]
     /\ recounted' = [recounted EXCEPT ![SkillOf[o]] = @ + VerificationEvidence(o).failed]
     /\ UNCHANGED marked

ApplyState(p) ==
  /\ At(p, "apply")
  /\ IF UsesMarker(p) THEN ApplySkillStateOnce(p) ELSE UpsertSkillState(p)
  /\ Continue(p)
  /\ UNCHANGED <<complete, observations, evidence, provenance, items, act,
                 starts, runs, mishaps>>

(* ------------------------------ queueing ------------------------------ *)

Suppressed == {SkillOf[o] : o \in {x \in Obs : items[x].never}}

ListObservations(p) ==
  /\ At(p, "observations")
  /\ job' = [job EXCEPT ![p].at = "items", ![p].left = observations]
  /\ UNCHANGED <<tables, history, act, starts, runs, mishaps>>

\* A mutant: only the observation's own item counts, not the skill's suppression.
ListItemsOnly(p) ==
  LET left == {o \in job[p].left : items[o] = NoItem}
  IN /\ At(p, "items")
     /\ job' = [job EXCEPT ![p] = IF left = {} THEN Idle
                                  ELSE [@ EXCEPT !.at = "queue", !.left = left,
                                                 !.known = Suppressed]]
     /\ UNCHANGED <<tables, history, act, starts, runs, mishaps>>

\* What is queued or suppressed is decided by this snapshot of the items.
ListItems(p) ==
  LET left == {o \in job[p].left : items[o] = NoItem /\ SkillOf[o] \notin Suppressed}
  IN /\ At(p, "items")
     /\ job' = [job EXCEPT ![p] = IF left = {} THEN Idle
                                  ELSE [@ EXCEPT !.at = "queue", !.left = left,
                                                 !.known = Suppressed]]
     /\ UNCHANGED <<tables, history, act, starts, runs, mishaps>>

\* The state is read anew for each observation of the snapshot.
Consider(p, o) ==
  /\ At(p, "queue") /\ o \in job[p].left
  /\ job' = [job EXCEPT ![p] =
       IF skill[SkillOf[o]].state = "suspected_gap"
         THEN [@ EXCEPT !.at = "insert", !.todo = <<o>>]
       ELSE IF @.left = {o} THEN Idle ELSE [@ EXCEPT !.left = job[p].left \ {o}]]
  /\ UNCHANGED <<tables, history, act, starts, runs, mishaps>>

InsertCoachingItem(p) ==
  /\ At(p, "insert")
  /\ items' = [items EXCEPT ![Current(p)] =
       IF @ = NoItem THEN [status |-> "queued", never |-> FALSE, mode |-> job[p].mode]
       ELSE @]
  /\ job' = [job EXCEPT ![p] =
       IF @.left = {Current(p)} THEN Idle
       ELSE [@ EXCEPT !.at = "queue", !.todo = <<>>, !.left = job[p].left \ {Current(p)}]]
  /\ UNCHANGED <<complete, observations, evidence, provenance, marked, skill, history,
                 act, starts, runs, mishaps>>

\* An error is logged and ends the run, as the end of the process does.
RunFails(p) ==
  /\ job[p] # Idle /\ mishaps < MaxMishaps
  /\ mishaps' = mishaps + 1
  /\ job' = [job EXCEPT ![p] = Idle]
  /\ UNCHANGED <<tables, history, act, starts, runs>>

(* --------------------- the developer's commands ----------------------- *)

\* The item is read and must be open; the rest works on this copy.
ReadItem(u, o, doing) ==
  /\ act[u] = NoAct /\ starts < MaxStarts
  /\ items[o].status \in Open
  /\ starts' = starts + 1
  /\ act' = [act EXCEPT ![u] =
       [at |-> IF doing = "accept" THEN "state" ELSE "update",
        obs |-> o, item |-> items[o], doing |-> doing, read |-> NoState]]
  /\ UNCHANGED <<tables, history, job, runs, mishaps>>

\* Accept fails when the skill has no state.
AcceptReads(u) ==
  LET row == skill[SkillOf[act[u].obs]]
  IN /\ act[u].at = "state"
     /\ act' = [act EXCEPT ![u] = IF row = NoState THEN NoAct
                                  ELSE [@ EXCEPT !.at = "upsert", !.read = row]]
     /\ UNCHANGED <<tables, history, job, starts, runs, mishaps>>

AcceptUpserts(u) ==
  LET row == act[u].read
  IN /\ act[u].at = "upsert"
     /\ skill' = [skill EXCEPT ![SkillOf[act[u].obs]] = Evaluate(row, Acceptance(row))]
     /\ act' = [act EXCEPT ![u].at = "update"]
     /\ UNCHANGED <<complete, observations, evidence, provenance, marked, items, history,
                    job, starts, runs, mishaps>>

Resolved(item, doing) ==
  CASE doing = "accept" -> [item EXCEPT !.status = "accepted"]
    [] doing = "defer" -> [item EXCEPT !.status = "deferred"]
    [] doing = "dismiss" -> [item EXCEPT !.status = "dismissed"]
    [] doing = "never" -> [item EXCEPT !.status = "dismissed", !.never = TRUE]

\* resolve: the copy's status and resolution replace the row's.
UpdateCoachingItem(u) ==
  /\ act[u].at = "update"
  /\ items' = [items EXCEPT ![act[u].obs] = Resolved(act[u].item, act[u].doing)]
  /\ act' = [act EXCEPT ![u] = NoAct]
  /\ UNCHANGED <<complete, observations, evidence, provenance, marked, skill, history,
                 job, starts, runs, mishaps>>

CommandFails(u) ==
  /\ act[u] # NoAct /\ mishaps < MaxMishaps
  /\ mishaps' = mishaps + 1
  /\ act' = [act EXCEPT ![u] = NoAct]
  /\ UNCHANGED <<tables, history, job, starts, runs>>

Starts(mode) ==
  \/ \E s \in Session : ProcessCompletedSession(s, mode)
  \/ Backfill(mode)
  \/ DetectAndQueueVerification(mode)
  \/ \E gaps \in SeqOf(Gap, 2) : QueueKnowledgeGaps(gaps, mode)

Saves(p) == \/ InsertObservation(p) \/ AddEvidence(p) \/ ListEvidence(p)
            \/ AddProvenance(p) \/ GetSkillState(p) \/ ApplyState(p)

Queues(p) == \/ ListObservations(p) \/ ListItems(p) \/ InsertCoachingItem(p)
             \/ \E o \in Obs : Consider(p, o)

Resolves(u) ==
  \/ \E o \in Obs, doing \in Command : ReadItem(u, o, doing)
  \/ AcceptReads(u) \/ AcceptUpserts(u) \/ UpdateCoachingItem(u)

Next ==
  \/ \E s \in Session : SessionCompletes(s)
  \/ \E mode \in Mode : Starts(mode)
  \/ \E p \in Program : Saves(p) \/ Queues(p) \/ RunFails(p)
  \/ \E u \in User : Resolves(u) \/ CommandFails(u)

Spec == Init /\ [][Next]_vars

(* ----------------------------- properties ----------------------------- *)

Rows == [state : State, conf : 0..2, success : Nat, failed : Nat] \cup {NoState}
Items == [status : Status, never : BOOLEAN, mode : Mode] \cup {NoItem}

\* TypeOK: every table and every program holds values of its type.
TypeOK ==
  /\ complete \subseteq Session
  /\ observations \subseteq Obs /\ evidence \subseteq Obs /\ marked \subseteq Obs
  /\ provenance \in [Obs -> SUBSET {"live", "backfill"}]
  /\ skill \in [Skill -> Rows]
  /\ items \in [Obs -> Items]
  /\ \A p \in Program : /\ job[p].todo \in Seq(Obs) /\ job[p].left \subseteq Obs
                        /\ job[p].read \in Rows
  /\ \A u \in User : act[u].item \in Items /\ act[u].read \in Rows

MarkedFor(s) == {o \in marked : SkillOf[o] = s}

\* CountedOnce: however the daemon and the backfill retry, race and fail, a
\* skill's row never counts more applications than there are observations with
\* the processing marker, but for the ones the commands wrote without one
\* (ApplySkillStateOnce).
CountedOnce ==
  \A s \in Skill :
    skill[s].success + skill[s].failed <= Cardinality(MarkedFor(s)) + uncounted[s]

\* CountedIsEvidenced: an observation that counts is in the table with all of
\* its sources and where it came from, wherever a run stopped or another one
\* stood (the order of Save and applyObservationState).
CountedIsEvidenced ==
  marked \subseteq {o \in observations \cap evidence : provenance[o] # {}}

\* What a lesson about a skill may rest on: different failed observations with the
\* marker, and the failed applications that a command wrote without one, which may
\* all be of one observation.
failures ==
  [s \in Skill |-> Cardinality({o \in marked \cap Failed : SkillOf[o] = s}) + recounted[s]]

\* LessonIsRepeated: the daemon and the backfill, however they retry, race and
\* fail, never make a lesson of one observation: those that count with the marker
\* are different, or a command counted too, which keeps no marker and may count
\* one observation as often as it runs (ApplySkillStateOnce, UpsertSkillState,
\* QueueEligible).
LessonIsRepeated ==
  \A o \in Obs : items[o] # NoItem => failures[SkillOf[o]] >= 2

\* NeverShownAgain: a program that lists the items after the developer
\* suppressed a skill queues nothing for that skill; one that listed them before
\* may.  A closed item changes only through a command that read it while it was
\* open, so that two overlapping commands may undo each other and a later one
\* may not (QueueEligible, requireOpenItem, UpdateCoachingItem).
NeverShownAgain ==
  [][\A o \in Obs :
       /\ items[o] = NoItem /\ items'[o] # NoItem =>
            \E p \in Program : /\ job[p].at = "insert" /\ Current(p) = o
                               /\ SkillOf[o] \notin job[p].known
       /\ items[o] # NoItem /\ items[o].status \notin Open /\ items'[o] # items[o] =>
            \E u \in User : act[u].obs = o /\ act[u].item.status \in Open]_vars

\* AcceptedIsLearning: from the moment a lesson is accepted until other evidence
\* comes in, its skill is being learned (what Accept's comment promises).
AcceptedIsLearning ==
  [][\A u \in User :
       act[u].at = "upsert" /\ act'[u].at = "update"
         => skill'[SkillOf[act[u].obs]].state = "learning"]_vars
=============================================================================
