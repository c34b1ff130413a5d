---------------------------- MODULE CoachingProofs ----------------------------
(***************************************************************************)
(* The invariants of Coaching, for any sessions, observations, commands    *)
(* and bounds: however the four programs and the developer's commands      *)
(* interleave and fail, and however stale the skill states they work from. *)
(***************************************************************************)
EXTENDS Coaching, FiniteSetTheorems, TLAPS

(* -------------------------------- types ------------------------------- *)

Modes == {"off", "observe", "quiet", "normal", "strict"}
Stage == {"idle", "save", "evidence", "listed", "provenance", "state", "apply",
          "observations", "items", "queue", "insert"}
StateRow == [state : State \cup {"none"}, conf : 0..2, success : Nat, failed : Nat]
ItemRow == [status : Status \cup {"none"}, never : BOOLEAN, mode : Modes]
Run == [at : Stage, todo : Seq(Obs), read : StateRow, left : SUBSET Obs,
        known : SUBSET Skill, mode : Modes]
Act == [at : {"idle", "state", "upsert", "update"}, obs : Obs \cup {NoObs}, item : ItemRow,
        doing : {"none", "accept", "defer", "dismiss", "never"}, read : StateRow]
Detected == {"save", "evidence", "listed", "provenance", "state", "apply", "insert"}

Typed ==
  /\ observations \subseteq Obs
  /\ marked \subseteq Obs /\ IsFiniteSet(marked)
  /\ skill \in [Skill -> StateRow]
  /\ items \in [Obs -> ItemRow]
  /\ job \in [Program -> Run]
  /\ act \in [User -> Act]
  /\ uncounted \in [Skill -> Nat] /\ recounted \in [Skill -> Nat]

\* A run that works on an observation has one; a command has its item.
Working ==
  /\ \A p \in Program : job[p].at \in Detected => job[p].todo # <<>>
  /\ \A u \in User : act[u].at # "idle" => act[u].obs \in Obs /\ act[u].doing # "none"

TypeInv == Typed /\ Working

LEMMA ConstantsTyped ==
  /\ \A o \in Obs : SkillOf[o] \in Skill
  /\ NoState \in StateRow /\ NoItem \in ItemRow /\ Idle \in Run /\ NoAct \in Act
  /\ Mode \subseteq Modes
<1>1. /\ \A o \in Obs : SkillOf[o] \in Skill
      /\ NoState \in StateRow /\ NoItem \in ItemRow
      /\ Mode \subseteq Modes
  BY ModeAssumption DEF Skill, NoState, StateRow, NoItem, ItemRow, Modes
<1>2. <<>> \in Seq(Obs)
  OBVIOUS
<1>3. Idle \in Run
  BY <1>1, <1>2 DEF Idle, Run, Stage, Modes
<1>4. NoAct \in Act
  BY <1>1 DEF NoAct, Act
<1> QED BY <1>1, <1>3, <1>4

LEMMA CurrentTyped ==
  ASSUME TypeInv, NEW p \in Program, job[p].at \in Detected
  PROVE  /\ Current(p) \in Obs /\ SkillOf[Current(p)] \in Skill
         /\ Tail(job[p].todo) \in Seq(Obs)
<1>1. job[p].todo \in Seq(Obs) /\ job[p].todo # <<>>
  BY DEF TypeInv, Typed, Working, Run
<1>2. Head(job[p].todo) \in Obs /\ Tail(job[p].todo) \in Seq(Obs)
  BY <1>1
<1> QED BY <1>2, ConstantsTyped DEF Current

\* The evaluator counts one application, and makes a gap of a skill only when
\* two failed ones are counted.
LEMMA EvaluateCounts ==
  ASSUME NEW row \in StateRow, NEW o \in Obs
  PROVE  LET next == Evaluate(row, VerificationEvidence(o))
         IN /\ next \in StateRow
            /\ next.success + next.failed = row.success + row.failed + 1
            /\ next.failed = row.failed + VerificationEvidence(o).failed
            /\ VerificationEvidence(o).failed \in {0, 1}
            /\ next.state = "suspected_gap" => row.state = "suspected_gap" \/ next.failed >= 2
<1>1. Confidence[o] \in 0..2
  BY ConfidenceAssumption
<1>2. StateOr(row) \in StateRow /\ StateOr(row).success = row.success /\ StateOr(row).failed = row.failed
      /\ (StateOr(row).state = "suspected_gap" => row.state = "suspected_gap")
  BY DEF StateOr, NoState, StateRow, State
<1> DEFINE current == StateOr(row)
           sum == VerificationEvidence(o)
           next == [current EXCEPT !.success = @ + sum.success, !.failed = @ + sum.failed,
                                   !.conf = sum.conf]
<1>3. /\ sum.success \in {0, 1} /\ sum.failed \in {0, 1} /\ sum.success + sum.failed = 1
      /\ sum.conf \in 0..2 /\ sum.accepted = FALSE
  BY <1>1 DEF VerificationEvidence
<1>4. /\ next \in StateRow
      /\ next.success = row.success + sum.success
      /\ next.failed = row.failed + sum.failed
  <2> HIDE DEF current, sum
  <2>1. current \in StateRow /\ current.success = row.success /\ current.failed = row.failed
    BY <1>2 DEF current
  <2>2. /\ current.success + sum.success \in Nat /\ current.failed + sum.failed \in Nat
        /\ sum.conf \in 0..2
    BY <1>3, <2>1 DEF StateRow
  <2> QED BY <2>1, <2>2 DEF StateRow
<1>5. Evaluate(row, sum) = [next EXCEPT !.state = StateAfter(current, next, sum)]
  BY DEF Evaluate
<1>6. /\ StateAfter(current, next, sum) \in State \cup {"none"}
      /\ StateAfter(current, next, sum) = "suspected_gap"
           => current.state = "suspected_gap" \/ next.failed >= 2
  BY <1>2 DEF StateAfter, StateRow, State
<1> HIDE DEF current, sum, next
<1>7. /\ Evaluate(row, sum) \in StateRow
      /\ Evaluate(row, sum).success = next.success /\ Evaluate(row, sum).failed = next.failed
      /\ Evaluate(row, sum).state = StateAfter(current, next, sum)
  BY <1>4, <1>5, <1>6 DEF StateRow
<1>8. row.success \in Nat /\ row.failed \in Nat
  BY DEF StateRow
<1>9. Evaluate(row, sum).success + Evaluate(row, sum).failed = row.success + row.failed + 1
  BY <1>3, <1>4, <1>7, <1>8
<1> QED BY <1>2, <1>3, <1>4, <1>6, <1>7, <1>9 DEF current, sum

LEMMA EvaluateAccepts ==
  ASSUME NEW row \in StateRow
  PROVE  LET next == Evaluate(row, Acceptance(row))
         IN /\ next \in StateRow
            /\ next.success = row.success /\ next.failed = row.failed
            /\ next.state = "suspected_gap" => row.state = "suspected_gap"
<1> DEFINE current == StateOr(row)
           sum == Acceptance(row)
           next == [current EXCEPT !.success = @ + sum.success, !.failed = @ + sum.failed,
                                   !.conf = sum.conf]
<1>1. /\ current \in StateRow /\ current.success = row.success /\ current.failed = row.failed
      /\ current.state = "suspected_gap" => row.state = "suspected_gap"
  BY DEF StateOr, NoState, StateRow, State
<1>2. sum.success = 0 /\ sum.failed = 0 /\ sum.conf \in 0..2 /\ sum.accepted = TRUE
  BY DEF Acceptance, StateRow
<1>3. next \in StateRow /\ next.success = row.success /\ next.failed = row.failed
  <2> HIDE DEF current, sum
  <2>1. /\ current.success \in Nat /\ current.failed \in Nat /\ sum.conf \in 0..2
        /\ current.success + sum.success = row.success /\ current.failed + sum.failed = row.failed
    BY <1>1, <1>2 DEF StateRow
  <2> QED BY <1>1, <2>1 DEF StateRow
<1>4. Evaluate(row, sum) = [next EXCEPT !.state = StateAfter(current, next, sum)]
  BY DEF Evaluate
<1>5. /\ StateAfter(current, next, sum) \in State \cup {"none"}
      /\ StateAfter(current, next, sum) = "suspected_gap" => current.state = "suspected_gap"
  BY <1>1, <1>2 DEF StateAfter, StateRow, State
<1> HIDE DEF current, sum, next
<1>6. /\ Evaluate(row, sum) \in StateRow
      /\ Evaluate(row, sum).success = next.success /\ Evaluate(row, sum).failed = next.failed
      /\ Evaluate(row, sum).state = StateAfter(current, next, sum)
  BY <1>3, <1>4, <1>5 DEF StateRow
<1> QED BY <1>1, <1>3, <1>5, <1>6 DEF sum

(* ----------------------------- typed steps ----------------------------- *)

\* The steps that set some fields of one run.
LEMMA MovedTyped ==
  ASSUME Typed, NEW p \in Program, NEW at \in Stage
  PROVE  /\ [job EXCEPT ![p].at = at] \in [Program -> Run]
         /\ [job EXCEPT ![p].at = at][p].at = at
         /\ [job EXCEPT ![p].at = at][p].todo = job[p].todo
         /\ \A q \in Program \ {p} : [job EXCEPT ![p].at = at][q] = job[q]
<1> DEFINE moved == [job[p] EXCEPT !.at = at]
<1>1. job[p] \in Run /\ p \in DOMAIN job
  BY DEF Typed
<1>2. moved \in Run /\ moved.at = at /\ moved.todo = job[p].todo
  BY <1>1 DEF Run
<1>3. [job EXCEPT ![p].at = at] = [job EXCEPT ![p] = moved]
  BY <1>1 DEF Typed, Run
<1> HIDE DEF moved
<1> QED BY <1>1, <1>2, <1>3 DEF Typed

LEMMA StageForTyped ==
  ASSUME NEW todo \in Seq(Obs), NEW mode \in Modes
  PROVE  /\ StageFor(todo, mode) \in {"save", "idle", "observations"}
         /\ StageFor(todo, mode) = "save" => todo # <<>>
  BY DEF StageFor

\* What a run that starts or goes on to its next draft looks like.
Fresh(run) ==
  /\ run \in Run
  /\ run.at \in {"save", "idle", "observations"}
  /\ run.at = "save" => run.todo # <<>>

LEMMA StartFresh ==
  ASSUME NEW todo \in Seq(Obs), NEW mode \in Modes
  PROVE  LET at == StageFor(todo, mode)
         IN Fresh(IF at = "idle" THEN Idle ELSE [Idle EXCEPT !.at = at, !.todo = todo, !.mode = mode])
<1> DEFINE at == StageFor(todo, mode)
<1>1. at \in {"save", "idle", "observations"} /\ at \in Stage /\ (at = "save" => todo # <<>>)
  BY StageForTyped DEF Stage
<1>2. Idle \in Run /\ Idle.at = "idle"
  BY ConstantsTyped DEF Idle
<1> HIDE DEF at
<1>3. [Idle EXCEPT !.at = at, !.todo = todo, !.mode = mode] \in Run
  BY <1>1, <1>2 DEF Run
<1>4. /\ [Idle EXCEPT !.at = at, !.todo = todo, !.mode = mode].at = at
      /\ [Idle EXCEPT !.at = at, !.todo = todo, !.mode = mode].todo = todo
  BY DEF Idle
<1> QED BY <1>1, <1>2, <1>3, <1>4 DEF Fresh, at

LEMMA BeginStarts ==
  ASSUME Typed, NEW p \in Program, NEW todo, NEW mode \in Mode, Begin(p, todo, mode)
  PROVE  /\ \E run : Fresh(run) /\ job' = [job EXCEPT ![p] = run]
         /\ UNCHANGED <<tables, history, act>>
  BY StartFresh, ConstantsTyped DEF Begin

LEMMA ContinueStarts ==
  ASSUME TypeInv, NEW p \in Program, job[p].at \in Detected, Continue(p)
  PROVE  \E run : Fresh(run) /\ job' = [job EXCEPT ![p] = run]
<1>1. Tail(job[p].todo) \in Seq(Obs) /\ job[p].mode \in Modes
  BY CurrentTyped DEF TypeInv, Typed, Run
<1> QED BY <1>1, StartFresh DEF Continue

\* Every start of one of the four programs is a Begin.
LEMMA StartsBegin ==
  ASSUME NEW mode \in Mode, Starts(mode)
  PROVE  \E p \in Program : \E todo : Begin(p, todo, mode)
  BY DEF Starts, ProcessCompletedSession, Backfill, DetectAndQueueVerification,
         QueueKnowledgeGaps, Program

LEMMA FreshTyped ==
  ASSUME TypeInv, NEW p \in Program, NEW run, Fresh(run), job' = [job EXCEPT ![p] = run]
  PROVE  /\ job' \in [Program -> Run]
         /\ \A q \in Program : job'[q].at \in Detected => job'[q].todo # <<>>
         /\ job'[p] = run /\ \A q \in Program \ {p} : job'[q] = job[q]
<1>1. /\ job' \in [Program -> Run] /\ job'[p] = run
      /\ \A q \in Program \ {p} : job'[q] = job[q]
  BY DEF Fresh, TypeInv, Typed
<1>2. run.at \in Detected => run.todo # <<>>
  BY DEF Fresh, Detected
<1> QED BY <1>1, <1>2 DEF TypeInv, Working

LEMMA CountTyped ==
  ASSUME TypeInv, NEW p \in Program, job[p].at = "apply", Count(p)
  PROVE  skill' \in [Skill -> StateRow]
<1>1. Current(p) \in Obs /\ SkillOf[Current(p)] \in Skill /\ job[p].read \in StateRow
  BY CurrentTyped DEF Detected, TypeInv, Typed, Run
<1>2. Evaluate(job[p].read, VerificationEvidence(Current(p))) \in StateRow
  BY <1>1, EvaluateCounts
<1> QED BY <1>1, <1>2 DEF Count, TypeInv, Typed

LEMMA ApplyTyped ==
  ASSUME TypeInv, NEW p \in Program, ApplyState(p)
  PROVE  TypeInv'
<1>1. At(p, "apply") /\ job[p].at = "apply" /\ Continue(p) /\ UNCHANGED <<observations, items, act>>
  BY DEF ApplyState, At
<1>2. Current(p) \in Obs /\ SkillOf[Current(p)] \in Skill
  BY <1>1, CurrentTyped DEF Detected
<1>3. PICK run : Fresh(run) /\ job' = [job EXCEPT ![p] = run]
  BY <1>1, ContinueStarts DEF Detected
<1>4. job' \in [Program -> Run] /\ \A q \in Program : job'[q].at \in Detected => job'[q].todo # <<>>
  BY <1>3, FreshTyped
<1>5. /\ skill' \in [Skill -> StateRow]
      /\ uncounted' \in [Skill -> Nat] /\ recounted' \in [Skill -> Nat]
      /\ marked' \subseteq Obs /\ IsFiniteSet(marked')
  <2>1. CASE Count(p) /\ marked' = marked \cup {Current(p)} /\ UNCHANGED history
    BY <1>1, <1>2, <2>1, CountTyped, FS_AddElement DEF TypeInv, Typed, history
  <2>2. CASE UNCHANGED <<skill, marked, history>>
    BY <2>2 DEF TypeInv, Typed, history
  <2>3. CASE UpsertSkillState(p)
    <3>1. VerificationEvidence(Current(p)).failed \in {0, 1}
      BY DEF VerificationEvidence
    <3>2. uncounted' \in [Skill -> Nat] /\ recounted' \in [Skill -> Nat]
      BY <1>2, <2>3, <3>1 DEF UpsertSkillState, TypeInv, Typed
    <3>3. skill' \in [Skill -> StateRow] /\ marked' = marked
      BY <1>1, <2>3, CountTyped DEF UpsertSkillState
    <3> QED BY <3>2, <3>3 DEF TypeInv, Typed
  <2> QED BY <2>1, <2>2, <2>3 DEF ApplyState, ApplySkillStateOnce
<1> QED BY <1>1, <1>4, <1>5 DEF TypeInv, Typed, Working

LEMMA TypeInit == Init => TypeInv
<1> SUFFICES ASSUME Init PROVE TypeInv
  OBVIOUS
<1>1. job \in [Program -> Run] /\ act \in [User -> Act] /\ skill \in [Skill -> StateRow]
      /\ items \in [Obs -> ItemRow]
  BY ConstantsTyped DEF Init
<1>2. Working
  BY DEF Init, Working, Idle, NoAct, Detected
<1>3. IsFiniteSet(marked) /\ marked = {} /\ observations = {}
  BY FS_EmptySet DEF Init
<1> QED BY <1>1, <1>2, <1>3 DEF Init, TypeInv, Typed

LEMMA TypeStep == TypeInv /\ [Next]_vars => TypeInv'
<1> SUFFICES ASSUME TypeInv, [Next]_vars PROVE TypeInv'
  OBVIOUS
<1> USE DEF TypeInv, tables, history
<1>1. ASSUME NEW mode \in Mode, Starts(mode) PROVE TypeInv'
  <2>1. PICK p \in Program : \E todo : Begin(p, todo, mode)
    BY <1>1, StartsBegin
  <2>2. /\ \E run : Fresh(run) /\ job' = [job EXCEPT ![p] = run]
        /\ UNCHANGED <<tables, history, act>>
    BY <2>1, BeginStarts
  <2>3. job' \in [Program -> Run] /\ \A q \in Program : job'[q].at \in Detected => job'[q].todo # <<>>
    BY <2>2, FreshTyped
  <2> QED BY <2>2, <2>3 DEF Typed, Working
<1>2. ASSUME NEW p \in Program, InsertObservation(p) PROVE TypeInv'
  <2>1. Current(p) \in Obs /\ job[p].todo # <<>>
    BY <1>2, CurrentTyped DEF InsertObservation, At, Detected, Working
  <2>2. job' = [job EXCEPT ![p].at = "evidence"] /\ "evidence" \in Stage
    BY <1>2 DEF InsertObservation, GoTo, Stage
  <2>3. /\ observations' \subseteq Obs
        /\ UNCHANGED <<marked, skill, items, act, recounted, uncounted>>
    BY <1>2, <2>1 DEF InsertObservation, Typed
  <2> QED BY <2>1, <2>2, <2>3, MovedTyped DEF Typed, Working
<1>3. ASSUME NEW p \in Program, AddEvidence(p) \/ ListEvidence(p) \/ AddProvenance(p) PROVE TypeInv'
  <2>1. PICK at \in {"listed", "provenance", "state"} : job' = [job EXCEPT ![p].at = at]
    BY <1>3 DEF AddEvidence, ListEvidence, AddProvenance, GoTo
  <2>2. job[p].todo # <<>> /\ at \in Stage
    BY <1>3, <2>1 DEF AddEvidence, ListEvidence, AddProvenance, At, Working, Detected, Stage
  <2>3. UNCHANGED <<observations, marked, skill, items, act, recounted, uncounted>>
    BY <1>3 DEF AddEvidence, ListEvidence, AddProvenance
  <2> QED BY <2>1, <2>2, <2>3, MovedTyped DEF Typed, Working
<1>4. ASSUME NEW p \in Program, GetSkillState(p) PROVE TypeInv'
  <2>1. job[p].todo # <<>> /\ Current(p) \in Obs /\ SkillOf[Current(p)] \in Skill
    BY <1>4, CurrentTyped DEF GetSkillState, At, Detected, Working
  <2>2. skill[SkillOf[Current(p)]] \in StateRow
    BY <2>1 DEF Typed
  <2>3. job' \in [Program -> Run]
    BY <1>4, <2>2 DEF GetSkillState, Typed, Run, Stage
  <2>4. /\ job'[p].todo = job[p].todo /\ \A q \in Program \ {p} : job'[q] = job[q]
    BY <1>4 DEF GetSkillState, Typed, Run
  <2> QED BY <1>4, <2>1, <2>3, <2>4 DEF GetSkillState, Typed, Working
<1>5. ASSUME NEW p \in Program, ApplyState(p) PROVE TypeInv'
  BY <1>5, ApplyTyped
<1>6. ASSUME NEW p \in Program, ListObservations(p) PROVE TypeInv'
  <2>1. job' \in [Program -> Run]
    BY <1>6 DEF ListObservations, Typed, Run, Stage
  <2>2. job'[p].at = "items" /\ \A q \in Program \ {p} : job'[q] = job[q]
    BY <1>6 DEF ListObservations, Typed, Run
  <2> QED BY <1>6, <2>1, <2>2 DEF ListObservations, Typed, Working, Detected
<1>7. ASSUME NEW p \in Program, ListItems(p) PROVE TypeInv'
  <2>1. Suppressed \subseteq Skill
    BY ConstantsTyped DEF Suppressed
  <2>2. /\ job' \in [Program -> Run]
        /\ job'[p].at \in {"idle", "queue"} /\ \A q \in Program \ {p} : job'[q] = job[q]
    BY <1>7, <2>1, ConstantsTyped DEF ListItems, Typed, Run, Stage, Idle
  <2> QED BY <1>7, <2>2 DEF ListItems, Typed, Working, Detected
<1>8. ASSUME NEW p \in Program, NEW o \in Obs, Consider(p, o) PROVE TypeInv'
  <2>1. <<o>> \in Seq(Obs) /\ <<o>> # <<>>
    OBVIOUS
  <2> DEFINE found == [job[p] EXCEPT !.at = "insert", !.todo = <<o>>]
             next == IF job[p].left = {o} THEN Idle ELSE [job[p] EXCEPT !.left = @ \ {o}]
  <2>2. job[p] \in Run /\ job[p].at = "queue"
    BY <1>8 DEF Consider, At, Typed
  <2>3. found \in Run /\ found.todo = <<o>>
    BY <2>1, <2>2 DEF Run, Stage
  <2>4. next \in Run /\ next.at \in {"idle", "queue"}
    BY <2>2, ConstantsTyped DEF Run, Idle
  <2>5. job' = [job EXCEPT ![p] = found] \/ job' = [job EXCEPT ![p] = next]
    <3>1. job' = [job EXCEPT ![p] = IF skill[SkillOf[o]].state = "suspected_gap" THEN found ELSE next]
      BY <1>8, Zenon DEF Consider
    <3> HIDE DEF found, next
    <3> QED BY <3>1
  <2> HIDE DEF found, next
  <2>6. PICK run \in {found, next} : job' = [job EXCEPT ![p] = run]
    BY <2>5
  <2>7. job' \in [Program -> Run] /\ job'[p] = run /\ \A q \in Program \ {p} : job'[q] = job[q]
    BY <2>3, <2>4, <2>6 DEF Typed
  <2>8. job'[p].at \in Detected => job'[p].todo # <<>>
    BY <2>1, <2>3, <2>4, <2>7 DEF Detected
  <2> QED BY <1>8, <2>7, <2>8 DEF Consider, Typed, Working
<1>9. ASSUME NEW p \in Program, InsertCoachingItem(p) PROVE TypeInv'
  <2>1. Current(p) \in Obs /\ job[p].mode \in Modes
    BY <1>9, CurrentTyped DEF InsertCoachingItem, At, Detected, Typed, Run
  <2>2. [status |-> "queued", never |-> FALSE, mode |-> job[p].mode] \in ItemRow
    BY <2>1 DEF ItemRow, Status, Open
  <2>3. items' \in [Obs -> ItemRow]
    BY <1>9, <2>1, <2>2 DEF InsertCoachingItem, Typed
  <2>4. <<>> \in Seq(Obs)
    OBVIOUS
  <2> DEFINE next == IF job[p].left = {Current(p)} THEN Idle
                     ELSE [job[p] EXCEPT !.at = "queue", !.todo = <<>>, !.left = @ \ {Current(p)}]
  <2>5. next \in Run /\ next.at \in {"idle", "queue"}
    <3>1. job[p] \in Run
      BY DEF Typed
    <3> QED BY <2>4, <3>1, ConstantsTyped DEF Run, Stage, Idle
  <2>6. job' = [job EXCEPT ![p] = next]
    BY <1>9, Zenon DEF InsertCoachingItem
  <2> HIDE DEF next
  <2>7. /\ job' \in [Program -> Run]
        /\ job'[p].at \in {"idle", "queue"} /\ \A q \in Program \ {p} : job'[q] = job[q]
    BY <2>5, <2>6 DEF Typed
  <2> QED BY <1>9, <2>3, <2>7 DEF InsertCoachingItem, Typed, Working, Detected
<1>10. ASSUME NEW p \in Program, RunFails(p) PROVE TypeInv'
  BY <1>10, ConstantsTyped DEF RunFails, Typed, Working, Idle, Detected
<1>11. ASSUME NEW u \in User, NEW o \in Obs, NEW doing \in Command, ReadItem(u, o, doing) PROVE TypeInv'
  <2>1. doing \in {"accept", "defer", "dismiss", "never"} /\ items[o] \in ItemRow
    BY CommandAssumption DEF Typed
  <2>2. act' \in [User -> Act]
    BY <1>11, <2>1, ConstantsTyped DEF ReadItem, Typed, Act
  <2>3. act'[u].obs = o /\ act'[u].doing = doing /\ \A v \in User \ {u} : act'[v] = act[v]
    BY <1>11 DEF ReadItem, Typed
  <2> QED BY <1>11, <2>1, <2>2, <2>3 DEF ReadItem, Typed, Working
<1>12. ASSUME NEW u \in User, AcceptReads(u) PROVE TypeInv'
  <2>1. act[u].obs \in Obs /\ skill[SkillOf[act[u].obs]] \in StateRow
    BY <1>12, ConstantsTyped DEF AcceptReads, Working, Typed
  <2> DEFINE read == [act[u] EXCEPT !.at = "upsert", !.read = skill[SkillOf[act[u].obs]]]
  <2>2. act[u] \in Act /\ act[u].at = "state"
    BY <1>12 DEF AcceptReads, Typed
  <2>3. /\ read \in Act /\ read.obs = act[u].obs /\ read.doing = act[u].doing
        /\ NoAct \in Act /\ NoAct.at = "idle"
    BY <2>1, <2>2, ConstantsTyped DEF Act, NoAct
  <2>4. act' = [act EXCEPT ![u] = read] \/ act' = [act EXCEPT ![u] = NoAct]
    BY <1>12 DEF AcceptReads
  <2> HIDE DEF read
  <2>5. PICK new \in {read, NoAct} : act' = [act EXCEPT ![u] = new]
    BY <2>4
  <2>6. act' \in [User -> Act] /\ act'[u] = new /\ \A v \in User \ {u} : act'[v] = act[v]
    BY <2>3, <2>5 DEF Typed
  <2>7. act'[u].at # "idle" => act'[u].obs \in Obs /\ act'[u].doing # "none"
    BY <2>2, <2>3, <2>6 DEF Working
  <2> QED BY <1>12, <2>6, <2>7 DEF AcceptReads, Typed, Working
<1>13. ASSUME NEW u \in User, AcceptUpserts(u) PROVE TypeInv'
  <2>1. act[u].obs \in Obs /\ act[u].read \in StateRow
    BY <1>13 DEF AcceptUpserts, Working, Typed, Act
  <2>2. skill' \in [Skill -> StateRow]
    BY <1>13, <2>1, EvaluateAccepts DEF AcceptUpserts, Typed
  <2>3. /\ act' \in [User -> Act] /\ \A v \in User \ {u} : act'[v] = act[v]
        /\ act'[u].obs = act[u].obs /\ act'[u].doing = act[u].doing
    BY <1>13 DEF AcceptUpserts, Typed, Act
  <2> QED BY <1>13, <2>2, <2>3 DEF AcceptUpserts, Typed, Working
<1>14. ASSUME NEW u \in User, UpdateCoachingItem(u) PROVE TypeInv'
  <2>1. act[u].obs \in Obs /\ act[u].item \in ItemRow
        /\ act[u].doing \in {"accept", "defer", "dismiss", "never"}
    BY <1>14 DEF UpdateCoachingItem, Working, Typed, Act
  <2>2. Resolved(act[u].item, act[u].doing) \in ItemRow
    BY <2>1 DEF Resolved, ItemRow, Status, Open
  <2>3. items' \in [Obs -> ItemRow]
    BY <1>14, <2>2 DEF UpdateCoachingItem, Typed
  <2>4. act' \in [User -> Act] /\ act'[u].at = "idle" /\ \A v \in User \ {u} : act'[v] = act[v]
    BY <1>14, ConstantsTyped DEF UpdateCoachingItem, Typed, NoAct
  <2> QED BY <1>14, <2>3, <2>4 DEF UpdateCoachingItem, Typed, Working
<1>15. ASSUME NEW u \in User, CommandFails(u) PROVE TypeInv'
  BY <1>15, ConstantsTyped DEF CommandFails, Typed, Working, NoAct
<1>16. ASSUME NEW s \in Session, SessionCompletes(s) PROVE TypeInv'
  BY <1>16 DEF SessionCompletes, Typed, Working
<1>17. CASE UNCHANGED vars
  BY <1>17 DEF vars, Typed, Working
<1> QED BY <1>1, <1>2, <1>3, <1>4, <1>5, <1>6, <1>7, <1>8, <1>9, <1>10, <1>11, <1>12, <1>13,
           <1>14, <1>15, <1>16, <1>17 DEF Next, Saves, Queues, Resolves

LEMMA TypeAlways == Spec => []TypeInv
  BY TypeInit, TypeStep, PTL DEF Spec

(* ---------------------------- what is counted -------------------------- *)

\* How many applications a row of this skill may count.
Bound(s) == Cardinality(MarkedFor(s)) + uncounted[s]

\* A row of a skill, in the table or in the hands of a program or a command,
\* when so many applications may be counted and so many have failed.
GoodRow(row, bound, failing) ==
  /\ row.success + row.failed <= bound
  /\ row.failed <= failing
  /\ row.state = "suspected_gap" => failing >= 2

GoodFor(row, o) == GoodRow(row, Bound(SkillOf[o]), failures[SkillOf[o]])

GoodRows ==
  /\ \A s \in Skill : GoodRow(skill[s], Bound(s), failures[s])
  /\ \A p \in Program : job[p].at = "apply" => GoodFor(job[p].read, Current(p))
  /\ \A u \in User : act[u].at = "upsert" => GoodFor(act[u].read, act[u].obs)

Lessons ==
  /\ \A p \in Program : job[p].at = "insert" => failures[SkillOf[Current(p)]] >= 2
  /\ \A u \in User : act[u].at # "idle" => failures[SkillOf[act[u].obs]] >= 2
  /\ \A o \in Obs : items[o] # NoItem => failures[SkillOf[o]] >= 2

CountInv == GoodRows /\ Lessons

\* What may be counted only grows.
Grows == \A s \in Skill : /\ Bound(s) \in Nat /\ Bound(s)' \in Nat /\ Bound(s) <= Bound(s)'
                          /\ failures[s] \in Nat /\ failures'[s] \in Nat /\ failures[s] <= failures'[s]

LEMMA BoundTyped ==
  ASSUME Typed, NEW s \in Skill
  PROVE  Bound(s) \in Nat /\ IsFiniteSet(MarkedFor(s)) /\ Cardinality(MarkedFor(s)) \in Nat
<1>1. MarkedFor(s) \in SUBSET marked
  BY DEF MarkedFor
<1>2. IsFiniteSet(MarkedFor(s))
  BY <1>1, FS_Subset DEF Typed
<1>3. Cardinality(MarkedFor(s)) \in Nat
  BY <1>2, FS_CardinalityType
<1> QED BY <1>2, <1>3 DEF Bound, Typed

\* The failed observations of a skill that carry the marker.
FailedFor(s) == {o \in marked \cap Failed : SkillOf[o] = s}

LEMMA FailuresTyped ==
  ASSUME Typed, NEW s \in Skill
  PROVE  /\ IsFiniteSet(FailedFor(s)) /\ Cardinality(FailedFor(s)) \in Nat
         /\ failures[s] = Cardinality(FailedFor(s)) + recounted[s] /\ failures[s] \in Nat
<1>1. FailedFor(s) \in SUBSET marked
  BY DEF FailedFor
<1>2. IsFiniteSet(FailedFor(s))
  BY <1>1, FS_Subset DEF Typed
<1>3. Cardinality(FailedFor(s)) \in Nat
  BY <1>2, FS_CardinalityType
<1>4. failures[s] = Cardinality(FailedFor(s)) + recounted[s]
  BY DEF failures, FailedFor
<1> QED BY <1>2, <1>3, <1>4 DEF Typed

LEMMA NothingCounted ==
  ASSUME TypeInv, UNCHANGED <<marked, uncounted, recounted>>
  PROVE  Grows /\ (\A s \in Skill : Bound(s)' = Bound(s)) /\ failures' = failures
<1>1. \A s \in Skill : Bound(s)' = Bound(s)
  BY DEF Bound, MarkedFor
<1>2. \A s \in Skill : Bound(s) \in Nat
  BY BoundTyped DEF TypeInv
<1>3. \A s \in Skill : failures[s] \in Nat
  BY FailuresTyped DEF TypeInv
<1>4. failures' = failures
  BY DEF failures
<1> QED BY <1>1, <1>2, <1>3, <1>4 DEF Grows

LEMMA RowKept ==
  ASSUME NEW row \in StateRow, NEW b \in Nat, NEW c \in Nat, NEW f \in Nat, NEW g \in Nat,
         GoodRow(row, b, f), b <= c, f <= g
  PROVE  GoodRow(row, c, g)
<1>1. row.success + row.failed \in Nat /\ row.failed \in Nat
  BY DEF StateRow
<1> QED BY <1>1 DEF GoodRow

LEMMA RowCounted ==
  ASSUME NEW row \in StateRow, NEW o \in Obs, NEW b \in Nat, NEW c \in Nat, NEW f \in Nat,
         GoodRow(row, b, f), c >= b + 1
  PROVE  GoodRow(Evaluate(row, VerificationEvidence(o)), c, f + VerificationEvidence(o).failed)
<1> DEFINE next == Evaluate(row, VerificationEvidence(o))
           more == VerificationEvidence(o).failed
<1>1. /\ next.success + next.failed = row.success + row.failed + 1
      /\ next.failed = row.failed + more
      /\ more \in {0, 1}
      /\ next.state = "suspected_gap" => row.state = "suspected_gap" \/ next.failed >= 2
  BY EvaluateCounts
<1> HIDE DEF next, more
<1>2. row.success \in Nat /\ row.failed \in Nat
  BY DEF StateRow
<1>3. row.success + row.failed <= b /\ row.failed <= f /\ (row.state = "suspected_gap" => f >= 2)
  BY DEF GoodRow
<1>4. next.success + next.failed <= c /\ next.failed <= f + more
  BY <1>1, <1>2, <1>3
<1>5. next.state = "suspected_gap" => f + more >= 2
  BY <1>1, <1>2, <1>3
<1>6. GoodRow(next, c, f + more)
  BY <1>4, <1>5 DEF GoodRow
<1> QED BY <1>6 DEF next, more

LEMMA RowAccepted ==
  ASSUME NEW row \in StateRow, NEW b, NEW f, GoodRow(row, b, f)
  PROVE  GoodRow(Evaluate(row, Acceptance(row)), b, f)
  BY EvaluateAccepts DEF GoodRow

\* One application more may be counted, and one that failed if this one did.
Allowed(k, o) ==
  /\ Bound(k)' >= Bound(k) + 1
  /\ failures'[k] = failures[k] + VerificationEvidence(o).failed

\* The writers of a skill state: one application more, and one more allowed.
LEMMA CountGood ==
  ASSUME TypeInv, CountInv, NEW p \in Program, job[p].at = "apply", Count(p), Grows,
         NEW o \in Obs, o = Current(p), NEW k \in Skill, k = SkillOf[o], Allowed(k, o)
  PROVE  \A s \in Skill : GoodRow(skill'[s], Bound(s)', failures'[s])
<1> DEFINE row == Evaluate(job[p].read, VerificationEvidence(o))
           more == VerificationEvidence(o).failed
<1>1. job[p].read \in StateRow
  BY DEF TypeInv, Typed, Run
<1>2. GoodRow(job[p].read, Bound(k), failures[k])
  BY DEF CountInv, GoodRows, GoodFor
<1>3. skill' = [skill EXCEPT ![k] = row] /\ failures'[k] = failures[k] + more
  BY DEF Count, Allowed
<1>4. Bound(k) \in Nat /\ Bound(k)' \in Nat /\ failures[k] \in Nat
  BY DEF Grows
<1>5. GoodRow(row, Bound(k)', failures[k] + more)
  BY <1>1, <1>2, <1>4, RowCounted DEF Allowed
<1> HIDE DEF row, more
<1> SUFFICES ASSUME NEW s \in Skill PROVE GoodRow(skill'[s], Bound(s)', failures'[s])
  OBVIOUS
<1>6. CASE s = k
  <2>1. skill'[k] = row /\ failures'[k] = failures[k] + more
    BY <1>3 DEF TypeInv, Typed
  <2> QED BY <1>5, <1>6, <2>1
<1>7. CASE s # k
  <2>1. skill'[s] = skill[s] /\ skill[s] \in StateRow
    BY <1>3, <1>7 DEF TypeInv, Typed
  <2>2. GoodRow(skill[s], Bound(s), failures[s])
    BY DEF CountInv, GoodRows
  <2> QED BY <2>1, <2>2, RowKept DEF Grows
<1> QED BY <1>6, <1>7

\* With a marker, the marker is new; without one, the step is remembered.
LEMMA ApplyGrows ==
  ASSUME TypeInv, NEW p \in Program, job[p].at = "apply",
         NEW o \in Obs, o = Current(p), NEW k \in Skill, k = SkillOf[o],
         ApplySkillStateOnce(p) \/ UpsertSkillState(p)
  PROVE  Grows /\ (skill' = skill \/ (Count(p) /\ Allowed(k, o)))
<1> DEFINE more == VerificationEvidence(o).failed
<1>1. more = IF o \in Failed THEN 1 ELSE 0
  BY DEF VerificationEvidence
<1>2. \A s \in Skill : /\ Bound(s) \in Nat /\ Cardinality(MarkedFor(s)) \in Nat
                       /\ IsFiniteSet(MarkedFor(s)) /\ uncounted[s] \in Nat
  BY BoundTyped DEF TypeInv, Typed
<1>3. \A s \in Skill : /\ failures[s] \in Nat /\ Cardinality(FailedFor(s)) \in Nat
                       /\ IsFiniteSet(FailedFor(s)) /\ recounted[s] \in Nat
                       /\ failures[s] = Cardinality(FailedFor(s)) + recounted[s]
  BY FailuresTyped DEF TypeInv, Typed
<1>4. \A s \in Skill : failures'[s] = Cardinality(FailedFor(s)') + recounted'[s]
  BY DEF failures, FailedFor
<1>5. CASE UNCHANGED <<skill, marked, uncounted, recounted>>
  <2>1. UNCHANGED <<marked, uncounted, recounted>> /\ skill' = skill
    BY <1>5
  <2>2. Grows
    BY <2>1, NothingCounted
  <2> QED BY <2>1, <2>2
<1>6. CASE /\ Count(p) /\ o \notin marked /\ marked' = marked \cup {o}
           /\ UNCHANGED <<uncounted, recounted>>
  <2>1. MarkedFor(k)' = MarkedFor(k) \cup {o} /\ o \notin MarkedFor(k)
    BY <1>6 DEF MarkedFor
  <2>2. \A s \in Skill \ {k} : MarkedFor(s)' = MarkedFor(s) /\ FailedFor(s)' = FailedFor(s)
    BY <1>6 DEF MarkedFor, FailedFor
  <2>3. Cardinality(MarkedFor(k)') = Cardinality(MarkedFor(k)) + 1
    BY <1>2, <2>1, FS_AddElement
  <2>4. Bound(k)' = Bound(k) + 1
    BY <1>2, <1>6, <2>3 DEF Bound
  <2>5. \A s \in Skill \ {k} : Bound(s)' = Bound(s)
    BY <1>6, <2>2 DEF Bound
  <2>6. \A s \in Skill : Bound(s)' \in Nat /\ Bound(s) <= Bound(s)'
    BY <1>2, <2>4, <2>5
  <2>7. Cardinality(FailedFor(k)') = Cardinality(FailedFor(k)) + more
    <3>1. CASE o \in Failed
      <4>1. FailedFor(k)' = FailedFor(k) \cup {o} /\ o \notin FailedFor(k)
        BY <1>6, <3>1 DEF FailedFor
      <4>2. Cardinality(FailedFor(k) \cup {o}) = Cardinality(FailedFor(k)) + 1
        BY <1>3, <4>1, FS_AddElement
      <4> QED BY <1>1, <3>1, <4>1, <4>2
    <3>2. CASE o \notin Failed
      <4>1. FailedFor(k)' = FailedFor(k)
        BY <1>6, <3>2 DEF FailedFor
      <4> QED BY <1>1, <1>3, <3>2, <4>1
    <3> QED BY <3>1, <3>2
  <2> HIDE DEF more
  <2>8. failures'[k] = failures[k] + more
    BY <1>3, <1>4, <1>6, <2>7, <1>1
  <2>9. \A s \in Skill : failures'[s] \in Nat /\ failures[s] <= failures'[s]
    <3> SUFFICES ASSUME NEW s \in Skill PROVE failures'[s] \in Nat /\ failures[s] <= failures'[s]
      OBVIOUS
    <3>1. CASE s = k
      BY <1>1, <1>3, <2>8, <3>1
    <3>2. CASE s # k
      BY <1>3, <1>4, <1>6, <2>2, <3>2
    <3> QED BY <3>1, <3>2
  <2>10. Allowed(k, o)
    BY <1>2, <2>4, <2>8 DEF Allowed, more
  <2> QED BY <1>2, <1>3, <1>6, <2>6, <2>9, <2>10 DEF Grows
<1>7. CASE /\ Count(p) /\ marked' = marked /\ uncounted' = [uncounted EXCEPT ![k] = @ + 1]
           /\ recounted' = [recounted EXCEPT ![k] = @ + more]
  <2>1. \A s \in Skill : MarkedFor(s)' = MarkedFor(s) /\ FailedFor(s)' = FailedFor(s)
    BY <1>7 DEF MarkedFor, FailedFor
  <2> HIDE DEF more
  <2>2. /\ uncounted'[k] = uncounted[k] + 1 /\ recounted'[k] = recounted[k] + more
        /\ \A s \in Skill \ {k} : uncounted'[s] = uncounted[s] /\ recounted'[s] = recounted[s]
    BY <1>7 DEF TypeInv, Typed
  <2>3. Bound(k)' = Bound(k) + 1 /\ \A s \in Skill \ {k} : Bound(s)' = Bound(s)
    BY <1>2, <2>1, <2>2 DEF Bound
  <2>4. \A s \in Skill : Bound(s)' \in Nat /\ Bound(s) <= Bound(s)'
    BY <1>2, <2>3
  <2>5. /\ failures'[k] = failures[k] + more
        /\ \A s \in Skill \ {k} : failures'[s] = failures[s]
    BY <1>1, <1>3, <1>4, <2>1, <2>2
  <2>6. \A s \in Skill : failures'[s] \in Nat /\ failures[s] <= failures'[s]
    BY <1>1, <1>3, <2>5
  <2>7. Allowed(k, o)
    BY <1>2, <2>3, <2>5 DEF Allowed, more
  <2> QED BY <1>2, <1>3, <1>7, <2>4, <2>6, <2>7 DEF Grows
<1> QED BY <1>5, <1>6, <1>7 DEF ApplySkillStateOnce, UpsertSkillState, history

\* A step that counts nothing, and gives a program or a command nothing but what
\* the table holds.
LEMMA RowsStay ==
  ASSUME TypeInv, GoodRows, UNCHANGED <<skill, marked, uncounted, recounted>>,
         \A p \in Program : job'[p].at = "apply" =>
           \/ job[p].at = "apply" /\ job'[p] = job[p]
           \/ Current(p)' \in Obs /\ job'[p].read = skill[SkillOf[Current(p)']],
         \A u \in User : act'[u].at = "upsert" =>
           \/ act[u].at = "upsert" /\ act'[u] = act[u]
           \/ act'[u].obs \in Obs /\ act'[u].read = skill[SkillOf[act'[u].obs]]
  PROVE  GoodRows'
<1>1. (\A s \in Skill : Bound(s)' = Bound(s)) /\ failures' = failures /\ skill' = skill
  BY NothingCounted
<1>2. \A o \in Obs : SkillOf[o] \in Skill
  BY ConstantsTyped
<1>3. \A s \in Skill : GoodRow(skill'[s], Bound(s)', failures'[s])
  BY <1>1 DEF GoodRows
<1>4. ASSUME NEW p \in Program, job'[p].at = "apply"
      PROVE  GoodRow(job'[p].read, Bound(SkillOf[Current(p)])', failures'[SkillOf[Current(p)']])
  <2>1. CASE job[p].at = "apply" /\ job'[p] = job[p]
    <3>1. Current(p)' = Current(p) /\ Current(p) \in Obs /\ GoodFor(job[p].read, Current(p))
      BY <2>1, CurrentTyped DEF Current, GoodRows, Detected
    <3>2. Bound(SkillOf[Current(p)])' = Bound(SkillOf[Current(p)])
      BY <3>1, <1>1 DEF Bound, MarkedFor
    <3> QED BY <1>1, <2>1, <3>1, <3>2 DEF GoodFor
  <2>2. CASE Current(p)' \in Obs /\ job'[p].read = skill[SkillOf[Current(p)']]
    <3> DEFINE o == Current(p)'
    <3>1. PICK k \in Skill : k = SkillOf[o]
      BY <1>2, <2>2
    <3>2. Bound(SkillOf[Current(p)])' = Bound(k)'
      BY <3>1
    <3> QED BY <1>3, <1>1, <2>2, <3>1, <3>2
  <2> QED BY <1>4, <2>1, <2>2
<1>5. ASSUME NEW u \in User, act'[u].at = "upsert"
      PROVE  GoodRow(act'[u].read, Bound(SkillOf[act[u].obs])', failures'[SkillOf[act'[u].obs]])
  <2>1. CASE act[u].at = "upsert" /\ act'[u] = act[u]
    <3>1. GoodFor(act[u].read, act[u].obs)
      BY <2>1 DEF GoodRows
    <3>2. Bound(SkillOf[act[u].obs])' = Bound(SkillOf[act[u].obs])
      BY <2>1, <1>1 DEF Bound, MarkedFor
    <3> QED BY <1>1, <2>1, <3>1, <3>2 DEF GoodFor
  <2>2. CASE act'[u].obs \in Obs /\ act'[u].read = skill[SkillOf[act'[u].obs]]
    <3>1. PICK k \in Skill : k = SkillOf[act'[u].obs]
      BY <1>2, <2>2
    <3>2. Bound(SkillOf[act[u].obs])' = Bound(k)'
      BY <3>1
    <3> QED BY <1>3, <1>1, <2>2, <3>1, <3>2
  <2> QED BY <1>5, <2>1, <2>2
<1> QED BY <1>3, <1>4, <1>5 DEF GoodRows, GoodFor

\* A lesson comes from a skill that is a suspected gap, or from one already made.
LEMMA LessonsStay ==
  ASSUME TypeInv, CountInv, Grows,
         \A p \in Program : job'[p].at = "insert" =>
           \/ job[p].at = "insert" /\ job'[p] = job[p]
           \/ Current(p)' \in Obs /\ skill[SkillOf[Current(p)']].state = "suspected_gap",
         \A u \in User : act'[u].at # "idle" =>
           \/ act[u].at # "idle" /\ act'[u].obs = act[u].obs
           \/ act'[u].obs \in Obs /\ items[act'[u].obs] # NoItem,
         \A o \in Obs : items'[o] # NoItem =>
           \/ items[o] # NoItem
           \/ \E p \in Program : job[p].at = "insert" /\ Current(p) = o
           \/ \E u \in User : act[u].at # "idle" /\ act[u].obs = o
  PROVE  Lessons'
<1>1. \A o \in Obs : SkillOf[o] \in Skill
  BY ConstantsTyped
<1>2. ASSUME NEW s \in Skill, failures[s] >= 2 PROVE failures'[s] >= 2
  <2>1. failures[s] \in Nat /\ failures'[s] \in Nat /\ failures[s] <= failures'[s]
    BY DEF Grows
  <2> QED BY <1>2, <2>1
<1>3. \A s \in Skill : skill[s].state = "suspected_gap" => failures[s] >= 2
  BY DEF CountInv, GoodRows, GoodRow
<1>4. ASSUME NEW p \in Program, job'[p].at = "insert" PROVE failures'[SkillOf[Current(p)']] >= 2
  <2>1. CASE job[p].at = "insert" /\ job'[p] = job[p]
    <3>1. Current(p)' = Current(p) /\ Current(p) \in Obs /\ failures[SkillOf[Current(p)]] >= 2
      BY <2>1, CurrentTyped DEF Current, CountInv, Lessons, Detected
    <3> QED BY <1>1, <1>2, <3>1
  <2>2. CASE Current(p)' \in Obs /\ skill[SkillOf[Current(p)']].state = "suspected_gap"
    BY <1>1, <1>2, <1>3, <2>2
  <2> QED BY <1>4, <2>1, <2>2
<1>5. ASSUME NEW u \in User, act'[u].at # "idle" PROVE failures'[SkillOf[act'[u].obs]] >= 2
  <2>1. CASE act[u].at # "idle" /\ act'[u].obs = act[u].obs
    <3>1. act[u].obs \in Obs /\ failures[SkillOf[act[u].obs]] >= 2
      BY <2>1 DEF TypeInv, Working, CountInv, Lessons
    <3> QED BY <1>1, <1>2, <2>1, <3>1
  <2>2. CASE act'[u].obs \in Obs /\ items[act'[u].obs] # NoItem
    <3>1. failures[SkillOf[act'[u].obs]] >= 2
      BY <2>2 DEF CountInv, Lessons
    <3> QED BY <1>1, <1>2, <2>2, <3>1
  <2> QED BY <1>5, <2>1, <2>2
<1>6. ASSUME NEW o \in Obs, items'[o] # NoItem PROVE failures'[SkillOf[o]] >= 2
  <2>1. failures[SkillOf[o]] >= 2
    BY <1>6 DEF CountInv, Lessons
  <2> QED BY <1>1, <1>2, <2>1
<1> QED BY <1>4, <1>5, <1>6 DEF Lessons

LEMMA CountInit == Init => CountInv
<1> SUFFICES ASSUME Init PROVE CountInv
  OBVIOUS
<1>1. \A s \in Skill : Bound(s) \in Nat
  BY TypeInit, BoundTyped DEF TypeInv
<1>2. \A s \in Skill : failures[s] \in Nat
  BY TypeInit, FailuresTyped DEF TypeInv
<1>3. \A s \in Skill : GoodRow(skill[s], Bound(s), failures[s])
  BY <1>1, <1>2 DEF Init, GoodRow, NoState
<1> QED BY <1>3 DEF Init, CountInv, GoodRows, Lessons, Idle, NoAct

\* The steps of a program between two of its rows, and of a command.
LEMMA CountStays ==
  ASSUME TypeInv, CountInv, UNCHANGED <<skill, marked, recounted, uncounted, items, act>>,
         NEW p \in Program, job'[p].at \notin {"apply", "insert"},
         \A q \in Program \ {p} : job'[q] = job[q]
  PROVE  CountInv'
<1>1. Grows
  BY NothingCounted
<1>2. /\ \A q \in Program : job'[q].at \in {"apply", "insert"} => job'[q] = job[q]
      /\ UNCHANGED <<skill, marked, uncounted, recounted>> /\ act' = act /\ items' = items
  OBVIOUS
<1>3. GoodRows'
  BY <1>2, RowsStay DEF CountInv
<1>4. Lessons'
  BY <1>1, <1>2, LessonsStay
<1> QED BY <1>3, <1>4 DEF CountInv

LEMMA CommandStays ==
  ASSUME TypeInv, CountInv, UNCHANGED <<skill, marked, recounted, uncounted, job>>,
         NEW u \in User, act'[u].at = "idle" \/ (act'[u].obs \in Obs /\ items[act'[u].obs] # NoItem),
         \A v \in User \ {u} : act'[v] = act[v],
         act'[u].at # "upsert",
         \A o \in Obs : items'[o] # NoItem =>
           items[o] # NoItem \/ \E v \in User : act[v].at # "idle" /\ act[v].obs = o
  PROVE  CountInv'
<1>1. Grows
  BY NothingCounted
<1>2. UNCHANGED <<skill, marked, uncounted, recounted>> /\ job' = job
  OBVIOUS
<1>3. \A v \in User : act'[v].at = "upsert" => act[v].at = "upsert" /\ act'[v] = act[v]
  OBVIOUS
<1>4. \A q \in Program : job'[q] = job[q]
  OBVIOUS
<1>5. GoodRows'
  BY <1>2, <1>3, <1>4, RowsStay DEF CountInv
<1>6. Lessons'
  BY <1>1, <1>4, LessonsStay
<1> QED BY <1>5, <1>6 DEF CountInv

LEMMA CountApply ==
  ASSUME TypeInv, CountInv, NEW p \in Program, ApplyState(p)
  PROVE  CountInv'
<1>1. /\ job[p].at = "apply" /\ Continue(p) /\ act' = act /\ items' = items
      /\ ApplySkillStateOnce(p) \/ UpsertSkillState(p)
  BY DEF ApplyState, At
<1>2. PICK o \in Obs : o = Current(p)
  BY <1>1, CurrentTyped DEF Detected
<1>3. PICK k \in Skill : k = SkillOf[o]
  BY ConstantsTyped
<1>4. Grows /\ (skill' = skill \/ (Count(p) /\ Allowed(k, o)))
  BY <1>1, <1>2, <1>3, ApplyGrows
<1>5. PICK run : Fresh(run) /\ job' = [job EXCEPT ![p] = run]
  BY <1>1, ContinueStarts DEF Detected
<1>6. /\ job'[p].at \notin {"apply", "insert"}
      /\ \A q \in Program \ {p} : job'[q] = job[q]
  BY <1>5, FreshTyped DEF Fresh
<1>7. \A s \in Skill : GoodRow(skill'[s], Bound(s)', failures'[s])
  <2>1. CASE skill' = skill
    <3> SUFFICES ASSUME NEW s \in Skill PROVE GoodRow(skill[s], Bound(s)', failures'[s])
      BY <2>1
    <3>1. skill[s] \in StateRow /\ GoodRow(skill[s], Bound(s), failures[s])
      BY DEF TypeInv, Typed, CountInv, GoodRows
    <3> QED BY <1>4, <3>1, RowKept DEF Grows
  <2>2. CASE Count(p) /\ Allowed(k, o)
    BY <1>1, <1>2, <1>3, <1>4, <2>2, CountGood
  <2> QED BY <1>4, <2>1, <2>2
<1>8. ASSUME NEW q \in Program, job'[q].at = "apply" PROVE GoodFor(job[q].read, Current(q))'
  <2>1. q # p /\ job'[q] = job[q] /\ job[q].at = "apply"
    BY <1>6, <1>8
  <2>2. PICK s \in Skill : s = SkillOf[Current(q)] /\ s = SkillOf[Current(q)']
    BY <2>1, CurrentTyped DEF Current, Detected
  <2>3. GoodRow(job[q].read, Bound(s), failures[s]) /\ job[q].read \in StateRow
    BY <2>1, <2>2 DEF CountInv, GoodRows, GoodFor, TypeInv, Typed, Run
  <2>4. GoodRow(job[q].read, Bound(s)', failures'[s])
    BY <1>4, <2>3, RowKept DEF Grows
  <2>5. Bound(SkillOf[Current(q)])' = Bound(s)'
    BY <2>2
  <2> QED BY <2>1, <2>2, <2>4, <2>5 DEF GoodFor
<1>9. ASSUME NEW u \in User, act'[u].at = "upsert" PROVE GoodFor(act[u].read, act[u].obs)'
  <2>1. PICK s \in Skill : s = SkillOf[act[u].obs]
    BY <1>1, <1>9, ConstantsTyped DEF TypeInv, Working
  <2>2. GoodRow(act[u].read, Bound(s), failures[s]) /\ act[u].read \in StateRow
    BY <1>1, <1>9, <2>1 DEF CountInv, GoodRows, GoodFor, TypeInv, Typed, Act
  <2>3. GoodRow(act[u].read, Bound(s)', failures'[s])
    BY <1>4, <2>2, RowKept DEF Grows
  <2>4. Bound(SkillOf[act[u].obs])' = Bound(s)'
    BY <1>1, <2>1
  <2> QED BY <1>1, <2>1, <2>3, <2>4 DEF GoodFor
<1>10. GoodRows'
  BY <1>7, <1>8, <1>9 DEF GoodRows
<1>11. \A q \in Program : job'[q].at = "insert" => job[q].at = "insert" /\ job'[q] = job[q]
  BY <1>6
<1>12. Lessons'
  BY <1>1, <1>4, <1>11, LessonsStay
<1> QED BY <1>10, <1>12 DEF CountInv

LEMMA CountAccept ==
  ASSUME TypeInv, CountInv, NEW u \in User, AcceptUpserts(u)
  PROVE  CountInv'
<1>1. /\ act[u].at = "upsert" /\ UNCHANGED <<marked, uncounted, recounted>> /\ job' = job /\ items' = items
      /\ skill' = [skill EXCEPT ![SkillOf[act[u].obs]] = Evaluate(act[u].read, Acceptance(act[u].read))]
      /\ act' = [act EXCEPT ![u].at = "update"]
  BY DEF AcceptUpserts, history
<1>2. Grows /\ (\A s \in Skill : Bound(s)' = Bound(s)) /\ failures' = failures
  BY <1>1, NothingCounted
<1>3. /\ \A v \in User \ {u} : act'[v] = act[v]
      /\ act'[u].at = "update" /\ act'[u].obs = act[u].obs
  BY <1>1 DEF TypeInv, Typed, Act
<1>4. PICK k \in Skill : k = SkillOf[act[u].obs]
  BY <1>1, ConstantsTyped DEF TypeInv, Working
<1>5. GoodRow(act[u].read, Bound(k), failures[k]) /\ act[u].read \in StateRow
  BY <1>1, <1>4 DEF CountInv, GoodRows, GoodFor, TypeInv, Typed, Act
<1>6. GoodRow(Evaluate(act[u].read, Acceptance(act[u].read)), Bound(k), failures[k])
  BY <1>5, RowAccepted
<1>7. ASSUME NEW s \in Skill PROVE GoodRow(skill'[s], Bound(s)', failures'[s])
  <2>1. GoodRow(skill[s], Bound(s), failures[s])
    BY DEF CountInv, GoodRows
  <2>2. CASE s = k
    <3>1. skill'[s] = Evaluate(act[u].read, Acceptance(act[u].read))
      BY <1>1, <1>4, <2>2 DEF TypeInv, Typed
    <3> QED BY <1>2, <1>6, <2>2, <3>1
  <2>3. CASE s # k
    <3>1. skill'[s] = skill[s]
      BY <1>1, <1>4, <2>3 DEF TypeInv, Typed
    <3> QED BY <1>2, <2>1, <3>1
  <2> QED BY <2>2, <2>3
<1>8. ASSUME NEW q \in Program, job'[q].at = "apply" PROVE GoodFor(job[q].read, Current(q))'
  <2>1. job'[q] = job[q] /\ job[q].at = "apply" /\ Current(q)' = Current(q)
    BY <1>1, <1>8 DEF Current
  <2>2. PICK s \in Skill : s = SkillOf[Current(q)]
    BY <2>1, CurrentTyped DEF Detected
  <2>3. GoodRow(job[q].read, Bound(s), failures[s])
    BY <2>1, <2>2 DEF CountInv, GoodRows, GoodFor
  <2>4. Bound(SkillOf[Current(q)])' = Bound(s)'
    BY <2>1, <2>2
  <2> QED BY <1>2, <2>1, <2>2, <2>3, <2>4 DEF GoodFor
<1>9. ASSUME NEW v \in User, act'[v].at = "upsert" PROVE GoodFor(act[v].read, act[v].obs)'
  <2>1. act'[v] = act[v] /\ act[v].at = "upsert"
    BY <1>3, <1>9
  <2>2. PICK s \in Skill : s = SkillOf[act[v].obs]
    BY <2>1, ConstantsTyped DEF TypeInv, Working
  <2>3. GoodRow(act[v].read, Bound(s), failures[s])
    BY <2>1, <2>2 DEF CountInv, GoodRows, GoodFor
  <2>4. Bound(SkillOf[act[v].obs])' = Bound(s)'
    BY <2>1, <2>2
  <2> QED BY <1>2, <2>1, <2>2, <2>3, <2>4 DEF GoodFor
<1>10. GoodRows'
  BY <1>7, <1>8, <1>9 DEF GoodRows
<1>11. /\ \A q \in Program : job'[q] = job[q]
       /\ \A v \in User : act'[v].at # "idle" => act[v].at # "idle" /\ act'[v].obs = act[v].obs
  BY <1>1, <1>3
<1>12. Lessons'
  BY <1>1, <1>2, <1>11, LessonsStay
<1> QED BY <1>10, <1>12 DEF CountInv

LEMMA CountStep == TypeInv /\ CountInv /\ [Next]_vars => CountInv'
<1> SUFFICES ASSUME TypeInv, CountInv, [Next]_vars PROVE CountInv'
  OBVIOUS
<1> USE DEF tables, history
<1>1. ASSUME NEW mode \in Mode, Starts(mode) PROVE CountInv'
  <2>1. PICK p \in Program : \E todo : Begin(p, todo, mode)
    BY <1>1, StartsBegin
  <2>2. /\ UNCHANGED <<skill, marked, recounted, uncounted, items, act>>
        /\ \E run : Fresh(run) /\ job' = [job EXCEPT ![p] = run]
    BY <2>1, BeginStarts DEF TypeInv
  <2>3. job'[p].at \notin {"apply", "insert"} /\ \A q \in Program \ {p} : job'[q] = job[q]
    BY <2>2, FreshTyped DEF Fresh
  <2> QED BY <2>2, <2>3, CountStays
<1>2. ASSUME NEW p \in Program, InsertObservation(p) \/ AddEvidence(p) \/ ListEvidence(p) \/ AddProvenance(p)
      PROVE  CountInv'
  <2>1. PICK at \in {"evidence", "listed", "provenance", "state"} : job' = [job EXCEPT ![p].at = at]
    BY <1>2 DEF InsertObservation, AddEvidence, ListEvidence, AddProvenance, GoTo
  <2>2. UNCHANGED <<skill, marked, recounted, uncounted, items, act>>
    BY <1>2 DEF InsertObservation, AddEvidence, ListEvidence, AddProvenance
  <2>3. at \in Stage
    BY DEF Stage
  <2>4. job'[p].at \notin {"apply", "insert"} /\ \A q \in Program \ {p} : job'[q] = job[q]
    BY <2>1, <2>3, MovedTyped DEF TypeInv
  <2> QED BY <2>2, <2>4, CountStays
<1>3. ASSUME NEW p \in Program, GetSkillState(p) PROVE CountInv'
  <2>1. /\ UNCHANGED <<skill, marked, uncounted, recounted>> /\ items' = items /\ act' = act
        /\ job[p].at = "state"
    BY <1>3 DEF GetSkillState, At
  <2>2. /\ job'[p].at = "apply" /\ job'[p].todo = job[p].todo /\ job'[p].read = skill[SkillOf[Current(p)]]
        /\ \A q \in Program \ {p} : job'[q] = job[q]
    BY <1>3 DEF GetSkillState, TypeInv, Typed, Run
  <2>3. Current(p)' = Current(p) /\ Current(p) \in Obs
    BY <2>1, <2>2, CurrentTyped DEF Current, Detected
  <2>4. GoodRows'
    BY <2>1, <2>2, <2>3, RowsStay DEF CountInv
  <2>5. Grows /\ \A q \in Program : job'[q].at = "insert" => job[q].at = "insert" /\ job'[q] = job[q]
    BY <2>1, <2>2, NothingCounted
  <2>6. Lessons'
    BY <2>1, <2>5, LessonsStay
  <2> QED BY <2>4, <2>6 DEF CountInv
<1>4. ASSUME NEW p \in Program, ApplyState(p) PROVE CountInv'
  BY <1>4, CountApply
<1>5. ASSUME NEW p \in Program, ListObservations(p) \/ ListItems(p) \/ RunFails(p) PROVE CountInv'
  <2>1. UNCHANGED <<skill, marked, recounted, uncounted, items, act>>
    BY <1>5 DEF ListObservations, ListItems, RunFails
  <2>2. job'[p].at \in {"items", "idle", "queue"} /\ \A q \in Program \ {p} : job'[q] = job[q]
    <3>1. CASE ListObservations(p)
      BY <3>1 DEF ListObservations, TypeInv, Typed, Run
    <3>2. CASE ListItems(p)
      BY <3>2 DEF ListItems, TypeInv, Typed, Run, Idle
    <3>3. CASE RunFails(p)
      BY <3>3 DEF RunFails, TypeInv, Typed, Idle
    <3> QED BY <1>5, <3>1, <3>2, <3>3
  <2> QED BY <2>1, <2>2, CountStays
<1>6. ASSUME NEW p \in Program, NEW o \in Obs, Consider(p, o) PROVE CountInv'
  <2>1. /\ UNCHANGED <<skill, marked, uncounted, recounted>> /\ items' = items /\ act' = act
    BY <1>6 DEF Consider
  <2>2. CASE skill[SkillOf[o]].state = "suspected_gap"
    <3>1. job' = [job EXCEPT ![p] = [job[p] EXCEPT !.at = "insert", !.todo = <<o>>]]
      BY <1>6, <2>2 DEF Consider
    <3>2. job'[p].at = "insert" /\ job'[p].todo = <<o>> /\ \A q \in Program \ {p} : job'[q] = job[q]
      BY <3>1 DEF TypeInv, Typed, Run
    <3>3. Current(p)' = o
      BY <3>2 DEF Current
    <3>4. GoodRows'
      BY <2>1, <3>2, RowsStay DEF CountInv
    <3>5. Grows
      BY <2>1, NothingCounted
    <3>6. Lessons'
      BY <2>1, <2>2, <3>2, <3>3, <3>5, LessonsStay
    <3> QED BY <3>4, <3>6 DEF CountInv
  <2>3. CASE skill[SkillOf[o]].state # "suspected_gap"
    <3> DEFINE next == IF job[p].left = {o} THEN Idle ELSE [job[p] EXCEPT !.left = job[p].left \ {o}]
    <3>1. job' = [job EXCEPT ![p] = next]
      BY <1>6, <2>3 DEF Consider
    <3>2. job[p] \in Run /\ job[p].at = "queue"
      BY <1>6 DEF Consider, At, TypeInv, Typed
    <3>3. next.at \in {"idle", "queue"}
      BY <3>2 DEF Run, Idle
    <3> HIDE DEF next
    <3>4. job'[p].at \in {"idle", "queue"} /\ \A q \in Program \ {p} : job'[q] = job[q]
      BY <3>1, <3>3 DEF TypeInv, Typed
    <3> QED BY <2>1, <3>4, CountStays
  <2> QED BY <2>2, <2>3
<1>7. ASSUME NEW p \in Program, InsertCoachingItem(p) PROVE CountInv'
  <2>1. /\ UNCHANGED <<skill, marked, uncounted, recounted>> /\ act' = act /\ job[p].at = "insert"
        /\ \A o \in Obs : items'[o] # NoItem => items[o] # NoItem \/ Current(p) = o
    BY <1>7 DEF InsertCoachingItem, At, TypeInv, Typed
  <2>2. job'[p].at \in {"idle", "queue"} /\ \A q \in Program \ {p} : job'[q] = job[q]
    <3> DEFINE next == IF job[p].left = {Current(p)} THEN Idle
                       ELSE [job[p] EXCEPT !.at = "queue", !.todo = <<>>, !.left = job[p].left \ {Current(p)}]
    <3>1. job' = [job EXCEPT ![p] = next]
      BY <1>7 DEF InsertCoachingItem
    <3>2. next.at \in {"idle", "queue"}
      <4>1. job[p] \in Run
        BY DEF TypeInv, Typed
      <4> QED BY <4>1 DEF Run, Idle
    <3> HIDE DEF next
    <3> QED BY <3>1, <3>2 DEF TypeInv, Typed
  <2>3. GoodRows'
    BY <2>1, <2>2, RowsStay DEF CountInv
  <2>4. Grows
    BY <2>1, NothingCounted
  <2>5. Lessons'
    BY <2>1, <2>2, <2>4, LessonsStay
  <2> QED BY <2>3, <2>5 DEF CountInv
<1>8. ASSUME NEW u \in User, NEW o \in Obs, NEW doing \in Command, ReadItem(u, o, doing) PROVE CountInv'
  <2>1. /\ UNCHANGED <<skill, marked, recounted, uncounted, job>> /\ items' = items
        /\ items[o] # NoItem
    BY <1>8 DEF ReadItem, NoItem, Open
  <2>2. act'[u].obs = o /\ act'[u].at # "upsert" /\ \A v \in User \ {u} : act'[v] = act[v]
    BY <1>8 DEF ReadItem, TypeInv, Typed
  <2> QED BY <2>1, <2>2, CommandStays
<1>9. ASSUME NEW u \in User, AcceptReads(u) PROVE CountInv'
  <2>1. /\ UNCHANGED <<skill, marked, uncounted, recounted>> /\ items' = items /\ job' = job
        /\ act[u].at = "state" /\ act[u] \in Act /\ act[u].obs \in Obs
    BY <1>9 DEF AcceptReads, TypeInv, Typed, Working
  <2>2. /\ \A v \in User \ {u} : act'[v] = act[v]
        /\ \/ act'[u].at = "idle"
           \/ act'[u].obs = act[u].obs /\ act'[u].read = skill[SkillOf[act[u].obs]]
    <3>1. CASE skill[SkillOf[act[u].obs]] = NoState
      BY <1>9, <3>1 DEF AcceptReads, TypeInv, Typed, NoAct
    <3>2. CASE skill[SkillOf[act[u].obs]] # NoState
      BY <1>9, <2>1, <3>2 DEF AcceptReads, TypeInv, Typed, Act
    <3> QED BY <3>1, <3>2
  <2>3. \A q \in Program : job'[q] = job[q]
    BY <2>1
  <2>4. GoodRows'
    BY <2>1, <2>2, <2>3, RowsStay DEF CountInv
  <2>5. Grows
    BY <2>1, NothingCounted
  <2>6. Lessons'
    BY <2>1, <2>2, <2>3, <2>5, LessonsStay
  <2> QED BY <2>4, <2>6 DEF CountInv
<1>10. ASSUME NEW u \in User, AcceptUpserts(u) PROVE CountInv'
  BY <1>10, CountAccept
<1>11. ASSUME NEW u \in User, UpdateCoachingItem(u) \/ CommandFails(u) PROVE CountInv'
  <2>1. UNCHANGED <<skill, marked, recounted, uncounted, job>>
    BY <1>11 DEF UpdateCoachingItem, CommandFails
  <2>2. act'[u].at = "idle"
    BY <1>11 DEF UpdateCoachingItem, CommandFails, TypeInv, Typed, NoAct
  <2>5. \A v \in User \ {u} : act'[v] = act[v]
    BY <1>11 DEF UpdateCoachingItem, CommandFails, TypeInv, Typed
  <2>6. act'[u].at = "idle" \/ (act'[u].obs \in Obs /\ items[act'[u].obs] # NoItem)
    BY <2>2
  <2>3. \A o \in Obs : items'[o] # NoItem =>
          items[o] # NoItem \/ \E v \in User : act[v].at # "idle" /\ act[v].obs = o
    BY <1>11 DEF UpdateCoachingItem, CommandFails, TypeInv, Typed
  <2>4. act'[u].at # "upsert"
    BY <2>2
  <2> QED BY <2>1, <2>3, <2>4, <2>5, <2>6, CommandStays
<1>12. ASSUME UNCHANGED <<skill, marked, recounted, uncounted, items, act, job>> PROVE CountInv'
  <2>1. /\ UNCHANGED <<skill, marked, uncounted, recounted>> /\ items' = items
        /\ (\A q \in Program : job'[q] = job[q]) /\ (\A u \in User : act'[u] = act[u])
    BY <1>12
  <2>2. GoodRows'
    BY <2>1, RowsStay DEF CountInv
  <2>3. Grows
    BY <2>1, NothingCounted
  <2>4. Lessons'
    BY <2>1, <2>3, LessonsStay
  <2> QED BY <2>2, <2>4 DEF CountInv
<1>13. ASSUME NEW s \in Session, SessionCompletes(s)
       PROVE  UNCHANGED <<skill, marked, recounted, uncounted, items, act, job>>
  BY <1>13 DEF SessionCompletes
<1>14. UNCHANGED vars => UNCHANGED <<skill, marked, recounted, uncounted, items, act, job>>
  BY DEF vars
<1> QED BY <1>1, <1>2, <1>3, <1>4, <1>5, <1>6, <1>7, <1>8, <1>9, <1>10, <1>11, <1>12, <1>13,
           <1>14 DEF Next, Saves, Queues, Resolves

LEMMA CountAlways == Spec => []CountInv
<1>1. TypeInv /\ CountInv /\ [Next]_vars => CountInv'
  BY CountStep
<1> QED BY CountInit, <1>1, TypeAlways, PTL DEF Spec

\* However the programs retry, race and fail, no skill counts more applications
\* than observations carry the processing marker, but for those written without
\* one (ApplySkillStateOnce).
THEOREM CountedCorrect == Spec => []CountedOnce
<1>1. CountInv => CountedOnce
  BY DEF CountInv, GoodRows, GoodRow, Bound, CountedOnce
<1> QED BY <1>1, CountAlways, PTL

\* What counts with the processing marker makes a lesson only when two different
\* observations failed, however the runs retry, race and fail and however old the
\* state from which the lesson was queued; a command that keeps no marker may count
\* one observation again (ApplySkillStateOnce, UpsertSkillState, QueueEligible).
THEOREM LessonCorrect == Spec => []LessonIsRepeated
<1>1. CountInv => LessonIsRepeated
  BY DEF CountInv, Lessons, LessonIsRepeated
<1> QED BY <1>1, CountAlways, PTL

(* -------------------------- what is shown again ------------------------ *)

\* What a run is about to queue was not suppressed in the items it listed.
Unknown(run) ==
  /\ run.at \in {"queue", "insert"} => \A o \in run.left : SkillOf[o] \notin run.known
  /\ run.at = "insert" => SkillOf[Head(run.todo)] \notin run.known

\* A command holds a copy of an open item, and no item is ever deleted.
NeverInv ==
  /\ \A p \in Program : Unknown(job[p])
  /\ \A u \in User :
       act[u].at # "idle" => act[u].item.status \in Open /\ items[act[u].obs] # NoItem

\* What NeverShownAgain says of one step and one observation.
Shown(o) ==
  /\ items[o] = NoItem /\ items'[o] # NoItem =>
       \E p \in Program : /\ job[p].at = "insert" /\ Current(p) = o
                          /\ SkillOf[o] \notin job[p].known
  /\ items[o] # NoItem /\ items[o].status \notin Open /\ items'[o] # items[o] =>
       \E u \in User : act[u].obs = o /\ act[u].item.status \in Open

LEMMA NeverInit == Init => NeverInv
  BY DEF Init, NeverInv, Unknown, Idle, NoAct

\* A step of one program that leaves the items alone.
LEMMA RunStays ==
  ASSUME NeverInv, items' = items, act' = act, NEW p \in Program, Unknown(job'[p]),
         \A q \in Program \ {p} : job'[q] = job[q]
  PROVE  NeverInv'
<1>1. ASSUME NEW q \in Program PROVE Unknown(job'[q])
  <2>1. CASE q = p
    BY <2>1
  <2>2. CASE q # p
    BY <2>2 DEF NeverInv
  <2> QED BY <2>1, <2>2
<1>2. \A q \in Program : Unknown(job[q])'
  BY <1>1 DEF Unknown
<1> QED BY <1>2 DEF NeverInv

\* A step of one command that deletes no item.
LEMMA ActStays ==
  ASSUME NeverInv, job' = job, NEW u \in User,
         \A o \in Obs : items[o] # NoItem => items'[o] # NoItem,
         \A v \in User : act[v].at # "idle" => act[v].obs \in Obs,
         \A v \in User \ {u} : act'[v] = act[v],
         act'[u].at # "idle" => act'[u].item.status \in Open /\ items'[act'[u].obs] # NoItem
  PROVE  NeverInv'
<1>1. \A q \in Program : Unknown(job[q])'
  BY DEF NeverInv, Unknown
<1>2. ASSUME NEW v \in User, act'[v].at # "idle"
      PROVE  act'[v].item.status \in Open /\ items'[act'[v].obs] # NoItem
  <2>1. CASE v = u
    BY <1>2, <2>1
  <2>2. CASE v # u
    BY <1>2, <2>2 DEF NeverInv
  <2> QED BY <2>1, <2>2
<1> QED BY <1>1, <1>2 DEF NeverInv

LEMMA NeverInsert ==
  ASSUME TypeInv, NeverInv, NEW p \in Program, InsertCoachingItem(p)
  PROVE  NeverInv' /\ \A o \in Obs : Shown(o)
<1>1. job[p].at = "insert" /\ job[p] \in Run /\ act' = act /\ Current(p) \in Obs
  BY CurrentTyped DEF InsertCoachingItem, At, TypeInv, Typed, Detected
<1>2. /\ \A o \in Obs : items[o] # NoItem => items'[o] = items[o]
      /\ \A o \in Obs : items'[o] # items[o] => o = Current(p)
  BY <1>1 DEF InsertCoachingItem, TypeInv, Typed
<1> DEFINE next == IF job[p].left = {Current(p)} THEN Idle
                   ELSE [job[p] EXCEPT !.at = "queue", !.todo = <<>>, !.left = job[p].left \ {Current(p)}]
<1>3. job' = [job EXCEPT ![p] = next]
  BY DEF InsertCoachingItem
<1>4. Unknown(job[p]) /\ SkillOf[Current(p)] \notin job[p].known
  BY <1>1 DEF NeverInv, Unknown, Current
<1>5. Unknown(next)
  BY <1>1, <1>4 DEF Unknown, Idle, Run
<1> HIDE DEF next
<1>6. job'[p] = next /\ \A q \in Program \ {p} : job'[q] = job[q]
  BY <1>3 DEF TypeInv, Typed
<1>7. \A q \in Program : Unknown(job[q])'
  <2>1. ASSUME NEW q \in Program PROVE Unknown(job'[q])
    <3>1. CASE q = p
      BY <1>5, <1>6, <3>1
    <3>2. CASE q # p
      BY <1>6, <3>2 DEF NeverInv
    <3> QED BY <3>1, <3>2
  <2> QED BY <2>1 DEF Unknown
<1>8. ASSUME NEW u \in User, act'[u].at # "idle"
      PROVE  act'[u].item.status \in Open /\ items'[act'[u].obs] # NoItem
  BY <1>1, <1>2, <1>8 DEF NeverInv, TypeInv, Working
<1>9. NeverInv'
  BY <1>7, <1>8 DEF NeverInv
<1>10. \A o \in Obs : Shown(o)
  BY <1>1, <1>2, <1>4 DEF Shown
<1> QED BY <1>9, <1>10

LEMMA NeverUpdate ==
  ASSUME TypeInv, NeverInv, NEW u \in User, UpdateCoachingItem(u)
  PROVE  NeverInv' /\ \A o \in Obs : Shown(o)
<1>1. /\ act[u].at = "update" /\ act[u] \in Act /\ act[u].obs \in Obs /\ act[u].doing # "none"
      /\ job' = job /\ act' = [act EXCEPT ![u] = NoAct]
      /\ items' = [items EXCEPT ![act[u].obs] = Resolved(act[u].item, act[u].doing)]
  BY DEF UpdateCoachingItem, TypeInv, Typed, Working
<1>2. act[u].item.status \in Open /\ items[act[u].obs] # NoItem
  BY <1>1 DEF NeverInv
<1>3. Resolved(act[u].item, act[u].doing) # NoItem
  <2>1. act[u].item \in ItemRow /\ act[u].doing \in {"accept", "defer", "dismiss", "never"}
    BY <1>1 DEF Act
  <2>2. Resolved(act[u].item, act[u].doing).status \in {"accepted", "deferred", "dismissed"}
    BY <2>1 DEF Resolved, ItemRow
  <2> QED BY <2>2 DEF NoItem
<1>4. /\ \A o \in Obs : items[o] # NoItem => items'[o] # NoItem
      /\ \A o \in Obs : items'[o] # items[o] => o = act[u].obs
  BY <1>1, <1>3 DEF TypeInv, Typed
<1>5. act'[u].at = "idle" /\ \A v \in User \ {u} : act'[v] = act[v]
  BY <1>1 DEF TypeInv, Typed, NoAct
<1>6. NeverInv'
  BY <1>1, <1>4, <1>5, ActStays DEF TypeInv, Working
<1>7. \A o \in Obs : Shown(o)
  BY <1>2, <1>4 DEF Shown
<1> QED BY <1>6, <1>7

LEMMA NeverStep == TypeInv /\ NeverInv /\ [Next]_vars => NeverInv' /\ \A o \in Obs : Shown(o)
<1> SUFFICES ASSUME TypeInv, NeverInv, [Next]_vars PROVE NeverInv' /\ \A o \in Obs : Shown(o)
  OBVIOUS
<1> USE DEF tables, history
<1>1. items' = items => \A o \in Obs : Shown(o)
  BY DEF Shown
<1>2. ASSUME NEW mode \in Mode, Starts(mode) PROVE NeverInv' /\ items' = items
  <2>1. PICK p \in Program : \E todo : Begin(p, todo, mode)
    BY <1>2, StartsBegin
  <2>2. PICK run : Fresh(run) /\ job' = [job EXCEPT ![p] = run] /\ items' = items /\ act' = act
    BY <2>1, BeginStarts DEF TypeInv
  <2>3. job'[p] = run /\ Unknown(run) /\ \A q \in Program \ {p} : job'[q] = job[q]
    BY <2>2, FreshTyped DEF Fresh, Unknown
  <2> QED BY <2>2, <2>3, RunStays
<1>3. ASSUME NEW p \in Program, InsertObservation(p) \/ AddEvidence(p) \/ ListEvidence(p) \/ AddProvenance(p)
      PROVE  NeverInv' /\ items' = items
  <2>1. PICK at \in {"evidence", "listed", "provenance", "state"} : job' = [job EXCEPT ![p].at = at]
    BY <1>3 DEF InsertObservation, AddEvidence, ListEvidence, AddProvenance, GoTo
  <2>2. items' = items /\ act' = act
    BY <1>3 DEF InsertObservation, AddEvidence, ListEvidence, AddProvenance
  <2>3. at \in Stage
    BY DEF Stage
  <2>4. job'[p].at = at /\ \A q \in Program \ {p} : job'[q] = job[q]
    BY <2>1, <2>3, MovedTyped DEF TypeInv
  <2>5. Unknown(job'[p])
    BY <2>4 DEF Unknown
  <2> QED BY <2>2, <2>4, <2>5, RunStays
<1>4. ASSUME NEW p \in Program, GetSkillState(p) \/ ListObservations(p) \/ RunFails(p)
      PROVE  NeverInv' /\ items' = items
  <2>1. items' = items /\ act' = act
    BY <1>4 DEF GetSkillState, ListObservations, RunFails
  <2>2. job'[p].at \in {"apply", "items", "idle"} /\ \A q \in Program \ {p} : job'[q] = job[q]
    <3>1. CASE GetSkillState(p)
      BY <3>1 DEF GetSkillState, TypeInv, Typed, Run
    <3>2. CASE ListObservations(p)
      BY <3>2 DEF ListObservations, TypeInv, Typed, Run
    <3>3. CASE RunFails(p)
      BY <3>3 DEF RunFails, TypeInv, Typed, Idle
    <3> QED BY <1>4, <3>1, <3>2, <3>3
  <2>3. Unknown(job'[p])
    BY <2>2 DEF Unknown
  <2> QED BY <2>1, <2>2, <2>3, RunStays
<1>5. ASSUME NEW p \in Program, ApplyState(p) PROVE NeverInv' /\ items' = items
  <2>1. job[p].at = "apply" /\ Continue(p) /\ act' = act /\ items' = items
    BY <1>5 DEF ApplyState, At
  <2>2. PICK run : Fresh(run) /\ job' = [job EXCEPT ![p] = run]
    BY <2>1, ContinueStarts DEF Detected
  <2>3. job'[p] = run /\ Unknown(run) /\ \A q \in Program \ {p} : job'[q] = job[q]
    BY <2>2, FreshTyped DEF Fresh, Unknown
  <2> QED BY <2>1, <2>3, RunStays
<1>6. ASSUME NEW p \in Program, ListItems(p) PROVE NeverInv' /\ items' = items
  <2> DEFINE left == {o \in job[p].left : items[o] = NoItem /\ SkillOf[o] \notin Suppressed}
             next == IF left = {} THEN Idle
                     ELSE [job[p] EXCEPT !.at = "queue", !.left = left, !.known = Suppressed]
  <2>1. job' = [job EXCEPT ![p] = next] /\ act' = act /\ items' = items
    BY <1>6 DEF ListItems
  <2>2. Unknown(next)
    <3>1. Idle.at = "idle" /\ job[p] \in Run /\ \A o \in left : SkillOf[o] \notin Suppressed
      BY DEF Idle, TypeInv, Typed
    <3> HIDE DEF left
    <3> QED BY <3>1 DEF Unknown, Run
  <2> HIDE DEF next
  <2>3. job'[p] = next /\ \A q \in Program \ {p} : job'[q] = job[q]
    BY <2>1 DEF TypeInv, Typed
  <2> QED BY <2>1, <2>2, <2>3, RunStays
<1>7. ASSUME NEW p \in Program, NEW o \in Obs, Consider(p, o) PROVE NeverInv' /\ items' = items
  <2>1. /\ items' = items /\ act' = act /\ job[p] \in Run /\ job[p].at = "queue"
        /\ o \in job[p].left /\ Unknown(job[p])
    BY <1>7 DEF Consider, At, TypeInv, Typed, NeverInv
  <2> DEFINE found == [job[p] EXCEPT !.at = "insert", !.todo = <<o>>]
             next == IF job[p].left = {o} THEN Idle ELSE [job[p] EXCEPT !.left = job[p].left \ {o}]
  <2>2. Unknown(found)
    <3>1. found.at = "insert" /\ Head(found.todo) = o /\ found.left = job[p].left /\ found.known = job[p].known
      BY <2>1 DEF Run
    <3> HIDE DEF found
    <3> QED BY <2>1, <3>1 DEF Unknown
  <2>3. Unknown(next)
    BY <2>1 DEF Unknown, Idle, Run
  <2>4. PICK run \in {found, next} : job' = [job EXCEPT ![p] = run]
    BY <1>7, Zenon DEF Consider
  <2> HIDE DEF found, next
  <2>5. job'[p] = run /\ \A q \in Program \ {p} : job'[q] = job[q]
    BY <2>4 DEF TypeInv, Typed
  <2>6. Unknown(run)
    BY <2>2, <2>3
  <2> QED BY <2>1, <2>5, <2>6, RunStays
<1>8. ASSUME NEW u \in User, act'[u].at # "idle" => act'[u].item.status \in Open /\ items[act'[u].obs] # NoItem,
             job' = job, items' = items, \A v \in User \ {u} : act'[v] = act[v]
      PROVE  NeverInv'
  BY <1>8, ActStays DEF TypeInv, Working
<1>9. ASSUME NEW u \in User, NEW o \in Obs, NEW doing \in Command, ReadItem(u, o, doing)
      PROVE  NeverInv' /\ items' = items
  <2>1. job' = job /\ items' = items /\ items[o].status \in Open /\ items[o] # NoItem
    BY <1>9 DEF ReadItem, NoItem, Open
  <2>2. act'[u].obs = o /\ act'[u].item = items[o] /\ \A v \in User \ {u} : act'[v] = act[v]
    BY <1>9 DEF ReadItem, TypeInv, Typed
  <2> QED BY <1>8, <2>1, <2>2
<1>10. ASSUME NEW u \in User, AcceptReads(u) \/ AcceptUpserts(u) PROVE NeverInv' /\ items' = items
  <2>1. job' = job /\ items' = items /\ act[u].at \in {"state", "upsert"} /\ act[u] \in Act
    BY <1>10 DEF AcceptReads, AcceptUpserts, TypeInv, Typed
  <2>2. /\ \A v \in User \ {u} : act'[v] = act[v]
        /\ act'[u].at # "idle" => act'[u].item = act[u].item /\ act'[u].obs = act[u].obs
    <3>1. CASE AcceptReads(u) /\ skill[SkillOf[act[u].obs]] = NoState
      BY <3>1 DEF AcceptReads, TypeInv, Typed, NoAct
    <3>2. CASE AcceptReads(u) /\ skill[SkillOf[act[u].obs]] # NoState
      BY <2>1, <3>2 DEF AcceptReads, TypeInv, Typed, Act
    <3>3. CASE AcceptUpserts(u)
      BY <2>1, <3>3 DEF AcceptUpserts, TypeInv, Typed, Act
    <3> QED BY <1>10, <3>1, <3>2, <3>3
  <2>3. act[u].item.status \in Open /\ items[act[u].obs] # NoItem
    BY <2>1 DEF NeverInv
  <2> QED BY <1>8, <2>1, <2>2, <2>3
<1>11. ASSUME NEW u \in User, CommandFails(u) PROVE NeverInv' /\ items' = items
  <2>1. /\ job' = job /\ items' = items /\ act'[u].at = "idle"
        /\ \A v \in User \ {u} : act'[v] = act[v]
    BY <1>11 DEF CommandFails, TypeInv, Typed, NoAct
  <2> QED BY <1>8, <2>1
<1>12. ASSUME NEW s \in Session, SessionCompletes(s) PROVE NeverInv' /\ items' = items
  BY <1>12 DEF SessionCompletes, NeverInv, Unknown
<1>13. CASE UNCHANGED vars
  BY <1>1, <1>13 DEF vars, NeverInv, Unknown
<1> QED BY <1>1, <1>2, <1>3, <1>4, <1>5, <1>6, <1>7, <1>9, <1>10, <1>11, <1>12, <1>13,
           NeverInsert, NeverUpdate DEF Next, Saves, Queues, Resolves

LEMMA NeverAlways == Spec => []NeverInv
<1>1. TypeInv /\ NeverInv /\ [Next]_vars => NeverInv'
  BY NeverStep
<1> QED BY NeverInit, <1>1, TypeAlways, PTL DEF Spec

\* A lesson appears only for a skill that was not suppressed in the items its
\* run listed, and a closed item changes only through a command that read it
\* open (QueueEligible, requireOpenItem, UpdateCoachingItem).
THEOREM NeverCorrect == Spec => NeverShownAgain
<1>1. TypeInv /\ NeverInv /\ [Next]_vars =>
        [\A o \in Obs :
           /\ items[o] = NoItem /\ items'[o] # NoItem =>
                \E p \in Program : /\ job[p].at = "insert" /\ Current(p) = o
                                   /\ SkillOf[o] \notin job[p].known
           /\ items[o] # NoItem /\ items[o].status \notin Open /\ items'[o] # items[o] =>
                \E u \in User : act[u].obs = o /\ act[u].item.status \in Open]_vars
  BY NeverStep DEF Shown
<1> QED BY <1>1, TypeAlways, NeverAlways, PTL DEF Spec, NeverShownAgain

(* ------------------------- what is evidenced --------------------------- *)

\* What is recorded of the observation a run works on, stage by stage.
Recorded(p) ==
  /\ job[p].at \in {"evidence", "listed", "provenance", "state", "apply"}
       => Current(p) \in observations
  /\ job[p].at \in {"listed", "provenance", "state", "apply"} => Current(p) \in evidence
  /\ job[p].at \in {"state", "apply"} => provenance[Current(p)] # {}

EvidenceInv ==
  /\ provenance \in [Obs -> SUBSET {"live", "backfill"}]
  /\ \A o \in marked : o \in observations /\ o \in evidence /\ provenance[o] # {}
  /\ \A p \in Program : Recorded(p)

LEMMA EvidenceInit == Init => EvidenceInv
  BY DEF Init, EvidenceInv, Recorded, Idle

\* Nothing recorded is ever taken back.
LEMMA EvidenceStays ==
  ASSUME TypeInv, EvidenceInv, observations \subseteq observations', evidence \subseteq evidence',
         provenance' \in [Obs -> SUBSET {"live", "backfill"}],
         \A o \in Obs : provenance[o] # {} => provenance'[o] # {},
         \A o \in marked' \ marked : o \in observations /\ o \in evidence /\ provenance[o] # {},
         marked' \subseteq Obs,
         \A q \in Program : job'[q] = job[q] \/ Recorded(q)'
  PROVE  EvidenceInv'
<1>1. ASSUME NEW o \in marked' PROVE o \in observations' /\ o \in evidence' /\ provenance'[o] # {}
  <2>1. o \in Obs /\ o \in observations /\ o \in evidence /\ provenance[o] # {}
    BY <1>1 DEF EvidenceInv
  <2> QED BY <2>1
<1>2. ASSUME NEW q \in Program PROVE Recorded(q)'
  <2>1. CASE job'[q] = job[q]
    <3>1. Current(q)' = Current(q) /\ Recorded(q)
      BY <2>1 DEF Current, EvidenceInv
    <3>2. job[q].at \in {"state", "apply"} => Current(q) \in Obs
      BY CurrentTyped DEF Detected
    <3> QED BY <2>1, <3>1, <3>2 DEF Recorded
  <2> QED BY <1>2, <2>1
<1> QED BY <1>1, <1>2 DEF EvidenceInv

LEMMA EvidenceStep == TypeInv /\ EvidenceInv /\ [Next]_vars => EvidenceInv'
<1> SUFFICES ASSUME TypeInv, EvidenceInv, [Next]_vars PROVE EvidenceInv'
  OBVIOUS
<1> USE DEF tables, history
<1>1. marked \subseteq Obs /\ observations \subseteq Obs
  BY DEF TypeInv, Typed
<1>2. ASSUME NEW p \in Program, UNCHANGED <<observations, evidence, provenance, marked>>,
             \A q \in Program \ {p} : job'[q] = job[q], Recorded(p)'
      PROVE  EvidenceInv'
  BY <1>1, <1>2, EvidenceStays DEF EvidenceInv
<1>3. ASSUME NEW mode \in Mode, Starts(mode) PROVE EvidenceInv'
  <2>1. PICK p \in Program : \E todo : Begin(p, todo, mode)
    BY <1>3, StartsBegin
  <2>2. PICK run : /\ Fresh(run) /\ job' = [job EXCEPT ![p] = run]
                   /\ UNCHANGED <<observations, evidence, provenance, marked>>
    BY <2>1, BeginStarts DEF TypeInv
  <2>3. job'[p].at \in {"save", "idle", "observations"} /\ \A q \in Program \ {p} : job'[q] = job[q]
    BY <2>2, FreshTyped DEF Fresh
  <2> QED BY <1>2, <2>2, <2>3 DEF Recorded
<1>4. ASSUME NEW p \in Program, NEW at \in Stage, job' = [job EXCEPT ![p].at = at]
      PROVE  job'[p].at = at /\ Current(p)' = Current(p) /\ \A q \in Program \ {p} : job'[q] = job[q]
  BY <1>4, MovedTyped DEF TypeInv, Current
<1>5. ASSUME NEW p \in Program, InsertObservation(p) PROVE EvidenceInv'
  <2>1. /\ job' = [job EXCEPT ![p].at = "evidence"] /\ "evidence" \in Stage
        /\ observations' = observations \cup {Current(p)} /\ UNCHANGED <<evidence, provenance, marked>>
    BY <1>5 DEF InsertObservation, GoTo, Stage
  <2>2. /\ job'[p].at = "evidence" /\ Current(p)' = Current(p)
        /\ \A q \in Program \ {p} : job'[q] = job[q]
    BY <1>4, <2>1
  <2>3. Recorded(p)'
    BY <2>1, <2>2 DEF Recorded
  <2> QED BY <1>1, <2>1, <2>2, <2>3, EvidenceStays DEF EvidenceInv
<1>6. ASSUME NEW p \in Program, AddEvidence(p) PROVE EvidenceInv'
  <2>1. /\ job[p].at = "evidence" /\ job' = [job EXCEPT ![p].at = "listed"] /\ "listed" \in Stage
        /\ evidence' = evidence \cup {Current(p)} /\ UNCHANGED <<observations, provenance, marked>>
    BY <1>6 DEF AddEvidence, At, GoTo, Stage
  <2>2. /\ job'[p].at = "listed" /\ Current(p)' = Current(p)
        /\ \A q \in Program \ {p} : job'[q] = job[q]
    BY <1>4, <2>1
  <2>3. Recorded(p)'
    BY <2>1, <2>2 DEF Recorded, EvidenceInv
  <2> QED BY <1>1, <2>1, <2>2, <2>3, EvidenceStays DEF EvidenceInv
<1>7. ASSUME NEW p \in Program, ListEvidence(p) PROVE EvidenceInv'
  <2>1. PICK at \in {"provenance", "state"} :
          /\ job' = [job EXCEPT ![p].at = at]
          /\ at = "state" => provenance[Current(p)] # {}
    BY <1>7 DEF ListEvidence, GoTo
  <2>2. job[p].at = "listed" /\ at \in Stage /\ UNCHANGED <<observations, evidence, provenance, marked>>
    BY <1>7 DEF ListEvidence, At, Stage
  <2>3. /\ job'[p].at = at /\ Current(p)' = Current(p)
        /\ \A q \in Program \ {p} : job'[q] = job[q]
    BY <1>4, <2>1, <2>2
  <2>4. Recorded(p)'
    BY <2>1, <2>2, <2>3 DEF Recorded, EvidenceInv
  <2> QED BY <1>2, <2>2, <2>3, <2>4
<1>8. ASSUME NEW p \in Program, AddProvenance(p) PROVE EvidenceInv'
  <2>1. /\ job[p].at = "provenance" /\ job' = [job EXCEPT ![p].at = "state"] /\ "state" \in Stage
        /\ provenance' = [provenance EXCEPT ![Current(p)] = provenance[Current(p)] \cup {Live(p)}]
        /\ UNCHANGED <<observations, evidence, marked>>
    BY <1>8 DEF AddProvenance, At, GoTo, Stage
  <2>2. /\ job'[p].at = "state" /\ Current(p)' = Current(p)
        /\ \A q \in Program \ {p} : job'[q] = job[q]
    BY <1>4, <2>1
  <2>3. Current(p) \in Obs /\ Live(p) \in {"live", "backfill"}
    BY <2>1, CurrentTyped DEF Detected, Live
  <2>4. /\ provenance' \in [Obs -> SUBSET {"live", "backfill"}]
        /\ \A o \in Obs : provenance[o] # {} => provenance'[o] # {}
        /\ provenance'[Current(p)] # {}
    BY <2>1, <2>3 DEF EvidenceInv
  <2>5. Recorded(p)'
    BY <2>1, <2>2, <2>4 DEF Recorded, EvidenceInv
  <2> QED BY <1>1, <2>1, <2>2, <2>4, <2>5, EvidenceStays
<1>9. ASSUME NEW p \in Program, GetSkillState(p) PROVE EvidenceInv'
  <2>1. /\ job[p].at = "state" /\ UNCHANGED <<observations, evidence, provenance, marked>>
        /\ job'[p].at = "apply" /\ job'[p].todo = job[p].todo
        /\ \A q \in Program \ {p} : job'[q] = job[q]
    BY <1>9 DEF GetSkillState, At, TypeInv, Typed, Run
  <2>2. Recorded(p)'
    BY <2>1 DEF Recorded, Current, EvidenceInv
  <2> QED BY <1>2, <2>1, <2>2
<1>10. ASSUME NEW p \in Program, ApplyState(p) PROVE EvidenceInv'
  <2>1. /\ job[p].at = "apply" /\ Continue(p) /\ UNCHANGED <<observations, evidence, provenance>>
        /\ marked' \subseteq marked \cup {Current(p)}
    BY <1>10 DEF ApplyState, ApplySkillStateOnce, UpsertSkillState, At
  <2>2. PICK run : Fresh(run) /\ job' = [job EXCEPT ![p] = run]
    BY <2>1, ContinueStarts DEF Detected
  <2>3. job'[p].at \in {"save", "idle", "observations"} /\ \A q \in Program \ {p} : job'[q] = job[q]
    BY <2>2, FreshTyped DEF Fresh
  <2>4. /\ Current(p) \in observations /\ Current(p) \in evidence /\ provenance[Current(p)] # {}
        /\ Current(p) \in Obs
    BY <1>1, <2>1 DEF Recorded, EvidenceInv
  <2>5. Recorded(p)'
    BY <2>3 DEF Recorded
  <2>6. /\ marked' \subseteq Obs
        /\ \A o \in marked' \ marked : o \in observations /\ o \in evidence /\ provenance[o] # {}
    BY <1>1, <2>1, <2>4
  <2> QED BY <2>1, <2>3, <2>5, <2>6, EvidenceStays DEF EvidenceInv
<1>11. ASSUME NEW p \in Program, ListObservations(p) \/ ListItems(p) \/ InsertCoachingItem(p) \/ RunFails(p)
       PROVE  EvidenceInv'
  <2>1. UNCHANGED <<observations, evidence, provenance, marked>>
    BY <1>11 DEF ListObservations, ListItems, InsertCoachingItem, RunFails
  <2>2. job'[p].at \in {"items", "idle", "queue"} /\ \A q \in Program \ {p} : job'[q] = job[q]
    <3>1. CASE ListObservations(p)
      BY <3>1 DEF ListObservations, TypeInv, Typed, Run
    <3>2. CASE ListItems(p)
      BY <3>2 DEF ListItems, TypeInv, Typed, Run, Idle
    <3>3. CASE RunFails(p)
      BY <3>3 DEF RunFails, TypeInv, Typed, Idle
    <3>4. CASE InsertCoachingItem(p)
      <4> DEFINE next == IF job[p].left = {Current(p)} THEN Idle
                         ELSE [job[p] EXCEPT !.at = "queue", !.todo = <<>>,
                                             !.left = job[p].left \ {Current(p)}]
      <4>1. job' = [job EXCEPT ![p] = next]
        BY <3>4 DEF InsertCoachingItem
      <4>2. next.at \in {"idle", "queue"}
        BY DEF TypeInv, Typed, Run, Idle
      <4> HIDE DEF next
      <4> QED BY <4>1, <4>2 DEF TypeInv, Typed
    <3> QED BY <1>11, <3>1, <3>2, <3>3, <3>4
  <2> QED BY <1>2, <2>1, <2>2 DEF Recorded
<1>12. ASSUME NEW p \in Program, NEW o \in Obs, Consider(p, o) PROVE EvidenceInv'
  <2> DEFINE found == [job[p] EXCEPT !.at = "insert", !.todo = <<o>>]
             next == IF job[p].left = {o} THEN Idle ELSE [job[p] EXCEPT !.left = job[p].left \ {o}]
  <2>1. /\ job[p] \in Run /\ job[p].at = "queue"
        /\ UNCHANGED <<observations, evidence, provenance, marked>>
    BY <1>12 DEF Consider, At, TypeInv, Typed
  <2>2. found.at = "insert" /\ next.at \in {"idle", "queue"}
    BY <2>1 DEF Run, Idle
  <2>3. PICK run \in {found, next} : job' = [job EXCEPT ![p] = run]
    BY <1>12, Zenon DEF Consider
  <2> HIDE DEF found, next
  <2>4. job'[p].at \in {"insert", "idle", "queue"} /\ \A q \in Program \ {p} : job'[q] = job[q]
    BY <2>2, <2>3 DEF TypeInv, Typed
  <2> QED BY <1>2, <2>1, <2>4 DEF Recorded
<1>13. ASSUME job' = job, UNCHANGED <<observations, evidence, provenance, marked>> PROVE EvidenceInv'
  BY <1>1, <1>13, EvidenceStays DEF EvidenceInv
<1>14. ASSUME NEW u \in User, Resolves(u) \/ CommandFails(u) PROVE EvidenceInv'
  BY <1>13, <1>14 DEF Resolves, ReadItem, AcceptReads, AcceptUpserts, UpdateCoachingItem, CommandFails
<1>15. ASSUME NEW s \in Session, SessionCompletes(s) PROVE EvidenceInv'
  BY <1>13, <1>15 DEF SessionCompletes
<1>16. CASE UNCHANGED vars
  BY <1>13, <1>16 DEF vars
<1> QED BY <1>3, <1>5, <1>6, <1>7, <1>8, <1>9, <1>10, <1>11, <1>12, <1>14, <1>15, <1>16
           DEF Next, Saves, Queues

\* An observation that counts is in the table with its sources and with where
\* it came from, whatever failed and whoever saved it (Save, applyObservationState).
THEOREM EvidencedCorrect == Spec => []CountedIsEvidenced
<1>1. EvidenceInv => CountedIsEvidenced
  BY DEF EvidenceInv, CountedIsEvidenced
<1>2. TypeInv /\ EvidenceInv /\ [Next]_vars => EvidenceInv'
  BY EvidenceStep
<1> QED BY <1>1, <1>2, EvidenceInit, TypeAlways, PTL DEF Spec

(* --------------------------- all the types ------------------------------ *)

\* A row is one of the table or the one that stands for none, and so is an item;
\* a run has a mode in use, and a command the copy of an item.
ExactRun(run) == run.read \in Rows /\ (run.at # "idle" => run.mode \in Mode)
ExactAct(copy) ==
  /\ copy.item \in Items /\ copy.read \in Rows
  /\ copy.at # "idle" => copy.item.status \in Status

ExactInv ==
  /\ complete \subseteq Session /\ evidence \subseteq Obs
  /\ skill \in [Skill -> Rows]
  /\ items \in [Obs -> Items]
  /\ \A p \in Program : ExactRun(job[p])
  /\ \A u \in User : ExactAct(act[u])

LEMMA NothingExact == NoState \in Rows /\ NoItem \in Items /\ ExactRun(Idle) /\ ExactAct(NoAct)
  BY DEF Rows, Items, ExactRun, ExactAct, Idle, NoAct

\* An evaluated row is one of the table, whatever it was evaluated from.
LEMMA EvaluateExact ==
  ASSUME NEW row \in Rows
  PROVE  /\ \A o \in Obs : Evaluate(row, VerificationEvidence(o)) \in Rows
         /\ Evaluate(row, Acceptance(row)) \in Rows
<1>1. row \in StateRow /\ StateOr(row).state \in State
  BY DEF Rows, StateRow, NoState, StateOr, State
<1>2. ASSUME NEW sum, Evaluate(row, sum) \in StateRow PROVE Evaluate(row, sum) \in Rows
  <2> DEFINE current == StateOr(row)
             next == [current EXCEPT !.success = @ + sum.success, !.failed = @ + sum.failed,
                                     !.conf = sum.conf]
             state == StateAfter(current, next, sum)
  <2>1. state \in State
    BY <1>1 DEF StateAfter, State
  <2>2. Evaluate(row, sum) = [next EXCEPT !.state = state]
    BY DEF Evaluate
  <2>3. DOMAIN current = {"state", "conf", "success", "failed"}
    BY DEF StateOr, NoState, Rows
  <2> HIDE DEF state, current
  <2>4. Evaluate(row, sum).state = state
    BY <2>2, <2>3
  <2> QED BY <1>2, <2>1, <2>4 DEF Rows, StateRow
<1> QED BY <1>1, <1>2, EvaluateCounts, EvaluateAccepts

LEMMA ExactStep == TypeInv /\ ExactInv /\ [Next]_vars => ExactInv'
<1> SUFFICES ASSUME TypeInv, ExactInv, [Next]_vars PROVE ExactInv'
  OBVIOUS
<1> USE DEF tables, history
\* What a run does to itself, and to one of the tables.
<1>1. ASSUME NEW p \in Program, NEW run, ExactRun(run), job' = [job EXCEPT ![p] = run],
             complete' = complete, evidence' \subseteq Obs, skill' \in [Skill -> Rows],
             items' \in [Obs -> Items], act' = act
      PROVE  ExactInv'
  <2>1. \A q \in Program : job'[q] = IF q = p THEN run ELSE job[q]
    BY <1>1 DEF TypeInv, Typed
  <2> QED BY <1>1, <2>1 DEF ExactInv
<1>2. ASSUME NEW p \in Program, NEW run, ExactRun(run), job' = [job EXCEPT ![p] = run],
             UNCHANGED <<complete, evidence, skill, items, act>>
      PROVE  ExactInv'
  BY <1>1, <1>2 DEF ExactInv
<1>3. ASSUME NEW p \in Program, NEW at, job[p].at # "idle"
      PROVE  /\ ExactRun([job[p] EXCEPT !.at = at])
             /\ [job EXCEPT ![p].at = at] = [job EXCEPT ![p] = [job[p] EXCEPT !.at = at]]
  BY <1>3 DEF ExactInv, ExactRun, TypeInv, Typed, Run
<1>4. ASSUME NEW mode \in Mode, NEW todo, NEW at
      PROVE  ExactRun([Idle EXCEPT !.at = at, !.todo = todo, !.mode = mode])
  BY NothingExact DEF Idle, ExactRun
<1>5. ASSUME NEW mode \in Mode, Starts(mode) PROVE ExactInv'
  <2>1. PICK p \in Program : \E todo : Begin(p, todo, mode)
    BY <1>5, StartsBegin
  <2>2. PICK todo : Begin(p, todo, mode)
    BY <2>1
  <2>3. PICK run : ExactRun(run) /\ job' = [job EXCEPT ![p] = run]
    BY <1>4, <2>2, NothingExact DEF Begin
  <2> QED BY <1>2, <2>2, <2>3 DEF Begin
<1>6. ASSUME NEW p \in Program, InsertObservation(p) \/ ListEvidence(p) \/ AddProvenance(p) PROVE ExactInv'
  <2>1. PICK at : job' = [job EXCEPT ![p].at = at]
    BY <1>6 DEF InsertObservation, ListEvidence, AddProvenance, GoTo
  <2>2. job[p].at # "idle" /\ UNCHANGED <<complete, evidence, skill, items, act>>
    BY <1>6 DEF InsertObservation, ListEvidence, AddProvenance, At
  <2> QED BY <1>2, <1>3, <2>1, <2>2
<1>7. ASSUME NEW p \in Program, AddEvidence(p) PROVE ExactInv'
  <2>1. /\ job[p].at = "evidence" /\ job' = [job EXCEPT ![p].at = "listed"]
        /\ evidence' = evidence \cup {Current(p)} /\ UNCHANGED <<complete, skill, items, act>>
    BY <1>7 DEF AddEvidence, At, GoTo
  <2>2. Current(p) \in Obs
    BY <2>1, CurrentTyped DEF Detected
  <2>3. ExactRun([job[p] EXCEPT !.at = "listed"]) /\ job' = [job EXCEPT ![p] = [job[p] EXCEPT !.at = "listed"]]
    BY <1>3, <2>1
  <2>4. evidence' \subseteq Obs /\ skill' \in [Skill -> Rows] /\ items' \in [Obs -> Items]
    BY <2>1, <2>2 DEF ExactInv
  <2> QED BY <1>1, <2>1, <2>3, <2>4
<1>8. ASSUME NEW p \in Program, GetSkillState(p) PROVE ExactInv'
  <2> DEFINE row == skill[SkillOf[Current(p)]]
             run == [job[p] EXCEPT !.at = "apply", !.read = row]
  <2>1. job[p].at = "state" /\ SkillOf[Current(p)] \in Skill
    BY <1>8, CurrentTyped DEF GetSkillState, At, Detected
  <2>2. row \in Rows
    BY <2>1 DEF ExactInv
  <2> HIDE DEF row
  <2>3. ExactRun(run)
    BY <2>1, <2>2 DEF ExactInv, ExactRun, TypeInv, Typed, Run
  <2>4. job' = [job EXCEPT ![p] = run] /\ UNCHANGED <<complete, evidence, skill, items, act>>
    BY <1>8 DEF GetSkillState, TypeInv, Typed, row
  <2> QED BY <1>2, <2>3, <2>4
<1>9. ASSUME NEW p \in Program, ApplyState(p) PROVE ExactInv'
  <2>1. job[p].at = "apply" /\ Continue(p) /\ UNCHANGED <<complete, evidence, items, act>>
    BY <1>9 DEF ApplyState, At
  <2>2. job[p].mode \in Mode /\ job[p].read \in Rows
    BY <2>1 DEF ExactInv, ExactRun
  <2>3. PICK run : ExactRun(run) /\ job' = [job EXCEPT ![p] = run]
    BY <1>4, <2>1, <2>2, NothingExact DEF Continue
  <2>4. skill' \in [Skill -> Rows]
    <3>1. CASE Count(p)
      <4>1. Current(p) \in Obs
        BY <2>1, CurrentTyped DEF Detected
      <4>2. Evaluate(job[p].read, VerificationEvidence(Current(p))) \in Rows
        BY <2>2, <4>1, EvaluateExact
      <4> QED BY <3>1, <4>2 DEF Count, ExactInv
    <3>2. CASE skill' = skill
      BY <3>2 DEF ExactInv
    <3> QED BY <1>9, <3>1, <3>2 DEF ApplyState, ApplySkillStateOnce, UpsertSkillState
  <2>5. evidence' \subseteq Obs /\ items' \in [Obs -> Items]
    BY <2>1 DEF ExactInv
  <2> QED BY <1>1, <2>1, <2>3, <2>4, <2>5
<1>10. ASSUME NEW p \in Program, ListObservations(p) PROVE ExactInv'
  <2> DEFINE run == [job[p] EXCEPT !.at = "items", !.left = observations]
  <2>1. ExactRun(run)
    BY <1>10 DEF ListObservations, At, ExactInv, ExactRun, TypeInv, Typed, Run
  <2>2. job' = [job EXCEPT ![p] = run] /\ UNCHANGED <<complete, evidence, skill, items, act>>
    BY <1>10 DEF ListObservations, TypeInv, Typed
  <2> QED BY <1>2, <2>1, <2>2
<1>11. ASSUME NEW p \in Program, ListItems(p) PROVE ExactInv'
  <2>1. PICK run \in {Idle} \cup {[job[p] EXCEPT !.at = "queue", !.left = left, !.known = Suppressed] :
                                   left \in SUBSET job[p].left} :
          job' = [job EXCEPT ![p] = run]
    BY <1>11 DEF ListItems, TypeInv, Typed
  <2>2. ExactRun(run)
    BY <1>11, <2>1, NothingExact DEF ListItems, At, ExactInv, ExactRun, TypeInv, Typed, Run
  <2> QED BY <1>2, <1>11, <2>1, <2>2 DEF ListItems
<1>12. ASSUME NEW p \in Program, NEW o \in Obs, Consider(p, o) PROVE ExactInv'
  <2> DEFINE found == [job[p] EXCEPT !.at = "insert", !.todo = <<o>>]
             next == IF job[p].left = {o} THEN Idle ELSE [job[p] EXCEPT !.left = @ \ {o}]
  <2>1. job[p] \in Run /\ job[p].at = "queue" /\ ExactRun(job[p])
    BY <1>12 DEF Consider, At, TypeInv, Typed, ExactInv
  <2>2. ExactRun(found) /\ ExactRun(next)
    BY <2>1, NothingExact DEF ExactRun, Run
  <2>3. job' = [job EXCEPT ![p] = IF skill[SkillOf[o]].state = "suspected_gap" THEN found ELSE next]
    BY <1>12, Zenon DEF Consider
  <2> HIDE DEF found, next
  <2>4. PICK run \in {found, next} : job' = [job EXCEPT ![p] = run]
    BY <2>3
  <2> QED BY <1>2, <1>12, <2>2, <2>4 DEF Consider
<1>13. ASSUME NEW p \in Program, InsertCoachingItem(p) PROVE ExactInv'
  <2> DEFINE next == IF job[p].left = {Current(p)} THEN Idle
                     ELSE [job[p] EXCEPT !.at = "queue", !.todo = <<>>, !.left = @ \ {Current(p)}]
  <2>1. job[p] \in Run /\ job[p].at = "insert" /\ ExactRun(job[p]) /\ job[p].mode \in Mode
    BY <1>13 DEF InsertCoachingItem, At, TypeInv, Typed, ExactInv, ExactRun
  <2>2. ExactRun(next)
    BY <2>1, NothingExact DEF ExactRun, Run
  <2>3. job' = [job EXCEPT ![p] = next]
    BY <1>13, Zenon DEF InsertCoachingItem
  <2>4. [status |-> "queued", never |-> FALSE, mode |-> job[p].mode] \in Items
    BY <2>1 DEF Items, Status, Open
  <2>5. items' \in [Obs -> Items]
    BY <1>13, <2>4 DEF InsertCoachingItem, ExactInv
  <2>6. evidence' \subseteq Obs /\ skill' \in [Skill -> Rows] /\ UNCHANGED <<complete, act>>
    BY <1>13 DEF InsertCoachingItem, ExactInv
  <2> HIDE DEF next
  <2> QED BY <1>1, <2>2, <2>3, <2>5, <2>6
<1>14. ASSUME NEW p \in Program, RunFails(p) PROVE ExactInv'
  BY <1>2, <1>14, NothingExact DEF RunFails
\* What a command does to itself, and to one of the tables.
<1>15. ASSUME NEW u \in User, NEW copy, ExactAct(copy), act' = [act EXCEPT ![u] = copy],
              UNCHANGED <<complete, evidence, job>>, skill' \in [Skill -> Rows], items' \in [Obs -> Items]
       PROVE  ExactInv'
  <2>1. \A v \in User : act'[v] = IF v = u THEN copy ELSE act[v]
    BY <1>15 DEF TypeInv, Typed
  <2> QED BY <1>15, <2>1 DEF ExactInv
<1>16. ASSUME NEW u \in User, NEW copy, ExactAct(copy), act' = [act EXCEPT ![u] = copy],
              UNCHANGED <<complete, evidence, job, skill, items>>
       PROVE  ExactInv'
  BY <1>15, <1>16 DEF ExactInv
<1>17. ASSUME NEW u \in User, NEW o \in Obs, NEW doing \in Command, ReadItem(u, o, doing) PROVE ExactInv'
  <2> DEFINE copy == [at |-> IF doing = "accept" THEN "state" ELSE "update",
                      obs |-> o, item |-> items[o], doing |-> doing, read |-> NoState]
  <2>1. ExactAct(copy)
    BY <1>17, NothingExact DEF ReadItem, ExactAct, ExactInv, Status
  <2>2. act' = [act EXCEPT ![u] = copy]
    BY <1>17 DEF ReadItem
  <2> HIDE DEF copy
  <2> QED BY <1>16, <1>17, <2>1, <2>2 DEF ReadItem
<1>18. ASSUME NEW u \in User, AcceptReads(u) PROVE ExactInv'
  <2> DEFINE row == skill[SkillOf[act[u].obs]]
             copy == [act[u] EXCEPT !.at = "upsert", !.read = row]
  <2>1. act[u] \in Act /\ act[u].at = "state" /\ ExactAct(act[u]) /\ act[u].obs \in Obs
    BY <1>18 DEF AcceptReads, TypeInv, Typed, Working, ExactInv
  <2>2. row \in Rows
    BY <2>1, ConstantsTyped DEF ExactInv
  <2>3. act' = [act EXCEPT ![u] = NoAct] \/ act' = [act EXCEPT ![u] = copy]
    BY <1>18 DEF AcceptReads
  <2> HIDE DEF row
  <2>4. ExactAct(copy)
    BY <2>1, <2>2 DEF ExactAct, Act
  <2> HIDE DEF copy
  <2>5. PICK new \in {NoAct, copy} : act' = [act EXCEPT ![u] = new]
    BY <2>3
  <2> QED BY <1>16, <1>18, <2>4, <2>5, NothingExact DEF AcceptReads
<1>19. ASSUME NEW u \in User, AcceptUpserts(u) PROVE ExactInv'
  <2> DEFINE copy == [act[u] EXCEPT !.at = "update"]
  <2>1. act[u] \in Act /\ act[u].at = "upsert" /\ ExactAct(act[u]) /\ act[u].read \in Rows
    BY <1>19 DEF AcceptUpserts, TypeInv, Typed, ExactInv, ExactAct
  <2>2. ExactAct(copy)
    BY <2>1 DEF ExactAct, Act
  <2>3. act' = [act EXCEPT ![u] = copy]
    BY <1>19 DEF AcceptUpserts, TypeInv, Typed
  <2>4. skill' \in [Skill -> Rows] /\ items' \in [Obs -> Items]
    BY <1>19, <2>1, EvaluateExact DEF AcceptUpserts, ExactInv
  <2> HIDE DEF copy
  <2> QED BY <1>15, <1>19, <2>2, <2>3, <2>4 DEF AcceptUpserts
<1>20. ASSUME NEW u \in User, UpdateCoachingItem(u) PROVE ExactInv'
  <2>1. /\ act[u].item \in Items /\ act[u].item.status \in Status
        /\ act[u].doing \in {"accept", "defer", "dismiss", "never"}
    BY <1>20 DEF UpdateCoachingItem, ExactInv, ExactAct, TypeInv, Typed, Working, Act
  <2>2. act[u].item # NoItem
    BY <2>1 DEF NoItem, Status, Open
  <2>3. Resolved(act[u].item, act[u].doing) \in Items
    BY <2>1, <2>2 DEF Resolved, Items, Status, Open
  <2>4. items' \in [Obs -> Items] /\ skill' \in [Skill -> Rows]
    BY <1>20, <2>3 DEF UpdateCoachingItem, ExactInv
  <2> QED BY <1>15, <1>20, <2>4, NothingExact DEF UpdateCoachingItem
<1>21. ASSUME NEW u \in User, CommandFails(u) PROVE ExactInv'
  BY <1>16, <1>21, NothingExact DEF CommandFails
<1>22. ASSUME NEW s \in Session, SessionCompletes(s) PROVE ExactInv'
  BY <1>22 DEF SessionCompletes, ExactInv
<1>23. CASE UNCHANGED vars
  BY <1>23 DEF vars, ExactInv
<1> QED BY <1>5, <1>6, <1>7, <1>8, <1>9, <1>10, <1>11, <1>12, <1>13, <1>14, <1>17, <1>18, <1>19,
           <1>20, <1>21, <1>22, <1>23 DEF Next, Saves, Queues, Resolves

\* Every table and every program holds values of its type: no row is half one of
\* the table and half none, and nothing is resolved that was not an item.
THEOREM TypeCorrect == Spec => []TypeOK
<1>1. Init => ExactInv
  BY NothingExact DEF Init, ExactInv
<1>2. TypeInv /\ EvidenceInv /\ [Next]_vars => EvidenceInv'
  BY EvidenceStep
<1>3. TypeInv /\ EvidenceInv /\ ExactInv => TypeOK
  BY DEF TypeInv, Typed, Run, EvidenceInv, ExactInv, ExactRun, ExactAct, TypeOK
<1> QED BY <1>1, <1>2, <1>3, EvidenceInit, ExactStep, TypeAlways, PTL DEF Spec
===============================================================================
