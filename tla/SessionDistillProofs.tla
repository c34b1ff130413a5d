------------------------ MODULE SessionDistillProofs ------------------------
(***************************************************************************)
(* The type invariant of SessionDistill and its two main safety            *)
(* properties, for every number of sessions, events, processes and faults. *)
(***************************************************************************)
EXTENDS SessionDistill, FiniteSetTheorems, TLAPS

(* The events stored for a session, and those a checkpoint reads, are events. *)
LEMMA StoredEventsType ==
  ASSUME TypeOK, NEW s \in Sessions
  PROVE  /\ StoredEvents(s) \subseteq Event
         /\ \A cutoff \in Nat : CheckpointEvents(s, cutoff) \subseteq Event
BY ConstantsAssumption DEF TypeOK, TablesType, StoredEvents, CheckpointEvents, Event

(* The undistilled events are events. *)
LEMMA UndistilledType ==
  ASSUME TypeOK PROVE \A s \in Sessions : Undistilled(s) \subseteq Event
BY StoredEventsType DEF Undistilled

(* The number of undistilled events is a natural number. *)
LEMMA UndistilledCountType == ASSUME TypeOK PROVE UndistilledCount \in Nat
<1>1. IsFiniteSet(1..MaxEvents)
  BY ConstantsAssumption, FS_Interval
<1>2. IsFiniteSet(Event)
  BY <1>1, ConstantsAssumption, FS_Product DEF Event
<1>3. UNION {Undistilled(s) : s \in Sessions} \subseteq Event
  BY UndistilledType
<1> QED
  BY <1>2, <1>3, FS_Subset, FS_CardinalityType DEF UndistilledCount

(* The shared records keep their type under the helpers that write them. *)
LEMMA Recorded ==
  ASSUME TypeOK
  PROVE  /\ RecordFailure => health' \in Health
         /\ RecordSuccess => health' \in Health
BY DEF TypeOK, SharedType, Health, RecordFailure, RecordSuccess

LEMMA NoLockType == NoLock \in LockFile
BY DEF NoLock, LockFile

LEMMA IdleManualPhase == IdleManual \in ManualState /\ IdleManual.phase = "off"
BY DEF IdleManual, ManualState

(* A process that ends, with its lock file removed or left behind, keeps   *)
(* the lock's variables in their types.                                    *)
LEMMA EndsTyped ==
  ASSUME TypeOK, NEW d \in Distillers
  PROVE  /\ Ended(d) => acq' \in [Distillers -> Attempt]
         /\ LeftBehind(d) => lock' \in LockFile
<1> USE DEF TypeOK, SharedType, Distillers
<1>1. acq[d] \in Attempt /\ acq[Other(d)] \in Attempt /\ Other(d) \in Distillers
      /\ FirstTry \in Attempt
  BY DEF Other, FirstTry, Attempt
<1> QED
  BY <1>1 DEF Ended, LeftBehind, Attempt, LockFile

LEMMA ManualReturns ==
  ASSUME TypeOK
  PROVE  /\ IdleManual \in ManualState
         /\ ManualReturn \/ ManualExit =>
               manual' \in ManualState /\ lock' \in LockFile /\ acq' \in [Distillers -> Attempt]
<1>1. IdleManual \in ManualState
  BY DEF IdleManual, ManualState
<1>2. "manual" \in Distillers
  BY DEF Distillers
<1> QED
  BY <1>1, <1>2, NoLockType, EndsTyped DEF ManualReturn, ManualExit

(* What a step of acquireDistillLock does outside the lock's variables.    *)
LEMMA AcquireRest ==
  ASSUME NEW d \in Distillers, AcquireStep(d)
  PROVE  /\ Acquiring(d)
         /\ UNCHANGED <<stored, boundary, distilled, summaries, synth, extracted, flushed>>
         /\ d = "daemon" => /\ UNCHANGED manual
                            /\ \/ UNCHANGED daemon
                               \/ daemon' = IdleDaemon
                               \/ daemon' = [daemon EXCEPT !.phase = "loop"]
         /\ d = "manual" => /\ UNCHANGED daemon
                            /\ \/ UNCHANGED manual
                               \/ manual' = IdleManual
                               \/ manual' = [manual EXCEPT !.phase = "select"]
BY DEF AcquireStep, AcquireAt, Distillers, LockCreate, LockAge, LockRead, LockSize,
       LockCheck, LockRemove, LockWrite, LockFails, Judged, Blocked, db, hist

(* And what it does to the counter and the reports of skipped cycles.      *)
LEMMA AcquireSkips ==
  ASSUME NEW d \in Distillers, AcquireStep(d)
  PROVE  NoteDistillSkip \/ UNCHANGED <<skips, health, wedges>>
BY DEF AcquireStep, LockCreate, LockAge, LockRead, LockSize,
       LockCheck, LockRemove, LockWrite, LockFails, Judged, Blocked, hist

LEMMA AcquireTyped ==
  ASSUME TypeOK, NEW d \in Distillers, AcquireStep(d)
  PROVE  /\ lock' \in LockFile /\ acq' \in [Distillers -> Attempt]
         /\ reclaimed' \in BOOLEAN /\ raced' \in BOOLEAN /\ used' \in Bounds
<1> USE DEF TypeOK, SharedType, HistoryType
<1>1. acq[d] \in Attempt /\ FirstTry \in Attempt
  BY DEF Distillers, FirstTry, Attempt
<1>2. [FirstTry EXCEPT !.try = 2] \in Attempt
  BY DEF FirstTry, Attempt
<1>3. lock \in LockFile /\ NoLock \in LockFile
  BY NoLockType
<1>4. ASSUME NEW step \in {"age", "read", "size", "check", "remove", "write"}, Goto(d, step)
      PROVE  acq' \in [Distillers -> Attempt]
  BY <1>1, <1>4 DEF Goto, Attempt
<1>5. Blocked(d) => acq' \in [Distillers -> Attempt]
  BY <1>1 DEF Blocked
<1>6. \A stale : Judged(d, stale) => acq' \in [Distillers -> Attempt]
  BY <1>4, <1>5 DEF Judged
<1>7. CASE LockCreate(d)
  <2>1. raced' \in BOOLEAN
    BY <1>7 DEF LockCreate
  <2>2. lock' \in LockFile
    <3>1. [owner |-> d, content |-> "fresh", old |-> FALSE] \in LockFile
      BY DEF LockFile
    <3> QED
      BY <1>3, <1>7, <3>1 DEF LockCreate
  <2> QED
    BY <1>4, <1>7, <2>1, <2>2 DEF LockCreate
<1>8. CASE LockAge(d)
  BY <1>4, <1>8 DEF LockAge
<1>9. CASE LockRead(d)
  <2>1. lock.owner \in Distillers \cup {"none", "dead"}
    BY DEF LockFile
  <2> QED
    BY <1>1, <1>4, <1>9, <2>1 DEF LockRead, Attempt, hist
<1>10. CASE LockSize(d) \/ LockCheck(d)
  BY <1>6, <1>10 DEF LockSize, LockCheck
<1>11. CASE LockRemove(d)
  BY <1>2, <1>3, <1>5, <1>11 DEF LockRemove
<1>12. CASE LockWrite(d)
  BY <1>1, <1>3, <1>12 DEF LockWrite, LockFile, hist
<1>13. CASE LockFails(d)
  BY <1>3, <1>5, <1>13 DEF LockFails, ProviderFault, Bounds
<1> QED
  BY <1>7, <1>8, <1>9, <1>10, <1>11, <1>12, <1>13 DEF AcquireStep

LEMMA FaultCounted ==
  ASSUME TypeOK, ProviderFault PROVE used' \in Bounds
BY DEF TypeOK, HistoryType, ProviderFault, Bounds

(* Every step keeps every variable in its type. *)
LEMMA TypeStep == ASSUME TypeOK, WorkInProgress, Next PROVE TypeOK'
<1> USE ConstantsAssumption DEF TypeOK, WorkInProgress
<1>1. ASSUME DaemonSelect PROVE TypeOK'
  <2>1. DaemonType'
    BY <1>1 DEF DaemonSelect, DaemonType, Ready, Idle
  <2> QED BY <1>1, <2>1 DEF DaemonSelect, db, hist, TablesType, SharedType, ManualType,
      SynthType, HistoryType
<1>2. ASSUME DaemonGate PROVE TypeOK'
  <2>1. DaemonType'
    BY <1>2 DEF DaemonGate, DaemonType, IdleDaemon, Idle
  <2> QED BY <1>2, <2>1 DEF DaemonGate, db, hist, TablesType, SharedType, ManualType,
      SynthType, HistoryType
<1>3. ASSUME NEW d \in Distillers, AcquireStep(d) PROVE TypeOK'
  <2>1. SharedType'
    BY <1>3, AcquireTyped, AcquireSkips, Recorded DEF SharedType, NoteDistillSkip
  <2>2. DaemonType'
    BY <1>3, AcquireRest DEF DaemonType, IdleDaemon, Idle, Distillers
  <2>3. ManualType'
    BY <1>3, AcquireRest, ManualReturns DEF ManualType, ManualState, Distillers
  <2>4. HistoryType'
    BY <1>3, AcquireTyped, AcquireSkips, AcquireRest DEF HistoryType, NoteDistillSkip
  <2> QED BY <1>3, <2>1, <2>2, <2>3, <2>4, AcquireRest DEF TablesType, SynthType
<1>4. ASSUME SecondPasses PROVE TypeOK'
  <2>1. SharedType'
    BY <1>4 DEF SecondPasses, SharedType, LockFile
  <2> QED BY <1>4, <2>1 DEF SecondPasses, db, hist, TablesType, DaemonType, ManualType,
      SynthType, HistoryType
<1>5. ASSUME NEW s \in Sessions, DaemonLoad(s) PROVE TypeOK'
  <2>1. TablesType'
    BY <1>5, StoredEventsType DEF DaemonLoad, TablesType, MarkSessionDistilled, DaemonAt
  <2>2. DaemonType'
    BY <1>5, StoredEventsType DEF DaemonLoad, DaemonType, Idle
  <2> QED BY <1>5, <2>1, <2>2 DEF DaemonLoad, hist, SharedType, ManualType, SynthType,
      HistoryType
<1>6. ASSUME DaemonFail PROVE TypeOK'
  <2>1. SharedType'
    BY <1>6, Recorded DEF DaemonFail, SharedType
  <2>2. DaemonType'
    BY <1>6 DEF DaemonFail, DaemonType, NextSession, Idle
  <2>3. HistoryType'
    BY <1>6, FaultCounted DEF DaemonFail, HistoryType, hist
  <2> QED BY <1>6, <2>1, <2>2, <2>3 DEF DaemonFail, db, TablesType, ManualType,
      SynthType
<1>7. ASSUME DaemonSynthesize PROVE TypeOK'
  <2>1. TablesType'
    BY <1>7 DEF DaemonSynthesize, TablesType, InsertSummary, DaemonType, DaemonWork,
      Summary, Kinds, DaemonAt
  <2>2. DaemonType'
    BY <1>7 DEF DaemonSynthesize, DaemonType, Idle
  <2> QED BY <1>7, <2>1, <2>2 DEF DaemonSynthesize, hist, SharedType, ManualType,
      SynthType, HistoryType
<1>8. ASSUME DaemonExtract PROVE TypeOK'
  <2>1. DaemonType'
    BY <1>8 DEF DaemonExtract, DaemonType, Idle
  <2>2. HistoryType'
    BY <1>8 DEF DaemonExtract, HistoryType, DaemonType
  <2> QED BY <1>8, <2>1, <2>2 DEF DaemonExtract, db, TablesType, SharedType, ManualType,
      SynthType
<1>9. ASSUME DaemonRecord PROVE TypeOK'
  <2>1. SharedType'
    BY <1>9, Recorded DEF DaemonRecord, SharedType
  <2>2. DaemonType'
    BY <1>9 DEF DaemonRecord, DaemonType, Idle
  <2> QED BY <1>9, <2>1, <2>2 DEF DaemonRecord, db, hist, TablesType, ManualType,
      SynthType, HistoryType
<1>10. ASSUME DaemonMark PROVE TypeOK'
  <2>1. TablesType'
    BY <1>10, StoredEventsType DEF DaemonMark, TablesType, MarkSessionDistilled,
      DaemonWork, DaemonAt
  <2>2. DaemonType'
    BY <1>10 DEF DaemonMark, DaemonType, NextSession, Idle
  <2> QED BY <1>10, <2>1, <2>2 DEF DaemonMark, hist, SharedType, ManualType, SynthType,
      HistoryType
<1>11. ASSUME DaemonCycleEnd PROVE TypeOK'
  <2>1. SharedType'
    BY <1>11, NoLockType DEF DaemonCycleEnd, SharedType
  <2>2. DaemonType'
    BY <1>11 DEF DaemonCycleEnd, DaemonType, IdleDaemon, Idle
  <2>3. HistoryType'
    BY <1>11 DEF DaemonCycleEnd, HistoryType
  <2> QED BY <1>11, <2>1, <2>2, <2>3 DEF DaemonCycleEnd, db, TablesType, ManualType,
      SynthType
<1>12. ASSUME DaemonStart PROVE TypeOK'
  <2>1. SharedType'
    BY <1>12, NoLockType DEF DaemonStart, SharedType
  <2>2. DaemonType'
    BY <1>12 DEF DaemonStart, DaemonType, IdleDaemon, Idle
  <2>3. HistoryType'
    BY <1>12 DEF DaemonStart, HistoryType
  <2> QED BY <1>12, <2>1, <2>2, <2>3 DEF DaemonStart, db, TablesType, ManualType,
      SynthType
<1>13. ASSUME ManualSelect PROVE TypeOK'
  <2>1. SharedType'
    BY <1>13, ManualReturns DEF ManualSelect, SharedType
  <2>2. ManualType'
    <3>1. CASE ManualReturn
      BY <3>1, ManualReturns DEF ManualType
    <3>2. CASE \E s \in Sessions : manual' = [manual EXCEPT !.phase = "batch",
                   !.snap = Undistilled(s), !.before = UndistilledCount]
      BY <3>2, UndistilledType, UndistilledCountType DEF ManualType, ManualState
    <3> QED
      BY <1>13, <3>1, <3>2 DEF ManualSelect
  <2> QED BY <1>13, <2>1, <2>2 DEF ManualSelect, db, hist, TablesType, DaemonType,
      SynthType, HistoryType
<1>14. ASSUME ManualShort PROVE TypeOK'
  <2>1. TablesType'
    BY <1>14 DEF ManualShort, TablesType, ManualType, ManualState, ManualAt
  <2>2. ManualType'
    BY <1>14 DEF ManualShort, ManualType, ManualState
  <2>3. HistoryType'
    BY <1>14 DEF ManualShort, HistoryType, ManualType, ManualState
  <2> QED BY <1>14, <2>1, <2>2, <2>3 DEF ManualShort, SharedType, DaemonType, SynthType
<1>15. ASSUME NEW none \in BOOLEAN, ManualExtract(none) PROVE TypeOK'
  <2>1. ManualType'
    BY <1>15 DEF ManualExtract, ManualType, ManualState
  <2>2. HistoryType'
    BY <1>15 DEF ManualExtract, HistoryType, ManualType, ManualState
  <2> QED BY <1>15, <2>1, <2>2 DEF ManualExtract, db, TablesType, SharedType,
      DaemonType, SynthType
<1>16. ASSUME ManualFail PROVE TypeOK'
  <2>1. SharedType'
    BY <1>16, Recorded, ManualReturns DEF ManualFail, SharedType
  <2>2. ManualType'
    BY <1>16, ManualReturns DEF ManualFail, ManualType
  <2>3. HistoryType'
    BY <1>16, FaultCounted DEF ManualFail, HistoryType, hist
  <2> QED BY <1>16, <2>1, <2>2, <2>3 DEF ManualFail, db, TablesType, DaemonType,
      SynthType
<1>17. ASSUME ManualMark PROVE TypeOK'
  <2>1. TablesType'
    BY <1>17 DEF ManualMark, TablesType, ManualType, ManualState, ManualAt
  <2>2. ManualType'
    BY <1>17 DEF ManualMark, ManualType, ManualState
  <2> QED BY <1>17, <2>1, <2>2 DEF ManualMark, hist, SharedType, DaemonType, SynthType,
      HistoryType
<1>18. ASSUME ManualReport PROVE TypeOK'
  <2>1. SharedType'
    BY <1>18, Recorded, ManualReturns DEF ManualReport, SharedType, Health
  <2>2. ManualType'
    <3>1. CASE manual' = IdleManual
      BY <3>1, ManualReturns DEF ManualType
    <3>2. CASE \E stalled \in BOOLEAN : manual' =
                 [IdleManual EXCEPT !.phase = "select", !.all = TRUE, !.stalled = stalled]
      BY <3>2, ManualReturns DEF ManualType, ManualState
    <3>3. CASE ManualReturn \/ ManualExit
      BY <3>3, ManualReturns DEF ManualType
    <3> QED
      BY <1>18, <3>1, <3>2, <3>3 DEF ManualReport, ManualType
  <2> QED BY <1>18, <2>1, <2>2 DEF ManualReport, db, hist, TablesType, DaemonType,
      SynthType, HistoryType
<1>19. ASSUME NEW p \in Synths, SynthCheck(p) PROVE TypeOK'
  <2>1. SynthType'
    BY <1>19 DEF SynthCheck, SynthType, SynthTo
  <2> QED BY <1>19, <2>1 DEF SynthCheck, db, hist, TablesType, SharedType, DaemonType,
      ManualType, HistoryType
<1>20. ASSUME NEW p \in Synths, SynthRead(p) PROVE TypeOK'
  <2>1. SynthType'
    <3>1. CheckpointEvents(synth[p].session, synth[p].cutoff) \subseteq Event
      BY <1>20, StoredEventsType DEF SynthRead, SynthType, SynthWork
    <3> QED BY <1>20, <3>1 DEF SynthRead, SynthType
  <2> QED BY <1>20, <2>1 DEF SynthRead, db, hist, TablesType, SharedType, DaemonType,
      ManualType, HistoryType
<1>21. ASSUME NEW p \in Synths, SynthSynthesize(p) PROVE TypeOK'
  <2>1. TablesType'
    BY <1>21 DEF SynthSynthesize, TablesType, InsertSummary, SynthType, SynthWork,
      Summary
  <2>2. SynthType'
    BY <1>21 DEF SynthSynthesize, SynthType, SynthTo
  <2> QED BY <1>21, <2>1, <2>2 DEF SynthSynthesize, hist, SharedType, DaemonType,
      ManualType, HistoryType
<1>22. ASSUME NEW p \in Synths, SynthExtract(p) PROVE TypeOK'
  <2>1. SynthType'
    BY <1>22 DEF SynthExtract, SynthType, SynthTo
  <2>2. HistoryType'
    BY <1>22 DEF SynthExtract, HistoryType, SynthType
  <2> QED BY <1>22, <2>1, <2>2 DEF SynthExtract, db, TablesType, SharedType, DaemonType,
      ManualType
<1>23. ASSUME NEW p \in Synths, SynthFail(p) PROVE TypeOK'
  <2>1. SharedType'
    BY <1>23, Recorded DEF SynthFail, SharedType
  <2>2. SynthType'
    BY <1>23 DEF SynthFail, SynthType, SynthTo
  <2>3. HistoryType'
    BY <1>23, FaultCounted DEF SynthFail, HistoryType, hist
  <2> QED BY <1>23, <2>1, <2>2, <2>3 DEF SynthFail, db, TablesType, DaemonType,
      ManualType
<1>24. ASSUME NEW p \in Synths, SynthMark(p) PROVE TypeOK'
  <2>1. TablesType'
    BY <1>24, StoredEventsType DEF SynthMark, TablesType, MarkSessionDistilled,
      SynthWork
  <2>2. SynthType'
    BY <1>24 DEF SynthMark, SynthType, SynthTo
  <2> QED BY <1>24, <2>1, <2>2 DEF SynthMark, hist, SharedType, DaemonType, ManualType,
      HistoryType
<1>25. ASSUME NEW p \in Synths, SynthRecord(p) PROVE TypeOK'
  <2>1. SharedType'
    BY <1>25, Recorded DEF SynthRecord, SharedType
  <2>2. SynthType'
    BY <1>25 DEF SynthRecord, SynthType, SynthTo
  <2> QED BY <1>25, <2>1, <2>2 DEF SynthRecord, db, hist, TablesType, DaemonType,
      ManualType, HistoryType
<1>26. ASSUME Tick PROVE TypeOK'
  <2>1. SharedType'
    BY <1>26 DEF Tick, SharedType, Health
  <2> QED BY <1>26, <2>1 DEF Tick, db, hist, TablesType, DaemonType, ManualType,
      SynthType, HistoryType
<1>27. ASSUME NEW s \in Sessions, NEW b \in BOOLEAN, StoreEvent(s, b) PROVE TypeOK'
  <2>1. TablesType'
    BY <1>27 DEF StoreEvent, TablesType, Event
  <2> QED BY <1>27, <2>1 DEF StoreEvent, hist, SharedType, DaemonType, ManualType,
      SynthType, HistoryType
<1>28. ASSUME NEW p \in Synths, NEW s \in Sessions, NEW k \in {"final", "clear"}, SpawnSynthesis(p, s, k) PROVE TypeOK'
  <2>1. SynthType'
    BY <1>28 DEF SpawnSynthesis, SynthType, TablesType, Kinds
  <2>2. HistoryType'
    BY <1>28 DEF SpawnSynthesis, HistoryType, hist, Bounds
  <2> QED BY <1>28, <2>1, <2>2 DEF SpawnSynthesis, db, TablesType, SharedType,
      DaemonType, ManualType
<1>29. ASSUME NEW all \in BOOLEAN, ManualStart(all) PROVE TypeOK'
  <2>1. ManualType'
    BY <1>29 DEF ManualStart, ManualType, ManualState, IdleManual
  <2>2. HistoryType'
    BY <1>29 DEF ManualStart, HistoryType, Bounds, hist
  <2> QED BY <1>29, <2>1, <2>2 DEF ManualStart, db, TablesType, SharedType, DaemonType,
      SynthType
<1>30. ASSUME LockAges PROVE TypeOK'
  <2>1. SharedType'
    BY <1>30 DEF LockAges, SharedType, LockFile
  <2> QED BY <1>30, <2>1 DEF LockAges, db, hist, TablesType, DaemonType, ManualType,
      SynthType, HistoryType
<1>31. ASSUME DaemonCrash PROVE TypeOK'
  <2>1. SharedType'
    BY <1>31, NoLockType, EndsTyped DEF DaemonCrash, SharedType, Distillers
  <2>2. DaemonType'
    BY <1>31 DEF DaemonCrash, DaemonType, IdleDaemon, Idle
  <2>3. HistoryType'
    BY <1>31 DEF DaemonCrash, HistoryType, Bounds, hist
  <2> QED BY <1>31, <2>1, <2>2, <2>3 DEF DaemonCrash, db, TablesType, ManualType,
      SynthType
<1>32. ASSUME ManualCrash PROVE TypeOK'
  <2>1. ManualType'
    BY <1>32, ManualReturns DEF ManualCrash, ManualExit, ManualType
  <2>2. HistoryType'
    BY <1>32 DEF ManualCrash, HistoryType, Bounds, hist
  <2>3. SharedType'
    BY <1>32, ManualReturns DEF ManualCrash, SharedType
  <2> QED BY <1>32, <2>1, <2>2, <2>3 DEF ManualCrash, db, TablesType, DaemonType,
      SynthType
<1>33. ASSUME NEW p \in Synths, SynthCrash(p) PROVE TypeOK'
  <2>1. SynthType'
    BY <1>33 DEF SynthCrash, SynthType, SynthTo
  <2>2. HistoryType'
    BY <1>33 DEF SynthCrash, HistoryType, Bounds, hist
  <2> QED BY <1>33, <2>1, <2>2 DEF SynthCrash, db, TablesType, SharedType, DaemonType,
      ManualType
<1> QED
  BY <1>1, <1>2, <1>3, <1>4, <1>5, <1>6, <1>7, <1>8, <1>9, <1>10, <1>11, <1>12, <1>13,
      <1>14, <1>15, <1>16, <1>17, <1>18, <1>19, <1>20, <1>21, <1>22, <1>23, <1>24,
      <1>25, <1>26, <1>27, <1>28, <1>29, <1>30, <1>31, <1>32, <1>33
  DEF Next, DaemonStep, ManualStep, SynthStep, Environment, Distillers

-----------------------------------------------------------------------------
(* No step takes a summary, an extraction or a drained event back. *)
Growth == /\ \A s : HasSummary(s) => HasSummary(s)'
          /\ extracted \subseteq extracted' /\ flushed \subseteq flushed'

(* A stored summary stays, and its session has one from then on. *)
LEMMA SummaryInserted ==
  ASSUME TypeOK, NEW s \in Sessions, NEW kind \in Kinds, NEW snap \in SUBSET Event,
         InsertSummary(s, kind, snap)
  PROVE  HasSummary(s)' /\ \A x : HasSummary(x) => HasSummary(x)'
<1> DEFINE row == [session |-> s, kind |-> kind, covers |-> snap]
<1>1. summaries \in Seq(Summary) /\ row \in Summary
  BY DEF TypeOK, TablesType, Summary
<1>2. summaries' = Append(summaries, row)
  BY DEF InsertSummary
<1>3. /\ DOMAIN summaries' = 1..(Len(summaries) + 1)
      /\ summaries'[Len(summaries) + 1] = row
      /\ \A i \in DOMAIN summaries : i \in DOMAIN summaries' /\ summaries'[i] = summaries[i]
  BY <1>1, <1>2
<1>4. Len(summaries) + 1 \in DOMAIN summaries'
  BY <1>1, <1>3
<1> QED
  BY <1>3, <1>4 DEF HasSummary

(* The steps of each process, and of the environment, that leave the       *)
(* summaries and the histories of extraction and draining alone.           *)
QuietStep ==
    \/ DaemonSelect \/ DaemonGate \/ \E d \in Distillers : AcquireStep(d)
    \/ \E s \in Sessions : DaemonLoad(s)
    \/ DaemonFail \/ DaemonRecord \/ DaemonMark \/ DaemonCycleEnd \/ DaemonStart
    \/ ManualSelect \/ ManualFail \/ ManualMark \/ ManualReport
    \/ \E p \in Synths : \/ SynthCheck(p) \/ SynthRead(p) \/ SynthFail(p)
                         \/ SynthMark(p) \/ SynthRecord(p)
    \/ Tick \/ SecondPasses \/ Environment

LEMMA QuietUnchanged ==
  ASSUME QuietStep PROVE UNCHANGED <<summaries, extracted, flushed>>
<1> USE DEF db, hist
<1>1. CASE \/ DaemonSelect \/ DaemonGate \/ \E d \in Distillers : AcquireStep(d)
           \/ \E s \in Sessions : DaemonLoad(s)
  BY <1>1, AcquireRest DEF DaemonSelect, DaemonGate, DaemonLoad
<1>2. CASE DaemonFail \/ DaemonRecord \/ DaemonMark \/ DaemonCycleEnd \/ DaemonStart
  BY <1>2 DEF DaemonFail, DaemonRecord, DaemonMark, DaemonCycleEnd, DaemonStart
<1>3. CASE ManualSelect \/ ManualFail \/ ManualMark \/ ManualReport
  BY <1>3 DEF ManualSelect, ManualFail, ManualMark, ManualReport
<1>4. CASE \E p \in Synths : SynthCheck(p) \/ SynthRead(p) \/ SynthFail(p)
                             \/ SynthMark(p) \/ SynthRecord(p)
  BY <1>4 DEF SynthCheck, SynthRead, SynthFail, SynthMark, SynthRecord
<1>5. CASE Tick \/ SecondPasses \/ Environment
  BY <1>5 DEF Tick, SecondPasses, Environment, StoreEvent, SpawnSynthesis, ManualStart, LockAges,
              DaemonCrash, ManualCrash, SynthCrash
<1> QED
  BY <1>1, <1>2, <1>3, <1>4, <1>5 DEF QuietStep

LEMMA GrowthStep == ASSUME TypeOK, WorkInProgress, Next PROVE Growth
<1> USE DEF TypeOK, WorkInProgress
<1>1. CASE QuietStep
  BY <1>1, QuietUnchanged DEF Growth, HasSummary
<1>2. CASE DaemonSynthesize
  <2>1. daemon.cur \in Sessions /\ daemon.snap \in SUBSET Event /\ "daemon" \in Kinds
    BY <1>2 DEF DaemonSynthesize, DaemonAt, DaemonType, DaemonWork, Kinds
  <2>2. InsertSummary(daemon.cur, "daemon", daemon.snap) /\ UNCHANGED <<extracted, flushed>>
    BY <1>2 DEF DaemonSynthesize, hist
  <2> QED
    BY <2>1, <2>2, SummaryInserted DEF Growth
<1>3. CASE DaemonExtract \/ ManualShort \/ \E none \in BOOLEAN : ManualExtract(none)
  BY <1>3 DEF DaemonExtract, ManualShort, ManualExtract, Growth, HasSummary, db
<1>4. ASSUME NEW p \in Synths, SynthSynthesize(p) PROVE Growth
  <2>1. /\ synth[p].session \in Sessions /\ synth[p].kind \in Kinds
        /\ synth[p].snap \in SUBSET Event
    BY <1>4 DEF SynthSynthesize, SynthType, SynthWork
  <2>2. /\ InsertSummary(synth[p].session, synth[p].kind, synth[p].snap)
        /\ UNCHANGED <<extracted, flushed>>
    BY <1>4 DEF SynthSynthesize, hist
  <2> QED
    BY <2>1, <2>2, SummaryInserted DEF Growth
<1>5. CASE \E p \in Synths : SynthExtract(p)
  BY <1>5 DEF SynthExtract, Growth, HasSummary, db
<1> QED
  BY <1>1, <1>2, <1>3, <1>4, <1>5
  DEF Next, DaemonStep, ManualStep, SynthStep, QuietStep, Distillers

-----------------------------------------------------------------------------
(* A session found in the table of checkpoints has a summary. *)
LEMMA CheckpointHasSummary ==
  ASSUME NEW s, NEW kind, HasSessionCheckpoint(s, kind) PROVE HasSummary(s)
BY DEF HasSessionCheckpoint, HasSummary

(* What a process relies on between its steps stays true: of its own steps,  *)
(* and of everybody else's because summaries and extractions only grow.      *)
LEMMA DaemonWorkStep ==
  ASSUME TypeOK, WorkInProgress, DaemonStep, Growth PROVE DaemonWork'
<1> USE DEF TypeOK, WorkInProgress
<1>1. CASE DaemonSelect
  BY <1>1 DEF DaemonSelect, DaemonWork, DaemonType
<1>2. CASE DaemonGate
  BY <1>2 DEF DaemonGate, DaemonWork, DaemonType, IdleDaemon
<1>3. CASE AcquireStep("daemon")
  BY <1>3, AcquireRest DEF Distillers, Acquiring, DaemonWork, DaemonType, IdleDaemon
<1>5. CASE \E s \in Sessions : DaemonLoad(s)
  BY <1>5 DEF DaemonLoad, DaemonAt, DaemonWork, DaemonType
<1>6. CASE DaemonFail
  BY <1>6 DEF DaemonFail, NextSession, DaemonWork, DaemonType
<1>7. CASE DaemonSynthesize
  <2>1. daemon.cur \in Sessions /\ daemon.snap \in SUBSET Event /\ "daemon" \in Kinds
    BY <1>7 DEF DaemonSynthesize, DaemonAt, DaemonType, DaemonWork, Kinds
  <2>2. InsertSummary(daemon.cur, "daemon", daemon.snap)
    BY <1>7 DEF DaemonSynthesize
  <2>3. HasSummary(daemon.cur)'
    <3>1. \A s : s = daemon.cur => HasSummary(s)'
      BY <2>1, <2>2, SummaryInserted
    <3>2. daemon'.cur = daemon.cur
      BY <1>7 DEF DaemonSynthesize, DaemonType
    <3> QED
      BY <3>1, <3>2 DEF HasSummary
  <2> QED
    BY <1>7, <2>1, <2>3 DEF DaemonSynthesize, DaemonWork, DaemonType
<1>8. CASE DaemonExtract
  BY <1>8 DEF DaemonExtract, DaemonAt, DaemonWork, DaemonType, Growth
<1>9. CASE DaemonRecord
  BY <1>9 DEF DaemonRecord, DaemonAt, DaemonWork, DaemonType, Growth
<1>10. CASE DaemonMark
  BY <1>10 DEF DaemonMark, NextSession, DaemonWork, DaemonType
<1>11. CASE DaemonCycleEnd \/ DaemonStart
  BY <1>11 DEF DaemonCycleEnd, DaemonStart, DaemonWork, IdleDaemon
<1> QED
  BY <1>1, <1>2, <1>3, <1>5, <1>6, <1>7, <1>8, <1>9, <1>10, <1>11 DEF DaemonStep

(* So does the batch of forge distill. *)
LEMMA ManualWorkStep ==
  ASSUME TypeOK, WorkInProgress, ManualStep, Growth PROVE ManualWork'
<1> USE DEF TypeOK, WorkInProgress
<1>1. CASE ManualSelect
  <2>1. manual' = IdleManual \/ \E snap, before : manual' =
            [manual EXCEPT !.phase = "batch", !.snap = snap, !.before = before]
    BY <1>1 DEF ManualSelect, ManualReturn
  <2> QED
    BY <2>1, IdleManualPhase DEF ManualWork, ManualType, ManualState
<1>2. CASE ManualShort
  BY <1>2 DEF ManualShort, ManualWork, ManualType, ManualState
<1>3. CASE \E none \in BOOLEAN : ManualExtract(none)
  BY <1>3 DEF ManualExtract, ManualWork, ManualType, ManualState
<1>4. CASE ManualFail
  <2>1. manual' = IdleManual
    BY <1>4 DEF ManualFail, ManualReturn, ManualExit
  <2> QED
    BY <2>1 DEF IdleManual, ManualWork
<1>5. CASE ManualMark
  BY <1>5 DEF ManualMark, ManualWork, ManualType, ManualState
<1>6. CASE ManualReport
  <2>1. \/ manual' = IdleManual
        \/ \E b \in BOOLEAN : manual' =
               [IdleManual EXCEPT !.phase = "select", !.all = TRUE, !.stalled = b]
    BY <1>6 DEF ManualReport, ManualReturn, ManualExit
  <2>2. manual'.phase \in {"off", "select"}
    BY <2>1, IdleManualPhase DEF ManualState
  <2> QED
    BY <2>2 DEF ManualWork
<1>7. CASE AcquireStep("manual")
  BY <1>7, AcquireRest, IdleManualPhase
  DEF Distillers, Acquiring, ManualWork, ManualType, ManualState
<1> QED
  BY <1>1, <1>2, <1>3, <1>4, <1>5, <1>6, <1>7 DEF ManualStep

(* And so do the synthesize-session processes, of which one moves. *)
LEMMA SynthWorkStep ==
  ASSUME TypeOK, WorkInProgress, NEW p \in Synths, SynthStep(p), Growth PROVE SynthWork'
<1> USE DEF TypeOK, WorkInProgress
<1>1. synth[p].session \in Sessions
  BY DEF SynthStep, SynthCheck, SynthRead, SynthSynthesize, SynthExtract,
     SynthFail, SynthMark, SynthRecord, SynthWork
<1>2. CASE SynthCheck(p) \/ SynthRead(p)
  BY <1>1, <1>2 DEF SynthCheck, SynthRead, SynthTo, SynthType, SynthWork, Growth
<1>3. CASE SynthSynthesize(p)
  <2>1. /\ synth[p].kind \in Kinds /\ synth[p].snap \in SUBSET Event
        /\ InsertSummary(synth[p].session, synth[p].kind, synth[p].snap)
    BY <1>3 DEF SynthSynthesize, SynthType
  <2>2. \A s \in Sessions, k \in Kinds, snap \in SUBSET Event :
           InsertSummary(s, k, snap) => HasSummary(s)'
    BY SummaryInserted
  <2>3. /\ synth'[p].session = synth[p].session
        /\ \A q \in Synths \ {p} : synth'[q] = synth[q]
    BY <1>3 DEF SynthSynthesize, SynthTo, SynthType
  <2>4. HasSummary(synth[p].session)'
    BY <1>1, <2>1, <2>2, <2>3 DEF HasSummary
  <2> QED
    BY <1>1, <2>3, <2>4 DEF SynthWork, Growth, HasSummary
<1>4. CASE SynthExtract(p) \/ SynthFail(p)
  BY <1>1, <1>4 DEF SynthExtract, SynthFail, SynthTo, SynthType, SynthWork, Growth
<1>5. CASE SynthMark(p) \/ SynthRecord(p)
  BY <1>1, <1>5 DEF SynthMark, SynthRecord, SynthTo, SynthType, SynthWork, Growth
<1> QED
  BY <1>2, <1>3, <1>4, <1>5 DEF SynthStep

LEMMA WorkStep == ASSUME TypeOK, WorkInProgress, Next PROVE WorkInProgress'
<1>1. Growth
  BY GrowthStep
<1>2. (UNCHANGED daemon => DaemonWork') /\ (UNCHANGED manual => ManualWork')
  BY <1>1 DEF WorkInProgress, DaemonWork, ManualWork, Growth, HasSummary
<1>3. UNCHANGED synth => SynthWork'
  BY <1>1 DEF WorkInProgress, SynthWork, Growth, HasSummary
<1>4. CASE DaemonStep
  <2>1. UNCHANGED <<manual, synth>>
    BY <1>4, AcquireRest DEF DaemonStep, Distillers, DaemonSelect, DaemonGate, DaemonLoad, DaemonFail, DaemonSynthesize, DaemonExtract, DaemonRecord, DaemonMark,
       DaemonCycleEnd, DaemonStart
  <2> QED
    BY <1>1, <1>2, <1>3, <1>4, <2>1, DaemonWorkStep DEF WorkInProgress
<1>5. CASE ManualStep
  <2>1. UNCHANGED <<daemon, synth>>
    BY <1>5, AcquireRest DEF ManualStep, Distillers, ManualSelect, ManualShort, ManualExtract,
       ManualFail, ManualMark, ManualReport
  <2> QED
    BY <1>1, <1>2, <1>3, <1>5, <2>1, ManualWorkStep DEF WorkInProgress
<1>6. ASSUME NEW p \in Synths, SynthStep(p) PROVE WorkInProgress'
  <2>1. UNCHANGED <<daemon, manual>>
    BY <1>6 DEF SynthStep, SynthCheck, SynthRead, SynthSynthesize, SynthExtract,
       SynthFail, SynthMark, SynthRecord
  <2> QED
    BY <1>1, <1>2, <1>6, <2>1, SynthWorkStep DEF WorkInProgress
<1>7. CASE Tick \/ SecondPasses \/ Environment
  <2>1. CASE \E s \in Sessions, b \in BOOLEAN : StoreEvent(s, b)
    BY <1>2, <1>3, <2>1 DEF StoreEvent, WorkInProgress
  <2>2. ASSUME NEW p \in Synths, NEW s \in Sessions, NEW k \in {"final", "clear"},
               SpawnSynthesis(p, s, k)
        PROVE  WorkInProgress'
    <3>1. SynthWork'
      BY <1>1, <2>2 DEF SpawnSynthesis, TypeOK, SynthType, WorkInProgress, SynthWork, Growth
    <3> QED
      BY <1>2, <2>2, <3>1 DEF SpawnSynthesis, WorkInProgress
  <2>3. CASE \E all \in BOOLEAN : ManualStart(all)
    BY <1>2, <1>3, <2>3 DEF ManualStart, IdleManual, WorkInProgress, ManualWork
  <2>4. CASE Tick \/ SecondPasses \/ LockAges
    BY <1>2, <1>3, <2>4 DEF Tick, SecondPasses, LockAges, WorkInProgress
  <2>5. CASE DaemonCrash
    BY <1>2, <1>3, <2>5 DEF DaemonCrash, IdleDaemon, WorkInProgress, DaemonWork
  <2>6. CASE ManualCrash
    BY <1>2, <1>3, <2>6 DEF ManualCrash, ManualExit, IdleManual, WorkInProgress, ManualWork
  <2>7. ASSUME NEW p \in Synths, SynthCrash(p) PROVE WorkInProgress'
    <3>1. SynthWork'
      BY <1>1, <2>7 DEF SynthCrash, SynthTo, TypeOK, SynthType, WorkInProgress, SynthWork, Growth
    <3> QED
      BY <1>2, <2>7, <3>1 DEF SynthCrash, WorkInProgress
  <2> QED
    BY <1>7, <2>1, <2>2, <2>3, <2>4, <2>5, <2>6, <2>7 DEF Environment
<1> QED
  BY <1>4, <1>5, <1>6, <1>7 DEF Next

-----------------------------------------------------------------------------
(* Whoever retires events has a summary of their session, has extracted    *)
(* from them, or drains them.                                              *)
LEMMA RetiredStep ==
  ASSUME TypeOK, WorkInProgress, RetiredEventsAccounted, Next
  PROVE  RetiredEventsAccounted'
<1> USE DEF TypeOK, WorkInProgress, RetiredEventsAccounted
<1>1. Growth
  BY GrowthStep
<1>2. ASSUME UNCHANGED distilled PROVE RetiredEventsAccounted'
  BY <1>1, <1>2 DEF Growth
<1>3. ASSUME NEW s, HasSummary(s), MarkSessionDistilled(s) PROVE RetiredEventsAccounted'
  BY <1>1, <1>3 DEF MarkSessionDistilled, StoredEvents, Growth
<1>4. CASE DaemonStep
  <2>1. ASSUME NEW s \in Sessions, DaemonLoad(s) PROVE RetiredEventsAccounted'
    BY <1>2, <1>3, <2>1, CheckpointHasSummary DEF DaemonLoad
  <2>2. CASE DaemonMark
    BY <1>3, <2>2 DEF DaemonMark, DaemonAt, DaemonWork
  <2> QED
    BY <1>2, <1>4, <2>1, <2>2, AcquireRest
    DEF DaemonStep, Distillers, DaemonSelect, DaemonGate, DaemonFail, DaemonSynthesize,
        DaemonExtract, DaemonRecord, DaemonCycleEnd, DaemonStart, db
<1>5. CASE ManualStep
  <2>1. CASE ManualShort
    BY <1>1, <1>2, <2>1 DEF ManualShort, Growth
  <2>2. CASE ManualMark
    BY <1>1, <2>2 DEF ManualMark, ManualAt, ManualWork, Growth
  <2> QED
    BY <1>2, <1>5, <2>1, <2>2, AcquireRest
    DEF ManualStep, Distillers, ManualSelect, ManualExtract, ManualFail, ManualReport, db
<1>6. ASSUME NEW p \in Synths, SynthStep(p) PROVE RetiredEventsAccounted'
  <2>1. CASE SynthMark(p)
    BY <1>3, <2>1 DEF SynthMark, SynthWork
  <2> QED
    BY <1>2, <1>6, <2>1
    DEF SynthStep, SynthCheck, SynthRead, SynthSynthesize, SynthExtract, SynthFail,
        SynthRecord, db
<1>7. CASE Tick \/ SecondPasses \/ Environment
  BY <1>2, <1>7 DEF Tick, SecondPasses, Environment, StoreEvent, SpawnSynthesis, ManualStart, LockAges,
     DaemonCrash, ManualCrash, SynthCrash, db
<1> QED
  BY <1>4, <1>5, <1>6, <1>7 DEF Next

-----------------------------------------------------------------------------
LEMMA GoesTo ==
  ASSUME TypeOK, NEW d \in Distillers, NEW step, Goto(d, step) PROVE acq'[d].at = step
BY DEF TypeOK, SharedType, Goto, Attempt

(* What a step of acquireDistillLock does to the lock and to the attempt.  *)
AcquireMoved(d) ==
    /\ Acquiring(d) /\ ~ Working(d)
    /\ acq'[Other(d)] = acq[Other(d)]
    /\ Working(Other(d))' = Working(Other(d))
    /\ Acquiring(Other(d))' = Acquiring(Other(d))
    /\ lock' = lock \/ lock' = NoLock \/ lock'.owner = d

LEMMA AcquireMoves ==
  ASSUME TypeOK, NEW d \in Distillers, AcquireStep(d) PROVE AcquireMoved(d)
<1>1. Acquiring(d) /\ ~ Working(d)
  BY AcquireRest DEF Distillers, Acquiring, Working, DaemonHolds, ManualHolds, Idle
<1>2. /\ Working(Other(d))' = Working(Other(d))
      /\ Acquiring(Other(d))' = Acquiring(Other(d))
  BY AcquireRest DEF Distillers, Other, Acquiring, Working, DaemonHolds, ManualHolds
<1>3. acq'[Other(d)] = acq[Other(d)]
  BY DEF TypeOK, SharedType, Distillers, Other, AcquireStep, LockCreate, LockAge, LockRead,
     LockSize, LockCheck, LockRemove, LockWrite, LockFails, Judged, Blocked, Goto
<1>4. lock' = lock \/ lock' = NoLock \/ lock'.owner = d
  <2>1. CASE LockCreate(d)
    BY <2>1 DEF LockCreate
  <2>2. CASE LockWrite(d)
    BY <2>2 DEF LockWrite, TypeOK, SharedType, LockFile
  <2> QED
    BY <2>1, <2>2 DEF AcquireStep, LockAge, LockRead, LockSize, LockCheck, LockRemove, LockFails
<1> QED
  BY <1>1, <1>2, <1>3, <1>4 DEF AcquireMoved

(* The other steps, by what they mean for the lock: they leave it alone,   *)
(* let somebody go for it, let it age, end a process, end a cycle, or      *)
(* start the daemon.                                                       *)
SameWork(d) == Working(d)' = Working(d) /\ Acquiring(d)' = Acquiring(d)
OffWork(d)  == ~ Working(d)' /\ ~ Acquiring(d)'
Judgements  == UNCHANGED <<reclaimed, raced>>

Kept == UNCHANGED <<lock, acq>> /\ Judgements /\ \A d \in Distillers : SameWork(d)

Enters(d) == /\ UNCHANGED <<lock, acq>> /\ Judgements
             /\ ~ Acquiring(d) /\ ~ Working(d) /\ ~ Working(d)' /\ SameWork(Other(d))

Aged == /\ UNCHANGED acq /\ Judgements /\ \A d \in Distillers : SameWork(d)
        /\ lock'.owner = lock.owner
        /\ lock'.content = lock.content \/ lock.content = "fresh"

Ends(d) == /\ Ended(d) /\ Judgements /\ OffWork(d) /\ SameWork(Other(d))
           /\ (lock' = NoLock /\ Working(d)) \/ LeftBehind(d)

CycleEnds == /\ UNCHANGED acq /\ Judgements /\ lock' = NoLock
             /\ Working("daemon") /\ OffWork("daemon") /\ SameWork("manual")

Starts == /\ UNCHANGED <<acq, raced>> /\ lock' = NoLock
          /\ reclaimed' = (reclaimed \/ lock.owner \in Distillers)
          /\ OffWork("daemon") /\ ~ Acquiring("daemon") /\ SameWork("manual")

LockMove ==
    \/ \E d \in Distillers : AcquireStep(d) \/ Enters(d) \/ Ends(d)
    \/ Kept \/ Aged \/ CycleEnds \/ Starts

LEMMA LockMoves == ASSUME TypeOK, Next PROVE LockMove
<1> USE DEF TypeOK, LockMove, Judgements, SameWork, OffWork, Working, Acquiring, DaemonHolds,
            ManualHolds, Distillers, Other
<1>1. ASSUME UNCHANGED <<lock, acq, daemon, manual, reclaimed, raced>> PROVE LockMove
  BY <1>1 DEF Kept
<1>2. CASE DaemonStep
  <2> USE DEF Idle, DaemonType
  <2>1. CASE DaemonSelect
    BY <2>1 DEF DaemonSelect, DaemonAt, hist, Kept
  <2>2. CASE DaemonGate
    <3>1. CASE daemon' = IdleDaemon
      BY <2>2, <3>1 DEF DaemonGate, DaemonAt, IdleDaemon, hist, Kept
    <3>2. CASE daemon' = [daemon EXCEPT !.phase = "gated"]
      BY <2>2, <3>2 DEF DaemonGate, DaemonAt, hist, Enters
    <3> QED
      BY <2>2, <3>1, <3>2 DEF DaemonGate
  <2>3. CASE AcquireStep("daemon")
    BY <2>3
  <2>4. CASE \E s \in Sessions : DaemonLoad(s)
    BY <2>4 DEF DaemonLoad, DaemonAt, hist, Kept
  <2>5. CASE DaemonFail \/ DaemonMark
    BY <2>5 DEF DaemonFail, DaemonMark, DaemonAt, NextSession, hist, Kept
  <2>6. CASE DaemonSynthesize \/ DaemonExtract \/ DaemonRecord
    BY <2>6 DEF DaemonSynthesize, DaemonExtract, DaemonRecord, DaemonAt, hist, Kept
  <2>7. CASE DaemonCycleEnd
    BY <2>7 DEF DaemonCycleEnd, DaemonAt, IdleDaemon, CycleEnds
  <2>8. CASE DaemonStart
    BY <2>8 DEF DaemonStart, DaemonAt, IdleDaemon, Starts
  <2> QED
    BY <1>2, <2>1, <2>2, <2>3, <2>4, <2>5, <2>6, <2>7, <2>8 DEF DaemonStep
<1>3. ASSUME UNCHANGED <<daemon, reclaimed, raced>>, ManualExit PROVE LockMove
  BY <1>3, IdleManualPhase DEF ManualExit, Ends
<1>4. ASSUME UNCHANGED <<daemon, reclaimed, raced>>, ManualHolds, ManualReturn PROVE LockMove
  BY <1>4, IdleManualPhase DEF ManualReturn, Ends
<1>5. ASSUME UNCHANGED <<lock, acq, daemon, reclaimed, raced>>, ManualHolds, ManualHolds'
      PROVE  LockMove
  BY <1>5 DEF Kept
<1>6. CASE ManualStep
  <2> USE DEF ManualType, ManualState
  <2>1. CASE ManualSelect
    BY <1>4, <1>5, <2>1 DEF ManualSelect, ManualAt, hist
  <2>2. CASE ManualShort \/ (\E none \in BOOLEAN : ManualExtract(none)) \/ ManualMark
    BY <1>5, <2>2 DEF ManualShort, ManualExtract, ManualMark, ManualAt, hist
  <2>3. CASE ManualFail
    BY <1>3, <1>4, <2>3 DEF ManualFail, ManualAt, hist
  <2>4. CASE ManualReport
    <3>1. UNCHANGED <<daemon, reclaimed, raced>> /\ ManualHolds
      BY <2>4 DEF ManualReport, ManualAt, hist
    <3>2. CASE \E b \in BOOLEAN : manual' =
                 [IdleManual EXCEPT !.phase = "select", !.all = TRUE, !.stalled = b]
              /\ UNCHANGED <<lock, acq>>
      BY <1>5, <3>1, <3>2, IdleManualPhase
    <3> QED
      BY <1>3, <1>4, <2>4, <3>1, <3>2 DEF ManualReport
  <2>5. CASE AcquireStep("manual")
    BY <2>5
  <2> QED
    BY <1>6, <2>1, <2>2, <2>3, <2>4, <2>5 DEF ManualStep
<1>7. CASE \E all \in BOOLEAN : ManualStart(all)
  BY <1>7, IdleManualPhase DEF ManualStart, ManualAt, ManualState, hist, Enters
<1>8. CASE DaemonCrash
  BY <1>8 DEF DaemonCrash, IdleDaemon, Idle, hist, Ends
<1>9. CASE ManualCrash
  BY <1>3, <1>9 DEF ManualCrash, hist
<1>10. CASE LockAges \/ SecondPasses
  BY <1>10 DEF LockAges, SecondPasses, SharedType, LockFile, hist, Aged
<1>11. ASSUME NEW p \in Synths, SynthStep(p) \/ SynthCrash(p) PROVE LockMove
  BY <1>1, <1>11 DEF SynthStep, SynthCheck, SynthRead, SynthSynthesize, SynthExtract,
     SynthFail, SynthMark, SynthRecord, SynthCrash, hist
<1>12. CASE \/ \E s \in Sessions, b \in BOOLEAN : StoreEvent(s, b)
            \/ \E p \in Synths, s \in Sessions, k \in {"final", "clear"} : SpawnSynthesis(p, s, k)
            \/ Tick
  BY <1>1, <1>12 DEF StoreEvent, SpawnSynthesis, Tick, hist
<1> QED
  BY <1>2, <1>6, <1>7, <1>8, <1>9, <1>10, <1>11, <1>12 DEF Next, Environment

(* A lock that names a process is never one that has ended.                *)
LEMMA OwnersStep ==
  ASSUME TypeOK, LockOwnersLive, Next PROVE LockOwnersLive'
<1> USE DEF TypeOK, SharedType, LockOwnersLive, AcquireAt, Judgements, SameWork, OffWork
<1>0. /\ \A d \in Distillers : Other(d) \in Distillers /\ Other(d) # d
      /\ \A d \in Distillers : \A e \in Distillers : e = d \/ e = Other(d)
      /\ "daemon" \in Distillers /\ "manual" = Other("daemon") /\ "none" \notin Distillers
      /\ "dead" \notin Distillers /\ NoLock.owner = "none"
  BY DEF Distillers, Other, NoLock
<1>1. ASSUME NEW d \in Distillers, AcquireStep(d) PROVE LockOwnersLive'
  <2>1. AcquireMoved(d)
    BY <1>1, AcquireMoves
  <2>2. Acquiring(d)' \/ acq'[d] = FirstTry
    BY <1>1 DEF AcquireStep, LockCreate, LockAge, LockRead, LockSize, LockCheck, LockRemove,
       LockWrite, LockFails, Judged, Blocked, Acquiring, Distillers
  <2>3. lock'.owner = d => Working(d)' \/ (Acquiring(d)' /\ acq'[d].at = "write")
    <3>1. CASE LockCreate(d)
      <4>1. Acquiring(d)'
        BY <2>1, <3>1 DEF LockCreate, AcquireMoved, Acquiring
      <4>2. lock.owner = d => acq[d].at = "write"
        BY <2>1 DEF AcquireMoved
      <4>3. lock.owner = "none" => acq'[d].at = "write"
        BY <3>1, GoesTo DEF LockCreate
      <4> QED
        BY <3>1, <4>1, <4>2, <4>3 DEF LockCreate, AcquireAt
    <3>2. CASE LockWrite(d)
      BY <3>2 DEF LockWrite, Distillers, Working, DaemonHolds, ManualHolds, Idle, DaemonType,
         ManualType, ManualState
    <3>3. CASE LockAge(d) \/ LockRead(d) \/ LockSize(d) \/ LockCheck(d)
      <4>1. lock' = lock /\ acq[d].at # "write"
        BY <3>3 DEF LockAge, LockRead, LockSize, LockCheck, AcquireAt, hist
      <4> QED
        BY <2>1, <4>1 DEF AcquireMoved
    <3>4. CASE LockRemove(d) \/ LockFails(d)
      <4>1. \/ lock' = NoLock
            \/ lock' = lock /\ acq[d].at # "write"
        BY <3>4 DEF LockRemove, LockFails, AcquireAt
      <4> QED
        BY <1>0, <2>1, <4>1 DEF AcquireMoved
    <3> QED
      BY <1>1, <3>1, <3>2, <3>3, <3>4 DEF AcquireStep
  <2> QED
    BY <1>0, <2>1, <2>2, <2>3 DEF AcquireMoved
<1>2. CASE Kept \/ Aged
  BY <1>2 DEF Kept, Aged
<1>3. ASSUME NEW d \in Distillers, Enters(d) PROVE LockOwnersLive'
  BY <1>0, <1>3 DEF Enters
<1>4. ASSUME NEW d \in Distillers, Ends(d) PROVE LockOwnersLive'
  <2>1. /\ acq'[d] = FirstTry
        /\ acq'[Other(d)] = [acq[Other(d)] EXCEPT !.pid = IF @ = d THEN "dead" ELSE @]
    BY <1>0, <1>4 DEF Ends, Ended
  <2>2. acq'[Other(d)].at = acq[Other(d)].at
        /\ (acq[Other(d)] = FirstTry => acq'[Other(d)] = FirstTry)
    BY <1>0, <2>1 DEF Attempt, FirstTry, Distillers
  <2>3. lock'.owner # d /\ (lock'.owner \in Distillers => lock'.owner = lock.owner)
    BY <1>0, <1>4 DEF Ends, LeftBehind, LockFile
  <2> QED
    BY <1>0, <1>4, <2>1, <2>2, <2>3 DEF Ends
<1>5. CASE CycleEnds \/ Starts
  BY <1>0, <1>5 DEF CycleEnds, Starts, Working, Acquiring, DaemonHolds, Idle
<1> QED
  BY LockMoves, <1>1, <1>2, <1>3, <1>4, <1>5 DEF LockMove

(* Without a reclaim and without a race, whoever finds the lock stale is   *)
(* right, so a distiller that works keeps its file.                        *)
LEMMA LockStep ==
  ASSUME TypeOK, LockOwnersLive, HoldersOwnTheLock, Next PROVE HoldersOwnTheLock'
<1> USE DEF TypeOK, SharedType, HistoryType, Judgements, SameWork, OffWork
<1>0. /\ \A d \in Distillers : Other(d) \in Distillers /\ Other(d) # d /\ Other(Other(d)) = d
      /\ \A d \in Distillers : \A e \in Distillers : e = d \/ e = Other(d)
      /\ Distillers = {"daemon", "manual"}
      /\ "daemon" \in Distillers /\ "manual" = Other("daemon") /\ "none" \notin Distillers
      /\ "dead" \notin Distillers /\ NoLock.owner = "none"
  BY DEF Distillers, Other, NoLock
<1>1. ASSUME NEW d \in Distillers, AcquireStep(d) PROVE HoldersOwnTheLock'
  <2> DEFINE o == Other(d)
  <2>1. AcquireMoved(d) /\ o \in Distillers /\ o # d
    BY <1>0, <1>1, AcquireMoves
  <2>2. SUFFICES ASSUME ~ reclaimed', ~ raced'
                 PROVE  /\ ~ (Inside(d)' /\ Inside(o)')
                        /\ Working(d)' => lock'.owner = d /\ lock'.content = "pid"
                        /\ AcquireAt(d, "write")' => lock'.owner = d
                        /\ FoundStale(d)' => lock'.owner \notin Distillers
                        /\ Working(o)' => lock'.owner = o /\ lock'.content = "pid"
                        /\ AcquireAt(o, "write")' => lock'.owner = o
                        /\ FoundStale(o)' => lock'.owner \notin Distillers
    BY <1>0 DEF HoldersOwnTheLock
  <2>3. ~ reclaimed /\ ~ raced
    BY <1>1, <2>2 DEF AcquireStep, LockCreate, LockAge, LockRead, LockSize, LockCheck,
       LockRemove, LockWrite, LockFails, hist
  <2>4. /\ ~ (Inside(d) /\ Inside(o))
        /\ AcquireAt(d, "write") => lock.owner = d
        /\ FoundStale(d) => lock.owner \notin Distillers
        /\ Working(o) => lock.owner = o /\ lock.content = "pid"
        /\ AcquireAt(o, "write") => lock.owner = o
        /\ FoundStale(o) => lock.owner \notin Distillers
    BY <1>0, <2>3 DEF HoldersOwnTheLock
  <2>5. /\ Inside(o)' = Inside(o) /\ FoundStale(o)' = FoundStale(o)
        /\ Working(o)' = Working(o) /\ AcquireAt(o, "write")' = AcquireAt(o, "write")
    BY <2>1 DEF AcquireMoved, Inside, FoundStale, AcquireAt
  <2>6. /\ FoundStale(o) \/ AcquireAt(o, "write") => Inside(o)
        /\ \A step \in {"age", "read", "size", "check", "remove", "write"} :
              AcquireAt(d, step) => Inside(d)
    BY DEF FoundStale, AcquireAt, Inside, FirstTry
  <2>7. Acquiring(d) /\ ~ Working(d)
    BY <2>1 DEF AcquireMoved
  <2> HIDE DEF o
  <2>8. lock.owner = d => AcquireAt(d, "write")
    BY <2>7 DEF LockOwnersLive
  <2>9. lock.owner = o => Working(o) \/ AcquireAt(o, "write")
    BY <2>1 DEF LockOwnersLive
  <2>10. CASE LockCreate(d)
    <3>1. ~ Inside(o) /\ ~ Working(d)' /\ AcquireAt(d, "create")
      BY <2>1, <2>2, <2>7, <2>10 DEF LockCreate, Inside, o, Working, DaemonHolds, ManualHolds
    <3>2. lock' = lock \/ (lock.owner = "none" /\ lock'.owner = d)
      BY <2>10 DEF LockCreate
    <3>3. acq'[d].at = (IF lock.owner = "none" THEN "write" ELSE "age")
      BY <2>10, GoesTo DEF LockCreate
    <3>4. ~ FoundStale(d)' /\ (AcquireAt(d, "write")' => lock.owner = "none")
      BY <3>3 DEF FoundStale, AcquireAt
    <3>5. lock.owner = "none" => lock'.owner = d
      BY <2>10 DEF LockCreate
    <3> QED
      BY <1>0, <2>1, <2>4, <2>5, <2>6, <3>1, <3>2, <3>4, <3>5
  <2>11. CASE LockFails(d)
    <3>1. ~ Acquiring(d)' /\ ~ Working(d)'
      BY <2>11 DEF LockFails, Blocked, Acquiring, Working, DaemonHolds, ManualHolds, IdleDaemon,
         IdleManual, Idle
    <3>2. ~ Inside(d)' /\ ~ FoundStale(d)' /\ ~ AcquireAt(d, "write")'
      BY <3>1 DEF Inside, FoundStale, AcquireAt
    <3>3. lock' = lock \/ (lock' = NoLock /\ AcquireAt(d, "write"))
      BY <2>11 DEF LockFails
    <3> QED
      BY <1>0, <2>1, <2>4, <2>5, <2>6, <3>1, <3>2, <3>3
  <2>12. CASE Inside(d) /\ ~ LockCreate(d) /\ ~ LockFails(d)
    <3>1. ~ Inside(o)
      BY <2>4, <2>12
    <3>2. CASE LockAge(d)
      <4>1. /\ lock' = lock /\ acq'[d].at = (IF lock.old THEN "remove" ELSE "read")
            /\ ~ (lock.old /\ lock.owner \in Distillers) /\ UNCHANGED <<daemon, manual>>
        BY <2>2, <3>2, GoesTo DEF LockAge
      <4> QED
        BY <2>4, <2>5, <2>6, <2>7, <3>1, <4>1
        DEF FoundStale, AcquireAt, Working, DaemonHolds, ManualHolds
    <3>3. CASE LockRead(d)
      <4>1. /\ lock' = lock /\ UNCHANGED <<daemon, manual>> /\ acq[d].at = "read"
            /\ lock.content # "pid" => acq'[d].at = "size"
            /\ lock.content = "pid" => acq'[d].at = "check" /\ acq'[d].pid = lock.owner
        BY <3>3 DEF LockRead, Goto, AcquireAt, hist, Attempt
      <4>2. lock.owner \in Distillers => lock.owner = o /\ lock.content = "pid"
        BY <1>0, <2>4, <2>6, <2>8, <2>9, <3>1, <4>1 DEF AcquireAt, o
      <4> QED
        BY <1>0, <2>4, <2>5, <2>6, <2>7, <3>1, <4>1, <4>2
        DEF FoundStale, AcquireAt, Working, DaemonHolds, ManualHolds
    <3>4. CASE LockSize(d) \/ LockCheck(d)
      <4>1. lock' = lock
        BY <3>4 DEF LockSize, LockCheck
      <4>2. \/ ~ Acquiring(d)' /\ ~ Working(d)'
            \/ UNCHANGED <<daemon, manual>> /\ acq'[d].at = "remove" /\ FoundStale(d)
        <5>1. ~ FoundStale(d) => LockCheck(d) /\ acq[d].pid # "dead"
          <6>1. LockSize(d) => AcquireAt(d, "size")
            BY DEF LockSize
          <6>2. LockCheck(d) => AcquireAt(d, "check")
            BY DEF LockCheck
          <6> QED
            BY <3>4, <6>1, <6>2 DEF FoundStale
        <5>2. Blocked(d) => ~ Acquiring(d)' /\ ~ Working(d)'
          BY DEF Blocked, Acquiring, Working, DaemonHolds, ManualHolds, IdleDaemon,
             IdleManual, Idle
        <5>3. LockCheck(d) /\ acq[d].pid # "dead" => Blocked(d)
          BY DEF LockCheck, Judged
        <5>4. Blocked(d) \/ (Goto(d, "remove") /\ UNCHANGED <<daemon, manual>>)
          BY <3>4 DEF LockSize, LockCheck, Judged
        <5> QED
          BY <5>1, <5>2, <5>3, <5>4, GoesTo
      <4> QED
        BY <2>4, <2>5, <2>6, <2>7, <3>1, <4>1, <4>2
        DEF FoundStale, AcquireAt, Working, DaemonHolds, ManualHolds
    <3>5. CASE LockRemove(d)
      <4>1. lock' = NoLock /\ FoundStale(d)
        BY <3>5 DEF LockRemove, FoundStale
      <4>2. ~ Working(d)' /\ (acq'[d].at = "create" \/ ~ Acquiring(d)')
        BY <2>7, <3>5 DEF LockRemove, Blocked, FirstTry, Acquiring, Working, DaemonHolds,
           ManualHolds, IdleDaemon, IdleManual, Idle
      <4> QED
        BY <1>0, <2>1, <2>4, <2>5, <2>6, <3>1, <4>1, <4>2 DEF FoundStale, AcquireAt
    <3>6. CASE LockWrite(d)
      <4>1. AcquireAt(d, "write") /\ lock.owner = d
        BY <2>4, <3>6 DEF LockWrite
      <4>2. lock'.owner = d /\ lock'.content = "pid" /\ acq'[d].at = "create"
        BY <3>6, <4>1 DEF LockWrite, LockFile, FirstTry
      <4> QED
        BY <1>0, <2>1, <2>4, <2>5, <2>6, <3>1, <4>1, <4>2 DEF FoundStale, AcquireAt
    <3> QED
      BY <1>1, <2>12, <3>2, <3>3, <3>4, <3>5, <3>6 DEF AcquireStep
  <2> QED
    BY <1>1, <2>6, <2>10, <2>11, <2>12
    DEF AcquireStep, LockAge, LockRead, LockSize, LockCheck, LockRemove, LockWrite
<1>2. CASE Kept \/ Aged
  <2>1. /\ UNCHANGED acq /\ \A d \in Distillers : SameWork(d)
        /\ lock'.owner = lock.owner
        /\ lock.content = "pid" => lock'.content = "pid"
        /\ UNCHANGED <<reclaimed, raced>>
    BY <1>2 DEF Kept, Aged
  <2> QED
    BY <1>0, <2>1 DEF HoldersOwnTheLock, Inside, FoundStale, AcquireAt
<1>3. ASSUME NEW d \in Distillers, Enters(d) PROVE HoldersOwnTheLock'
  <2>1. acq'[d] = FirstTry
    BY <1>3 DEF Enters, LockOwnersLive
  <2> QED
    BY <1>0, <1>3, <2>1 DEF Enters, HoldersOwnTheLock, Inside, FoundStale, AcquireAt, FirstTry
<1>4. ASSUME NEW d \in Distillers, Ends(d) PROVE HoldersOwnTheLock'
  <2>1. /\ acq'[d] = FirstTry
        /\ acq'[Other(d)] = [acq[Other(d)] EXCEPT !.pid = IF @ = d THEN "dead" ELSE @]
    BY <1>0, <1>4 DEF Ends, Ended
  <2> DEFINE o == Other(d)
  <2>2. /\ o \in Distillers /\ o # d /\ ~ Working(d)' /\ ~ Acquiring(d)'
        /\ Working(o)' = Working(o) /\ Acquiring(o)' = Acquiring(o)
        /\ acq'[o] = [acq[o] EXCEPT !.pid = IF @ = d THEN "dead" ELSE @]
        /\ UNCHANGED <<reclaimed, raced>>
    BY <1>0, <1>4, <2>1 DEF Ends
  <2>3. acq'[o].at = acq[o].at /\ (acq'[o].pid = "dead" => acq[o].pid \in {"dead", d})
    BY <1>0, <2>2 DEF Attempt
  <2>4. lock' # lock => lock'.owner \notin Distillers
    BY <1>0, <1>4 DEF Ends, LeftBehind, LockFile
  <2>5. lock'.owner # d
    BY <1>0, <1>4 DEF Ends, LeftBehind, LockFile
  <2> HIDE DEF o
  <2>6. SUFFICES ASSUME ~ reclaimed, ~ raced
                 PROVE  /\ Working(o) => lock'.owner = o /\ lock'.content = "pid"
                        /\ AcquireAt(o, "write") => lock'.owner = o
                        /\ FoundStale(o)' => lock'.owner \notin Distillers
    <3>1. /\ ~ Inside(d)' /\ ~ FoundStale(d)' /\ ~ AcquireAt(d, "write")'
          /\ AcquireAt(o, "write")' = AcquireAt(o, "write")
      BY <2>2, <2>3 DEF Inside, FoundStale, AcquireAt
    <3> QED
      BY <1>0, <2>2, <3>1 DEF HoldersOwnTheLock, o
  <2>7. /\ Working(o) => lock.owner = o /\ lock.content = "pid"
        /\ AcquireAt(o, "write") => lock.owner = o
        /\ Working(d) => lock.owner = d
    BY <2>2, <2>6 DEF HoldersOwnTheLock
  <2>8. lock.owner = o => lock' = lock
    BY <1>4, <2>2, <2>7 DEF Ends, LeftBehind
  <2>9. ASSUME FoundStale(o)', lock'.owner \in Distillers PROVE FALSE
    <3>1. lock' = lock /\ lock.owner = o
      BY <1>0, <2>4, <2>5, <2>9 DEF o
    <3>2. Working(o) \/ AcquireAt(o, "write")
      BY <2>2, <3>1 DEF LockOwnersLive
    <3>3. Acquiring(o) /\ acq[o].at \in {"size", "remove", "check"}
      BY <2>2, <2>3, <2>9 DEF FoundStale, AcquireAt
    <3>4. ~ (Acquiring(o) /\ Working(o))
      BY DEF Acquiring, Working, DaemonHolds, ManualHolds, Idle
    <3> QED
      BY <3>2, <3>3, <3>4 DEF AcquireAt
  <2> QED
    BY <2>7, <2>8, <2>9
<1>5. CASE CycleEnds
  <2>1. /\ UNCHANGED <<acq, reclaimed, raced>> /\ lock' = NoLock
        /\ Working("daemon") /\ ~ Working("daemon")' /\ ~ Acquiring("daemon")'
        /\ Working("manual")' = Working("manual") /\ Acquiring("manual")' = Acquiring("manual")
    BY <1>5 DEF CycleEnds
  <2> QED
    BY <1>0, <2>1 DEF HoldersOwnTheLock, Inside, FoundStale, AcquireAt
<1>6. CASE Starts
  <2>1. /\ UNCHANGED <<acq, raced>> /\ lock' = NoLock
        /\ ~ reclaimed' => ~ reclaimed /\ lock.owner \notin Distillers
        /\ ~ Working("daemon")' /\ ~ Acquiring("daemon")'
        /\ Working("manual")' = Working("manual") /\ Acquiring("manual")' = Acquiring("manual")
    BY <1>6 DEF Starts
  <2> QED
    BY <1>0, <2>1 DEF HoldersOwnTheLock, Inside, FoundStale, AcquireAt
<1> QED
  BY LockMoves, <1>1, <1>2, <1>3, <1>4, <1>5, <1>6 DEF LockMove

-----------------------------------------------------------------------------
LEMMA InitIInv == Init => IInv
<1> SUFFICES ASSUME Init PROVE IInv
  OBVIOUS
<1> USE ConstantsAssumption DEF Init
<1>1. TablesType
  BY DEF TablesType
<1>2. SharedType
  BY NoLockType DEF SharedType, Health, Distillers, FirstTry, Attempt
<1>3. DaemonType
  BY DEF DaemonType, IdleDaemon, Idle
<1>4. ManualType
  BY IdleManualPhase DEF ManualType
<1>5. SynthType
  BY DEF SynthType, UnusedSynth, Kinds
<1>6. HistoryType
  BY DEF HistoryType, Bounds
<1>7. WorkInProgress
  BY IdleManualPhase DEF WorkInProgress, DaemonWork, SynthWork, ManualWork, IdleDaemon, UnusedSynth
<1>8. RetiredEventsAccounted
  BY DEF RetiredEventsAccounted
<1>9. \A d \in Distillers : ~ Working(d) /\ ~ Acquiring(d)
  BY IdleManualPhase DEF Working, Acquiring, DaemonHolds, ManualHolds, Idle, IdleDaemon
<1>10. LockOwnersLive /\ HoldersOwnTheLock
  BY <1>9 DEF LockOwnersLive, HoldersOwnTheLock, Inside, AcquireAt, FoundStale, NoLock, Distillers
<1> QED
  BY <1>1, <1>2, <1>3, <1>4, <1>5, <1>6, <1>7, <1>8, <1>10 DEF IInv, TypeOK

LEMMA StutterIInv == ASSUME IInv, UNCHANGED vars PROVE IInv'
BY DEF IInv, TypeOK, TablesType, SharedType, DaemonType, ManualType, SynthType, HistoryType,
       WorkInProgress, DaemonWork, SynthWork, ManualWork, RetiredEventsAccounted, HasSummary,
       LockOwnersLive, HoldersOwnTheLock, FoundStale, AcquireAt, Acquiring, Inside, Working,
       DaemonHolds, ManualHolds, vars

(* The invariant that supports the others holds in every reachable state. *)
THEOREM IInvCorrect == Spec => []IInv
<1>1. IInv /\ [Next]_vars => IInv'
  <2>1. ASSUME IInv, Next PROVE IInv'
    BY <2>1, TypeStep, WorkStep, RetiredStep, OwnersStep, LockStep DEF IInv
  <2> QED
    BY <2>1, StutterIInv
<1> QED
  BY InitIInv, <1>1, PTL DEF Spec

(* Every variable keeps its type. *)
THEOREM TypeCorrect == Spec => []TypeOK
<1>1. IInv => TypeOK
  BY DEF IInv
<1> QED
  BY <1>1, IInvCorrect, PTL

(* However many processes write the distilled column, and wherever they    *)
(* die, no event is retired that was neither summarised with its session,  *)
(* nor extracted from, nor drained as too few.                             *)
THEOREM RetiredCorrect == Spec => []RetiredEventsAccounted
<1>1. IInv => RetiredEventsAccounted
  BY DEF IInv
<1> QED
  BY <1>1, IInvCorrect, PTL

(* The daemon's cycle and forge distill exclude each other until the lock  *)
(* of a live distiller is reclaimed, for its age or by a starting daemon,  *)
(* or the two meet inside acquireDistillLock.                              *)
THEOREM ExclusionCorrect == Spec => []ExclusionUnlessReclaimed
<1>1. IInv => ExclusionUnlessReclaimed
  BY DEF IInv, HoldersOwnTheLock, ExclusionUnlessReclaimed, Working, Distillers
<1> QED
  BY <1>1, IInvCorrect, PTL

(* The counter of skipped cycles and the reports of a wedge are written    *)
(* together, by the blocked cycle and by the cycle that runs.              *)
LEMMA WedgeStep ==
  ASSUME TypeOK, WedgeReportedOnce, Next PROVE WedgeReportedOnce'
<1> USE ConstantsAssumption DEF TypeOK, SharedType, HistoryType, WedgeReportedOnce
<1>1. ASSUME UNCHANGED <<skips, wedges>> PROVE WedgeReportedOnce'
  BY <1>1
<1>2. CASE DaemonStep
  <2>1. CASE AcquireStep("daemon")
    BY <1>1, <2>1, AcquireSkips DEF NoteDistillSkip, Distillers
  <2>2. CASE DaemonCycleEnd \/ DaemonStart
    BY <2>2 DEF DaemonCycleEnd, DaemonStart
  <2> QED
    BY <1>1, <1>2, <2>1, <2>2
    DEF DaemonStep, DaemonSelect, DaemonGate, DaemonLoad, DaemonFail,
        DaemonSynthesize, DaemonExtract, DaemonRecord, DaemonMark, hist
<1>3. CASE ManualStep
  <2>1. CASE AcquireStep("manual")
    BY <1>1, <2>1, AcquireSkips DEF NoteDistillSkip, Distillers
  <2> QED
    BY <1>1, <1>3, <2>1
    DEF ManualStep, ManualSelect, ManualShort, ManualExtract, ManualFail, ManualMark,
        ManualReport, hist
<1>4. CASE \E p \in Synths : SynthStep(p)
  BY <1>1, <1>4
  DEF SynthStep, SynthCheck, SynthRead, SynthSynthesize, SynthExtract, SynthFail,
      SynthMark, SynthRecord, hist
<1>5. CASE Tick \/ SecondPasses \/ Environment
  BY <1>1, <1>5
  DEF Tick, SecondPasses, Environment, StoreEvent, SpawnSynthesis, ManualStart, LockAges, DaemonCrash,
      ManualCrash, SynthCrash, hist
<1> QED
  BY <1>2, <1>3, <1>4, <1>5 DEF Next

(* An episode of skipped cycles is recorded as one failure: never as none  *)
(* once the limit is reached, and never as two.                            *)
THEOREM WedgeCorrect == Spec => []WedgeReportedOnce
<1>1. Init => WedgeReportedOnce
  BY ConstantsAssumption DEF Init, WedgeReportedOnce
<1>2. TypeOK /\ WedgeReportedOnce /\ [Next]_vars => WedgeReportedOnce'
  <2>1. ASSUME WedgeReportedOnce, UNCHANGED vars PROVE WedgeReportedOnce'
    BY <2>1 DEF WedgeReportedOnce, vars
  <2> QED
    BY <2>1, WedgeStep
<1> QED
  BY <1>1, <1>2, TypeCorrect, PTL DEF Spec

-----------------------------------------------------------------------------
(* Rows of the table that the daemon stored. *)
LEMMA OthersAppend ==
  ASSUME TypeOK, OneDaemonSummary, NEW s \in Sessions, NEW kind \in Kinds, NEW snap,
         InsertSummary(s, kind, snap),
         kind # "daemon" \/ ~ HasSessionCheckpoint(s, "daemon")
  PROVE  OneDaemonSummary'
<1> DEFINE row == [session |-> s, kind |-> kind, covers |-> snap]
<1>1. summaries' = Append(summaries, row)
  BY DEF InsertSummary
<1>2. Len(summaries) \in Nat /\ DOMAIN summaries = 1..Len(summaries)
  BY DEF TypeOK, TablesType
<1>3. DOMAIN summaries' = 1..(Len(summaries) + 1)
  BY <1>1, <1>2 DEF TypeOK, TablesType
<1>4. \A i \in DOMAIN summaries : summaries'[i] = summaries[i]
  BY <1>1, <1>2 DEF TypeOK, TablesType
<1>5. summaries'[Len(summaries) + 1] = row
  BY <1>1, <1>2 DEF TypeOK, TablesType
<1> HIDE DEF row
<1>6. row.session = s /\ row.kind = kind
  BY DEF row
<1>7. SUFFICES ASSUME NEW i \in DOMAIN summaries', NEW j \in DOMAIN summaries',
                      summaries'[i].kind = "daemon", summaries'[j].kind = "daemon",
                      summaries'[i].session = summaries'[j].session
               PROVE  i = j
  BY DEF OneDaemonSummary
<1>8. ASSUME NEW k \in DOMAIN summaries, summaries[k].kind = "daemon",
             summaries[k].session = s, kind = "daemon"
      PROVE  FALSE
  BY <1>8 DEF HasSessionCheckpoint
<1>9. CASE i \in DOMAIN summaries /\ j \in DOMAIN summaries
  BY <1>4, <1>7, <1>9 DEF OneDaemonSummary
<1>10. CASE i \in DOMAIN summaries /\ j = Len(summaries) + 1
  BY <1>4, <1>5, <1>6, <1>7, <1>8, <1>10
<1>11. CASE j \in DOMAIN summaries /\ i = Len(summaries) + 1
  BY <1>4, <1>5, <1>6, <1>7, <1>8, <1>11
<1> QED
  BY <1>2, <1>3, <1>7, <1>9, <1>10, <1>11

(* The two facts that the daemon's look at the table rests on. *)
LEMMA DaemonAloneStep ==
  ASSUME TypeOK, WorkInProgress, DaemonAlone, OneDaemonSummary, Next
  PROVE  DaemonAlone' /\ OneDaemonSummary'
<1> USE DEF TypeOK
<1>1. ASSUME UNCHANGED summaries PROVE OneDaemonSummary'
  BY <1>1 DEF OneDaemonSummary
<1>2. ASSUME UNCHANGED <<summaries, daemon, synth>> PROVE DaemonAlone'
  BY <1>2 DEF DaemonAlone, DaemonAt, HasSessionCheckpoint
<1>3. ASSUME daemon'.phase # "synth", UNCHANGED synth PROVE DaemonAlone'
  BY <1>3 DEF DaemonAlone, DaemonAt
<1>4. CASE DaemonStep
  <2> USE DEF DaemonType, Idle
  <2>1. CASE DaemonSelect
    BY <1>1, <1>3, <2>1 DEF DaemonSelect, db
  <2>2. CASE DaemonGate
    BY <1>1, <1>3, <2>2 DEF DaemonGate, IdleDaemon, db
  <2>3. CASE AcquireStep("daemon")
    BY <1>1, <1>3, <2>3, AcquireRest DEF Distillers, Acquiring, IdleDaemon
  <2>4. ASSUME NEW s \in Sessions, DaemonLoad(s) PROVE DaemonAlone' /\ OneDaemonSummary'
    <3>1. UNCHANGED <<summaries, synth>>
      BY <2>4 DEF DaemonLoad
    <3>2. CASE HasSessionCheckpoint(s, "daemon")
      BY <1>1, <1>3, <2>4, <3>1, <3>2 DEF DaemonLoad, DaemonAt
    <3>3. CASE ~ HasSessionCheckpoint(s, "daemon")
      <4>1. daemon'.cur = s
        BY <2>4, <3>3 DEF DaemonLoad
      <4> QED
        BY <1>1, <3>1, <3>3, <4>1 DEF DaemonAlone, HasSessionCheckpoint
    <3> QED
      BY <3>2, <3>3
  <2>5. CASE DaemonFail \/ DaemonMark
    BY <1>1, <1>3, <2>5 DEF DaemonFail, DaemonMark, NextSession, db
  <2>6. CASE DaemonSynthesize
    <3>1. /\ daemon.cur \in Sessions /\ "daemon" \in Kinds
          /\ InsertSummary(daemon.cur, "daemon", daemon.snap)
          /\ ~ HasSessionCheckpoint(daemon.cur, "daemon")
      BY <2>6 DEF DaemonSynthesize, DaemonAt, DaemonAlone, WorkInProgress, DaemonWork, Kinds
    <3>2. OneDaemonSummary'
      BY <3>1, OthersAppend
    <3> QED
      BY <1>3, <2>6, <3>2 DEF DaemonSynthesize
  <2>7. CASE DaemonExtract \/ DaemonRecord
    BY <1>1, <1>3, <2>7 DEF DaemonExtract, DaemonRecord, db
  <2>8. CASE DaemonCycleEnd \/ DaemonStart
    BY <1>1, <1>3, <2>8 DEF DaemonCycleEnd, DaemonStart, IdleDaemon, db
  <2> QED
    BY <1>4, <2>1, <2>2, <2>3, <2>4, <2>5, <2>6, <2>7, <2>8 DEF DaemonStep
<1>5. CASE ManualStep
  <2>1. UNCHANGED <<summaries, daemon, synth>>
    BY <1>5, AcquireRest DEF ManualStep, Distillers, ManualSelect, ManualShort, ManualExtract,
       ManualFail, ManualMark, ManualReport, db
  <2> QED
    BY <1>1, <1>2, <2>1
<1>6. ASSUME NEW p \in Synths, SynthStep(p) \/ SynthCrash(p)
      PROVE  DaemonAlone' /\ OneDaemonSummary'
  <2>1. UNCHANGED daemon /\ \A q \in Synths : synth'[q].kind = synth[q].kind
    BY <1>6 DEF SynthStep, SynthCheck, SynthRead, SynthSynthesize, SynthExtract,
       SynthFail, SynthMark, SynthRecord, SynthCrash, SynthTo, SynthType
  <2>2. CASE SynthSynthesize(p)
    <3>1. /\ synth[p].session \in Sessions /\ synth[p].kind \in Kinds
          /\ synth[p].kind # "daemon"
          /\ InsertSummary(synth[p].session, synth[p].kind, synth[p].snap)
      BY <2>2 DEF SynthSynthesize, SynthType, DaemonAlone, WorkInProgress, SynthWork
    <3>2. OneDaemonSummary'
      BY <3>1, OthersAppend
    <3>3. \A s : HasSessionCheckpoint(s, "daemon")' => HasSessionCheckpoint(s, "daemon")
      BY <3>1 DEF HasSessionCheckpoint, InsertSummary, TablesType
    <3> QED
      BY <2>1, <3>2, <3>3 DEF DaemonAlone, DaemonAt
  <2>3. CASE UNCHANGED summaries
    BY <1>1, <2>1, <2>3 DEF DaemonAlone, DaemonAt, HasSessionCheckpoint
  <2> QED
    BY <1>6, <2>2, <2>3 DEF SynthStep, SynthCheck, SynthRead, SynthExtract, SynthFail,
       SynthMark, SynthRecord, SynthCrash, db
<1>7. CASE \/ \E s \in Sessions, b \in BOOLEAN : StoreEvent(s, b)
           \/ \E all \in BOOLEAN : ManualStart(all)
           \/ Tick \/ SecondPasses \/ LockAges \/ ManualCrash
  BY <1>1, <1>2, <1>7 DEF StoreEvent, ManualStart, Tick, SecondPasses, LockAges, ManualCrash, db
<1>8. ASSUME NEW p \in Synths, NEW s \in Sessions, NEW k \in {"final", "clear"},
             SpawnSynthesis(p, s, k)
      PROVE  DaemonAlone' /\ OneDaemonSummary'
  <2>1. UNCHANGED <<summaries, daemon>> /\ \A q \in Synths : synth'[q].kind \in {synth[q].kind, k}
    BY <1>8 DEF SpawnSynthesis, SynthType, db
  <2> QED
    BY <1>1, <2>1 DEF DaemonAlone, DaemonAt, HasSessionCheckpoint
<1>9. CASE DaemonCrash
  BY <1>1, <1>3, <1>9 DEF DaemonCrash, IdleDaemon, db
<1> QED
  BY <1>4, <1>5, <1>6, <1>7, <1>8, <1>9 DEF Next, Environment

(* A session gets at most one summary of the daemon's, wherever the daemon *)
(* is killed and whoever else writes the table.                            *)
THEOREM OneDaemonSummaryCorrect == Spec => []OneDaemonSummary
<1> DEFINE J == DaemonAlone /\ OneDaemonSummary
<1>1. Init => J
  BY DEF Init, DaemonAlone, DaemonAt, IdleDaemon, UnusedSynth, OneDaemonSummary
<1>2. IInv /\ J /\ [Next]_vars => J'
  <2>1. ASSUME J, UNCHANGED vars PROVE J'
    BY <2>1 DEF DaemonAlone, DaemonAt, HasSessionCheckpoint, OneDaemonSummary, vars
  <2>2. ASSUME IInv, J, Next PROVE J'
    BY <2>2, DaemonAloneStep DEF IInv
  <2> QED
    BY <2>1, <2>2
<1>3. J => OneDaemonSummary
  OBVIOUS
<1> HIDE DEF J
<1> QED
  BY <1>1, <1>2, <1>3, IInvCorrect, PTL DEF Spec
=============================================================================
