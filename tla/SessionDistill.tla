--------------------------- MODULE SessionDistill ---------------------------
(***************************************************************************)
(* How the recorded events of a coding session become a session summary    *)
(* and principles.  Three kinds of process work on one database:           *)
(*                                                                         *)
(*   - the daemon's distill loop (cmd/daemon.go, distillSessionBatch): a   *)
(*     cycle over the ended sessions that have no summary yet;             *)
(*   - `forge synthesize-session` (cmd/synthesize.go), one process per     *)
(*     session-end, /clear or /compact hook, which takes no lock;          *)
(*   - `forge distill [--all]` (cmd/distill_cmd.go), started by the user.  *)
(*                                                                         *)
(* The daemon's cycle and the manual command exclude each other with the   *)
(* file forge.distill.lock.  Every SQL statement is one step, and so is    *)
(* every system call of acquireDistillLock; a provider call separates the  *)
(* step that reads events from the step that uses them.                    *)
(***************************************************************************)
EXTENDS Naturals, Sequences, FiniteSets

CONSTANTS
    Sessions,       \* session ids
    Unknown,        \* the id given to events without a session
    Synths,         \* synthesize-session processes (each runs once)
    MaxEvents,      \* bound: events stored per session
    MinEvents,      \* events a batch or a checkpoint needs (3 in the code)
    HeadLimit, TailLimit, \* first and last events a checkpoint reads (20 and 30)
    BatchLimit,     \* sessions per daemon cycle (20)
    WedgeSkips,     \* skipped cycles that are reported as a wedge (3)
    BackoffCap,     \* longest backoff, in minutes (30)
    MaxFaults,      \* bound: provider calls that fail
    MaxCrashes,     \* bound: processes killed
    MaxManual,      \* bound: runs of forge distill
    MaxClears,      \* bound: /clear and /compact prompts
    LockMayAge      \* whether a lock file may grow older than its TTL

ASSUME ConstantsAssumption ==
    /\ IsFiniteSet(Sessions)
    /\ MaxEvents \in Nat /\ MinEvents \in Nat
    /\ HeadLimit \in Nat /\ TailLimit \in Nat
    /\ BatchLimit \in Nat \ {0} /\ WedgeSkips \in Nat \ {0}
    /\ BackoffCap \in Nat
    /\ MaxFaults \in Nat /\ MaxCrashes \in Nat
    /\ MaxManual \in Nat /\ MaxClears \in Nat
    /\ LockMayAge \in BOOLEAN

Event == Sessions \X (1..MaxEvents)
Kinds == {"final", "clear", "daemon"}
NoSession == "none"

VARIABLES
    stored,     \* stored[s]: how many events of s the events table holds
    boundary,   \* the events that are a Stop, SessionEnd or AfterAgent
    distilled,  \* the events whose distilled column is 1
    summaries,  \* the session_summaries table, in insertion order
    health,     \* the distillation_health row: consecutive failures, and
                \* the minutes since the last one (as far as they matter)
    lock,       \* forge.distill.lock: the process that created it ("dead" when
                \* that has ended), what it holds (nothing for less than a
                \* second, nothing, a pid), and whether it is older than
                \* distillLockTTL
    acq,        \* acq[d]: where d is in acquireDistillLock, at which attempt,
                \* and the pid it read from the lock
    daemon,     \* the distill loop: phase, sessions still to do, snapshot
    skips,      \* consecutiveDistillSkips
    manual,     \* the forge distill process
    synth,      \* the synthesize-session processes
    used,       \* how much of each bound has been consumed
    extracted,  \* history: events whose principles were extracted
    flushed,    \* history: events retired by a drain as too few
    reclaimed,  \* history: a live distiller's lock was judged too old, or was
                \* removed by a daemon that started
    raced,      \* history: both were inside acquireDistillLock at once
    wedges      \* history: wedge reports since the last completed cycle

db    == <<stored, boundary, distilled, summaries>>
hist  == <<extracted, flushed, reclaimed, raced, wedges>>
vars  == <<stored, boundary, distilled, summaries, health, lock, acq, daemon,
           skips, manual, synth, used, extracted, flushed, reclaimed, raced, wedges>>

-----------------------------------------------------------------------------
(* The tables. *)

StoredEvents(s) == {s} \X (1..stored[s])
Undistilled(s)  == StoredEvents(s) \ distilled
UndistilledCount == Cardinality(UNION {Undistilled(s) : s \in Sessions})

HasSummary(s) == \E i \in DOMAIN summaries : summaries[i].session = s

(* HasSessionCheckpoint: a key is the session and the kind, and for a      *)
(* /clear or /compact also the time of the prompt, which makes it unique.  *)
HasSessionCheckpoint(s, kind) ==
    /\ kind # "clear"
    /\ \E i \in DOMAIN summaries :
          summaries[i].session = s /\ summaries[i].kind = kind

(* UndistilledCompletedSessions, before its LIMIT. *)
Ready == {s \in Sessions \ {Unknown} :
             ~ HasSummary(s) /\ \E e \in boundary : e[1] = s}

(* SessionEventsForCheckpoint: the events up to the cutoff, without the    *)
(* middle ones of a long session.                                          *)
CheckpointEvents(s, cutoff) ==
    LET n == IF cutoff < stored[s] THEN cutoff ELSE stored[s]
    IN  {s} \X {i \in 1..n : n <= HeadLimit + TailLimit \/ i <= HeadLimit \/ i + TailLimit > n}

InsertSummary(s, kind, snap) ==
    summaries' = Append(summaries, [session |-> s, kind |-> kind, covers |-> snap])

MarkSessionDistilled(s) == distilled' = distilled \cup StoredEvents(s)

(* Minutes that must pass after the last of n consecutive failures. *)
DistillBackoff(n) ==
    LET exp == 2 ^ (n - 2)
    IN  IF n <= 1 THEN 0 ELSE IF exp > BackoffCap THEN BackoffCap ELSE exp

RecordFailure == health' = [failures |-> health.failures + 1, minutes |-> 0]
(* Mutation: a success takes one failure back instead of resetting. *)
RecordSuccessDecrements == health' = [health EXCEPT !.failures = @ - 1]

RecordSuccess == health' = [health EXCEPT !.failures = 0]

-----------------------------------------------------------------------------
(* The distill lock: who competes for it, and who works under it. *)

Distillers == {"daemon", "manual"}
Other(d) == IF d = "daemon" THEN "manual" ELSE "daemon"

Idle == {"idle", "selected", "gated", "down"}
DaemonHolds == daemon.phase \notin Idle
ManualHolds == manual.phase \notin {"off", "acquire"}
Working(d)  == IF d = "daemon" THEN DaemonHolds ELSE ManualHolds

NoLock   == [owner |-> "none", content |-> "none", old |-> FALSE]
FirstTry == [at |-> "create", try |-> 1, pid |-> "none"]

Acquiring(d) == IF d = "daemon" THEN daemon.phase = "gated" ELSE manual.phase = "acquire"
AcquireAt(d, step) == Acquiring(d) /\ acq[d].at = step

(* d has made its first system call on the lock and not yet its last. *)
Inside(d) == Acquiring(d) /\ acq[d] # FirstTry

(* The process of d ends: its pid is that of a dead process from here on,  *)
(* in the hands of whoever read it and in a lock file that it leaves.      *)
Ended(d) == acq' = [acq EXCEPT ![d] = FirstTry,
                               ![Other(d)].pid = IF @ = d THEN "dead" ELSE @]
LeftBehind(d) == lock' = IF lock.owner = d THEN [lock EXCEPT !.owner = "dead"] ELSE lock

(* Mutation: every skip after the third is reported again. *)
NoteDistillSkipAgain ==
    /\ skips' = IF skips > WedgeSkips THEN skips ELSE skips + 1
    /\ IF skips + 1 >= WedgeSkips
       THEN RecordFailure /\ wedges' = wedges + 1
       ELSE UNCHANGED <<health, wedges>>

(* noteDistillSkip *)
NoteDistillSkip ==
    /\ skips' = IF skips > WedgeSkips THEN skips ELSE skips + 1
    /\ IF skips + 1 = WedgeSkips
       THEN RecordFailure /\ wedges' = wedges + 1
       ELSE UNCHANGED <<health, wedges>>

-----------------------------------------------------------------------------
(* Initial states. *)

IdleDaemon == [phase |-> "idle", todo |-> {}, cur |-> NoSession, snap |-> {}]
IdleManual == [phase |-> "off", all |-> FALSE, snap |-> {}, before |-> 0,
               empty |-> FALSE, stalled |-> FALSE]
UnusedSynth == [phase |-> "unused", session |-> NoSession, kind |-> "final",
                cutoff |-> 0, snap |-> {}]

Init ==
    /\ stored = [s \in Sessions |-> 0]
    /\ boundary = {} /\ distilled = {} /\ summaries = <<>>
    /\ health = [failures |-> 0, minutes |-> 0]
    /\ lock = NoLock /\ acq = [d \in Distillers |-> FirstTry]
    /\ daemon = IdleDaemon /\ skips = 0
    /\ manual = IdleManual
    /\ synth = [p \in Synths |-> UnusedSynth]
    /\ used = [faults |-> 0, crashes |-> 0, manual |-> 0, clears |-> 0]
    /\ extracted = {} /\ flushed = {} /\ wedges = 0
    /\ reclaimed = FALSE /\ raced = FALSE

-----------------------------------------------------------------------------
(* The hook, the clock and the provider. *)

(* The daemon's connection handler stores one event of the hook. *)
StoreEvent(s, isBoundary) ==
    /\ daemon.phase # "down"
    /\ stored[s] < MaxEvents
    /\ stored' = [stored EXCEPT ![s] = @ + 1]
    /\ boundary' = IF isBoundary THEN boundary \cup {<<s, stored[s] + 1>>} ELSE boundary
    /\ UNCHANGED <<distilled, summaries, health, lock, acq, daemon, skips, manual,
                   synth, used, hist>>

(* spawnSessionSynthesis: the hook starts the process before it sends the  *)
(* boundary event, so nothing orders this step and StoreEvent.             *)
SpawnSynthesis(p, s, kind) ==
    /\ synth[p].phase = "unused"
    /\ s # Unknown
    /\ kind = "clear" => used.clears < MaxClears
    /\ synth' = [synth EXCEPT ![p] =
                   [phase |-> "check", session |-> s, kind |-> kind, snap |-> {},
                    cutoff |-> IF kind = "clear" THEN stored[s] ELSE MaxEvents]]
    /\ used' = IF kind = "clear" THEN [used EXCEPT !.clears = @ + 1] ELSE used
    /\ UNCHANGED <<db, health, lock, acq, daemon, skips, manual, hist>>

(* A minute passes. *)
Tick ==
    /\ health.minutes < BackoffCap
    /\ health' = [health EXCEPT !.minutes = @ + 1]
    /\ UNCHANGED <<db, lock, acq, daemon, skips, manual, synth, used, hist>>

(* The lock file grows older than distillLockTTL. *)
LockAges ==
    /\ LockMayAge /\ lock.owner # "none" /\ ~ lock.old
    /\ lock' = [lock EXCEPT !.old = TRUE]
    /\ UNCHANGED <<db, health, acq, daemon, skips, manual, synth, used, hist>>

(* An empty lock file becomes older than a second. *)
SecondPasses ==
    /\ lock.content = "fresh"
    /\ lock' = [lock EXCEPT !.content = "empty"]
    /\ UNCHANGED <<db, health, acq, daemon, skips, manual, synth, used, hist>>

(* A provider call, an insert or a call on the lock file fails, or an      *)
(* answer does not parse.                                                  *)
ProviderFault ==
    /\ used.faults < MaxFaults
    /\ used' = [used EXCEPT !.faults = @ + 1]

-----------------------------------------------------------------------------
(* acquireDistillLock, called by the daemon's cycle once it is past the    *)
(* backoff and by forge distill when it starts.                            *)

Goto(d, step) == acq' = [acq EXCEPT ![d].at = step]

(* An error or a live holder: the cycle counts as skipped, the command     *)
(* ends.                                                                   *)
Blocked(d) ==
    /\ acq' = [acq EXCEPT ![d] = FirstTry]
    /\ \/ d = "daemon" /\ NoteDistillSkip /\ daemon' = IdleDaemon /\ UNCHANGED manual
       \/ d = "manual" /\ manual' = IdleManual /\ UNCHANGED <<daemon, skips, health, wedges>>

(* A lock found stale is removed next, whatever it is by then. *)
Judged(d, stale) ==
    IF stale THEN Goto(d, "remove") /\ UNCHANGED <<daemon, manual, skips, health, wedges>>
             ELSE Blocked(d)

(* os.OpenFile with O_EXCL *)
LockCreate(d) ==
    /\ AcquireAt(d, "create")
    /\ IF lock.owner = "none"
       THEN lock' = [owner |-> d, content |-> "fresh", old |-> FALSE] /\ Goto(d, "write")
       ELSE UNCHANGED lock /\ Goto(d, "age")
    /\ raced' = (raced \/ Inside(Other(d)))
    /\ UNCHANGED <<db, health, daemon, skips, manual, synth, used, extracted, flushed, reclaimed, wedges>>

(* isDistillLockStale: the os.Stat that compares the age with the TTL. *)
LockAge(d) ==
    /\ AcquireAt(d, "age")
    /\ Goto(d, IF lock.old THEN "remove" ELSE "read")
    /\ reclaimed' = (reclaimed \/ (lock.old /\ lock.owner \in Distillers))
    /\ UNCHANGED <<db, health, lock, daemon, skips, manual, synth, used, extracted, flushed, raced, wedges>>

(* readLockPID, which reads no pid from a file that is empty or gone. *)
LockRead(d) ==
    /\ AcquireAt(d, "read")
    /\ IF lock.content = "pid"
       THEN acq' = [acq EXCEPT ![d].at = "check", ![d].pid = lock.owner]
       ELSE Goto(d, "size")
    /\ UNCHANGED <<db, health, lock, daemon, skips, manual, synth, used, hist>>

(* The second os.Stat: only a file that is empty now, and young, is not    *)
(* stale; one that is gone, or holds a pid by now, is.                     *)
LockSize(d) ==
    /\ AcquireAt(d, "size")
    /\ Judged(d, lock.content # "fresh")
    /\ UNCHANGED <<db, lock, synth, used, extracted, flushed, reclaimed, raced>>

(* Mutation: the deferred cleanDistillLock runs for a blocked call too. *)
LockCheckCleans(d) ==
    /\ AcquireAt(d, "check")
    /\ Judged(d, acq[d].pid = "dead")
    /\ lock' = IF acq[d].pid = "dead" THEN lock ELSE NoLock
    /\ UNCHANGED <<db, synth, used, extracted, flushed, reclaimed, raced>>

(* isProcessAlive of the pid that was read. *)
LockCheck(d) ==
    /\ AcquireAt(d, "check")
    /\ Judged(d, acq[d].pid = "dead")
    /\ UNCHANGED <<db, lock, synth, used, extracted, flushed, reclaimed, raced>>

(* os.Remove of the file that has the name now; after the second one the   *)
(* lock counts as held.                                                    *)
LockRemove(d) ==
    /\ AcquireAt(d, "remove")
    /\ lock' = NoLock
    /\ IF acq[d].try = 1
       THEN /\ acq' = [acq EXCEPT ![d] = [FirstTry EXCEPT !.try = 2]]
            /\ UNCHANGED <<daemon, manual, skips, health, wedges>>
       ELSE Blocked(d)
    /\ UNCHANGED <<db, synth, used, extracted, flushed, reclaimed, raced>>

(* The pid goes to the file that was created, also when its name is gone.  *)
LockWrite(d) ==
    /\ AcquireAt(d, "write")
    /\ lock' = IF lock.owner = d THEN [lock EXCEPT !.content = "pid", !.old = FALSE] ELSE lock
    /\ acq' = [acq EXCEPT ![d] = FirstTry]
    /\ \/ d = "daemon" /\ daemon' = [daemon EXCEPT !.phase = "loop"] /\ UNCHANGED manual
       \/ d = "manual" /\ manual' = [manual EXCEPT !.phase = "select"] /\ UNCHANGED daemon
    /\ UNCHANGED <<db, health, skips, synth, used, hist>>

(* The file cannot be opened, or its pid cannot be written: then it is     *)
(* removed.                                                                *)
LockFails(d) ==
    /\ \/ AcquireAt(d, "create") /\ UNCHANGED lock
       \/ AcquireAt(d, "write") /\ lock' = NoLock
    /\ ProviderFault
    /\ Blocked(d)
    /\ UNCHANGED <<db, synth, extracted, flushed, reclaimed, raced>>

AcquireStep(d) ==
    \/ LockCreate(d) \/ LockAge(d) \/ LockRead(d) \/ LockSize(d) \/ LockCheck(d)
    \/ LockRemove(d) \/ LockWrite(d) \/ LockFails(d)

-----------------------------------------------------------------------------
(* The daemon's distill loop. *)

DaemonAt(phase) == daemon.phase = phase

(* The tick of distillLoop: the list is read before anything else. *)
DaemonSelect ==
    /\ DaemonAt("idle") /\ Ready # {}
    /\ \E S \in SUBSET Ready :
          /\ S # {} /\ Cardinality(S) <= BatchLimit
          /\ S = Ready \/ Cardinality(S) = BatchLimit
          /\ daemon' = [daemon EXCEPT !.phase = "selected", !.todo = S]
    /\ UNCHANGED <<db, health, lock, acq, skips, manual, synth, used, hist>>

(* Mutation: failures block the loop until a success, however long ago. *)
DaemonGateForever ==
    /\ DaemonAt("selected")
    /\ daemon' = IF health.failures > 0 THEN IdleDaemon ELSE [daemon EXCEPT !.phase = "gated"]
    /\ UNCHANGED <<db, health, lock, acq, skips, manual, synth, used, hist>>

(* The backoff check, which returns before it counts as a skip. *)
DaemonGate ==
    /\ DaemonAt("selected")
    /\ daemon' = IF health.minutes < DistillBackoff(health.failures)
                 THEN IdleDaemon
                 ELSE [daemon EXCEPT !.phase = "gated"]
    /\ UNCHANGED <<db, health, lock, acq, skips, manual, synth, used, hist>>

(* The cycle goes on with the next session, or the current one is left. *)
NextSession == daemon' = [daemon EXCEPT !.phase = "loop", !.cur = NoSession, !.snap = {},
                                        !.todo = @ \ {daemon.cur}]

DaemonLoad(s) ==
    /\ DaemonAt("loop") /\ s \in daemon.todo
    /\ IF HasSessionCheckpoint(s, "daemon")
       THEN /\ MarkSessionDistilled(s)
            /\ daemon' = [daemon EXCEPT !.todo = @ \ {s}]
       ELSE /\ daemon' = [daemon EXCEPT !.phase = "synth", !.cur = s, !.snap = StoredEvents(s)]
            /\ UNCHANGED distilled
    /\ UNCHANGED <<stored, boundary, summaries, health, lock, acq, skips, manual, synth, used, hist>>

(* Mutation: a failed session is started over without a look at the table. *)
DaemonFailRetries ==
    /\ daemon.phase \in {"synth", "extract"}
    /\ ProviderFault
    /\ RecordFailure
    /\ daemon' = [daemon EXCEPT !.phase = "synth"]
    /\ UNCHANGED <<db, lock, acq, skips, manual, synth, hist>>

(* No provider is configured, or SynthesizeCheckpoint or                   *)
(* DistillCheckpointSummary failed: record it and go on with the next one. *)
DaemonFail ==
    /\ daemon.phase \in {"synth", "extract"}
    /\ ProviderFault
    /\ RecordFailure
    /\ NextSession
    /\ UNCHANGED <<db, lock, acq, skips, manual, synth, hist>>

DaemonSynthesize ==
    /\ DaemonAt("synth")
    /\ InsertSummary(daemon.cur, "daemon", daemon.snap)
    /\ daemon' = [daemon EXCEPT !.phase = "extract"]
    /\ UNCHANGED <<stored, boundary, distilled, health, lock, acq, skips, manual, synth, used, hist>>

DaemonExtract ==
    /\ DaemonAt("extract")
    /\ extracted' = extracted \cup daemon.snap
    /\ daemon' = [daemon EXCEPT !.phase = "record"]
    /\ UNCHANGED <<db, health, lock, acq, skips, manual, synth, used, flushed, reclaimed, raced, wedges>>

DaemonRecord ==
    /\ DaemonAt("record")
    /\ RecordSuccess
    /\ daemon' = [daemon EXCEPT !.phase = "mark"]
    /\ UNCHANGED <<db, lock, acq, skips, manual, synth, used, hist>>

DaemonMark ==
    /\ DaemonAt("mark")
    /\ MarkSessionDistilled(daemon.cur)
    /\ NextSession
    /\ UNCHANGED <<stored, boundary, summaries, health, lock, acq, skips, manual, synth, used, hist>>

(* Mutation: the cycle ends without cleanDistillLock. *)
DaemonCycleEndKeepsLock ==
    /\ DaemonAt("loop") /\ daemon.todo = {}
    /\ skips' = 0 /\ wedges' = 0
    /\ daemon' = IdleDaemon
    /\ UNCHANGED <<db, health, lock, acq, manual, synth, used, extracted, flushed, reclaimed, raced>>

(* The deferred calls: cleanDistillLock removes the file whoever owns it,  *)
(* then noteDistillCycleRan.                                               *)
DaemonCycleEnd ==
    /\ DaemonAt("loop") /\ daemon.todo = {}
    /\ lock' = NoLock
    /\ skips' = 0 /\ wedges' = 0
    /\ daemon' = IdleDaemon
    /\ UNCHANGED <<db, health, acq, manual, synth, used, extracted, flushed, reclaimed, raced>>

(* A signal, or a panic: only a panic runs the deferred cleanDistillLock. *)
DaemonCrash ==
    /\ ~ DaemonAt("down")
    /\ used.crashes < MaxCrashes
    /\ used' = [used EXCEPT !.crashes = @ + 1]
    /\ daemon' = [IdleDaemon EXCEPT !.phase = "down"]
    /\ \/ LeftBehind("daemon")
       \/ DaemonHolds /\ lock' = NoLock
    /\ Ended("daemon")
    /\ UNCHANGED <<db, health, skips, manual, synth, hist>>

(* runDaemon removes the distill lock it finds, whoever owns it. *)
DaemonStart ==
    /\ DaemonAt("down")
    /\ daemon' = IdleDaemon
    /\ lock' = NoLock
    /\ reclaimed' = (reclaimed \/ lock.owner \in Distillers)
    /\ skips' = 0 /\ wedges' = 0
    /\ UNCHANGED <<db, health, acq, manual, synth, used, extracted, flushed, raced>>

-----------------------------------------------------------------------------
(* forge distill *)

ManualAt(phase) == manual.phase = phase

(* The process goes for the lock; --wait only delays it. *)
ManualStart(all) ==
    /\ ManualAt("off") /\ used.manual < MaxManual
    /\ manual' = [IdleManual EXCEPT !.phase = "acquire", !.all = all]
    /\ used' = [used EXCEPT !.manual = @ + 1]
    /\ UNCHANGED <<db, health, lock, acq, daemon, skips, synth, hist>>

(* The deferred cleanDistillLock of a run that returns. *)
ManualReturn ==
    /\ manual' = IdleManual
    /\ lock' = NoLock
    /\ Ended("manual")

(* os.Exit, which runs no deferred call: the lock file stays. *)
ManualExit ==
    /\ manual' = IdleManual
    /\ LeftBehind("manual")
    /\ Ended("manual")

(* UndistilledEvents: the batch is what is left of one session. *)
ManualSelect ==
    /\ ManualAt("select")
    /\ LET open == {s \in Sessions : Undistilled(s) # {} /\ (s = Unknown => manual.all)}
       IN  IF open = {}
           THEN ManualReturn
           ELSE /\ \E s \in open : manual' = [manual EXCEPT !.phase = "batch",
                       !.snap = Undistilled(s), !.before = UndistilledCount]
                /\ UNCHANGED <<lock, acq>>
    /\ UNCHANGED <<db, health, daemon, skips, synth, used, hist>>

(* Fewer than three events: a drain retires them, a single run leaves them. *)
ManualShort ==
    /\ ManualAt("batch") /\ Cardinality(manual.snap) < MinEvents
    /\ IF manual.all
       THEN distilled' = distilled \cup manual.snap /\ flushed' = flushed \cup manual.snap
       ELSE UNCHANGED <<distilled, flushed>>
    /\ manual' = [manual EXCEPT !.phase = "report", !.empty = TRUE]
    /\ UNCHANGED <<stored, boundary, summaries, health, lock, acq, daemon, skips, synth, used,
                   extracted, reclaimed, raced, wedges>>

(* The provider answers with some principles or with none. *)
ManualExtract(none) ==
    /\ ManualAt("batch") /\ Cardinality(manual.snap) >= MinEvents
    /\ extracted' = extracted \cup manual.snap
    /\ manual' = [manual EXCEPT !.phase = "mark", !.empty = none]
    /\ UNCHANGED <<db, health, lock, acq, daemon, skips, synth, used, flushed, reclaimed, raced, wedges>>

(* A failure is recorded and the process calls os.Exit.  A default         *)
(* provider that cannot be reached is not recorded, and the run returns.   *)
ManualFail ==
    /\ ManualAt("batch") /\ Cardinality(manual.snap) >= MinEvents
    /\ ProviderFault
    /\ \/ RecordFailure /\ ManualExit
       \/ ManualReturn /\ UNCHANGED health
    /\ UNCHANGED <<db, daemon, skips, synth, hist>>

(* Mutation: the rows of the session are updated instead of those of the batch. *)
ManualMarkSession ==
    /\ ManualAt("mark")
    /\ distilled' = distilled \cup UNION {StoredEvents(e[1]) : e \in manual.snap}
    /\ manual' = [manual EXCEPT !.phase = "report"]
    /\ UNCHANGED <<stored, boundary, summaries, health, lock, acq, daemon, skips, synth, used, hist>>

(* Mutation: a processed batch stays in the queue. *)
ManualMarkNothing ==
    /\ ManualAt("mark")
    /\ manual' = [manual EXCEPT !.phase = "report"]
    /\ UNCHANGED <<db, health, lock, acq, daemon, skips, synth, used, hist>>

(* MarkDistilled(ids) *)
ManualMark ==
    /\ ManualAt("mark")
    /\ distilled' = distilled \cup manual.snap
    /\ manual' = [manual EXCEPT !.phase = "report"]
    /\ UNCHANGED <<stored, boundary, summaries, health, lock, acq, daemon, skips, synth, used, hist>>

(* recordHealthResult, then what runDistillDrain does with the result: it  *)
(* stops at the second batch in a row that yields nothing and leaves as    *)
(* many events as before: that is recorded as a failure after the success. *)
ManualReport ==
    /\ ManualAt("report")
    /\ LET left == UndistilledCount
           noop == manual.empty /\ left = manual.before
           finished == ~ manual.all \/ (manual.empty /\ ~ noop /\ left < MinEvents)
       IN  \/ /\ finished
              /\ RecordSuccess /\ ManualReturn
           \/ /\ ~ finished /\ noop /\ manual.stalled
              /\ health' = [failures |-> 1, minutes |-> 0]
              /\ ManualExit
           \/ /\ ~ finished /\ ~ (noop /\ manual.stalled)
              /\ RecordSuccess /\ UNCHANGED <<lock, acq>>
              /\ manual' = [IdleManual EXCEPT !.phase = "select", !.all = TRUE, !.stalled = noop]
    /\ UNCHANGED <<db, daemon, skips, synth, used, hist>>

(* The process is killed; its lock file stays. *)
ManualCrash ==
    /\ ~ ManualAt("off")
    /\ used.crashes < MaxCrashes
    /\ used' = [used EXCEPT !.crashes = @ + 1]
    /\ ManualExit
    /\ UNCHANGED <<db, health, daemon, skips, synth, hist>>

-----------------------------------------------------------------------------
(* forge synthesize-session *)

SynthTo(p, phase) == synth' = [synth EXCEPT ![p].phase = phase]

SynthCheck(p) ==
    /\ synth[p].phase = "check"
    /\ SynthTo(p, IF HasSessionCheckpoint(synth[p].session, synth[p].kind) THEN "done" ELSE "read")
    /\ UNCHANGED <<db, health, lock, acq, daemon, skips, manual, used, hist>>

SynthRead(p) ==
    /\ synth[p].phase = "read"
    /\ LET snap == CheckpointEvents(synth[p].session, synth[p].cutoff)
       IN  synth' = [synth EXCEPT ![p].snap = snap,
                                  ![p].phase = IF Cardinality(snap) < MinEvents THEN "done" ELSE "synth"]
    /\ UNCHANGED <<db, health, lock, acq, daemon, skips, manual, used, hist>>

SynthSynthesize(p) ==
    /\ synth[p].phase = "synth"
    /\ InsertSummary(synth[p].session, synth[p].kind, synth[p].snap)
    /\ SynthTo(p, "extract")
    /\ UNCHANGED <<stored, boundary, distilled, health, lock, acq, daemon, skips, manual, used, hist>>

SynthExtract(p) ==
    /\ synth[p].phase = "extract"
    /\ extracted' = extracted \cup synth[p].snap
    /\ SynthTo(p, "mark")
    /\ UNCHANGED <<db, health, lock, acq, daemon, skips, manual, used, flushed, reclaimed, raced, wedges>>

(* Mutation: a failed summary, too, only gets recorded. *)
SynthFailMarks(p) ==
    /\ synth[p].phase \in {"synth", "extract"}
    /\ ProviderFault
    /\ RecordFailure
    /\ SynthTo(p, "mark")
    /\ UNCHANGED <<db, lock, acq, daemon, skips, manual, hist>>

(* A failed summary ends the process; failed principles only get recorded. *)
SynthFail(p) ==
    /\ synth[p].phase \in {"synth", "extract"}
    /\ ProviderFault
    /\ RecordFailure
    /\ SynthTo(p, IF synth[p].phase = "synth" THEN "done" ELSE "mark")
    /\ UNCHANGED <<db, lock, acq, daemon, skips, manual, hist>>

SynthMark(p) ==
    /\ synth[p].phase = "mark"
    /\ MarkSessionDistilled(synth[p].session)
    /\ SynthTo(p, "record")
    /\ UNCHANGED <<stored, boundary, summaries, health, lock, acq, daemon, skips, manual, used, hist>>

SynthRecord(p) ==
    /\ synth[p].phase = "record"
    /\ RecordSuccess
    /\ SynthTo(p, "done")
    /\ UNCHANGED <<db, lock, acq, daemon, skips, manual, used, hist>>

SynthCrash(p) ==
    /\ synth[p].phase \notin {"unused", "done"}
    /\ used.crashes < MaxCrashes
    /\ used' = [used EXCEPT !.crashes = @ + 1]
    /\ SynthTo(p, "done")
    /\ UNCHANGED <<db, health, lock, acq, daemon, skips, manual, hist>>

-----------------------------------------------------------------------------
(* The specification. *)

DaemonStep ==
    \/ DaemonSelect \/ DaemonGate \/ AcquireStep("daemon")
    \/ \E s \in Sessions : DaemonLoad(s)
    \/ DaemonFail \/ DaemonSynthesize \/ DaemonExtract \/ DaemonRecord
    \/ DaemonMark \/ DaemonCycleEnd \/ DaemonStart

ManualStep ==
    \/ AcquireStep("manual")
    \/ ManualSelect \/ ManualShort \/ \E none \in BOOLEAN : ManualExtract(none)
    \/ ManualFail \/ ManualMark \/ ManualReport

SynthStep(p) ==
    \/ SynthCheck(p) \/ SynthRead(p) \/ SynthSynthesize(p) \/ SynthExtract(p)
    \/ SynthFail(p) \/ SynthMark(p) \/ SynthRecord(p)

Environment ==
    \/ \E s \in Sessions, b \in BOOLEAN : StoreEvent(s, b)
    \/ \E p \in Synths, s \in Sessions, k \in {"final", "clear"} : SpawnSynthesis(p, s, k)
    \/ \E all \in BOOLEAN : ManualStart(all)
    \/ LockAges \/ DaemonCrash \/ ManualCrash \/ \E p \in Synths : SynthCrash(p)

Next == DaemonStep \/ ManualStep \/ (\E p \in Synths : SynthStep(p))
        \/ Tick \/ SecondPasses \/ Environment

Spec == Init /\ [][Next]_vars

(* The goroutine of the loop and the started processes run, the clock goes *)
(* on, and the service manager starts a daemon that went down.             *)
Fairness ==
    /\ WF_vars(DaemonStep) /\ WF_vars(Tick) /\ WF_vars(SecondPasses)
    /\ WF_vars(ManualStep)
    /\ \A p \in Synths : WF_vars(SynthStep(p))

FairSpec == Spec /\ Fairness

-----------------------------------------------------------------------------
(* Properties. *)

Summary == [session : Sessions, kind : Kinds, covers : SUBSET Event]

Health   == [failures : Nat, minutes : Nat]
LockFile == [owner : Distillers \cup {"none", "dead"},
             content : {"none", "fresh", "empty", "pid"}, old : BOOLEAN]
Attempt  == [at : {"create", "age", "read", "size", "check", "remove", "write"},
             try : {1, 2}, pid : Distillers \cup {"none", "dead"}]
Bounds   == [faults : Nat, crashes : Nat, manual : Nat, clears : Nat]

TablesType ==
    /\ stored \in [Sessions -> 0..MaxEvents]
    /\ boundary \in SUBSET Event /\ distilled \in SUBSET Event
    /\ summaries \in Seq(Summary)

SharedType ==
    /\ health \in Health /\ lock \in LockFile /\ skips \in Nat
    /\ acq \in [Distillers -> Attempt]

DaemonType ==
    daemon \in [phase : Idle \cup {"loop", "synth", "extract", "record", "mark"},
                todo : SUBSET Sessions, cur : Sessions \cup {NoSession}, snap : SUBSET Event]

ManualState ==
    [phase : {"off", "acquire", "select", "batch", "mark", "report"}, all : BOOLEAN,
     snap : SUBSET Event, before : Nat, empty : BOOLEAN, stalled : BOOLEAN]

ManualType == manual \in ManualState

SynthType ==
    synth \in [Synths ->
        [phase : {"unused", "check", "read", "synth", "extract", "mark", "record", "done"},
         session : Sessions \cup {NoSession}, kind : Kinds, cutoff : Nat, snap : SUBSET Event]]

HistoryType ==
    /\ used \in Bounds
    /\ extracted \in SUBSET Event /\ flushed \in SUBSET Event
    /\ reclaimed \in BOOLEAN /\ raced \in BOOLEAN /\ wedges \in Nat

(* Every variable keeps its type. *)
TypeOK == TablesType /\ SharedType /\ DaemonType /\ ManualType /\ SynthType /\ HistoryType

(* No event leaves the queue of undistilled events unaccounted for: when   *)
(* its distilled column is 1, its session has a stored summary, or the     *)
(* event itself went through a successful extraction, or a drain retired   *)
(* it as too few.  The writers of the column are three processes that may  *)
(* die between any two statements and read the events long before.         *)
RetiredEventsAccounted ==
    \A e \in distilled : HasSummary(e[1]) \/ e \in extracted \/ e \in flushed

(* What a process that has got this far can rely on, up to its next step. *)
DaemonWork ==
    /\ daemon.phase \in {"synth", "extract", "record", "mark"} => daemon.cur \in Sessions
    /\ daemon.phase \in {"extract", "record", "mark"} => HasSummary(daemon.cur)

SynthWork ==
    \A p \in Synths :
        /\ synth[p].phase # "unused" => synth[p].session \in Sessions
        /\ synth[p].phase \in {"extract", "mark", "record"} => HasSummary(synth[p].session)

ManualWork == manual.phase = "mark" => manual.snap \subseteq extracted

WorkInProgress == DaemonWork /\ SynthWork /\ ManualWork

(* A lock file that names a live process is that of one which works under  *)
(* it or is about to write its pid, and attempts start from the beginning. *)
LockOwnersLive ==
    /\ lock.owner \in Distillers =>
          Working(lock.owner) \/ AcquireAt(lock.owner, "write")
    /\ \A d \in Distillers : ~ Acquiring(d) => acq[d] = FirstTry

(* What d is about to remove on the strength of what it has seen. *)
FoundStale(d) ==
    \/ AcquireAt(d, "size") \/ AcquireAt(d, "remove")
    \/ AcquireAt(d, "check") /\ acq[d].pid = "dead"

(* Without a reclaim and without a race: a distiller that works owns the   *)
(* lock file, and what is found stale is no live process's.                *)
HoldersOwnTheLock ==
    ~ reclaimed /\ ~ raced =>
        /\ ~ (Inside("daemon") /\ Inside("manual"))
        /\ \A d \in Distillers :
              /\ Working(d) => lock.owner = d /\ lock.content = "pid"
              /\ AcquireAt(d, "write") => lock.owner = d
              /\ FoundStale(d) => lock.owner \notin Distillers

(* The inductive invariant. *)
IInv == TypeOK /\ WorkInProgress /\ RetiredEventsAccounted
        /\ LockOwnersLive /\ HoldersOwnTheLock

(* The daemon's cycle and forge distill overlap only after one of three    *)
(* things: a live lock grew older than distillLockTTL, a starting daemon   *)
(* removed one, or both were inside acquireDistillLock at the same time,   *)
(* where one may remove the file the other just created.  Files left by    *)
(* processes that died, before or after they wrote their pid, failed       *)
(* writes, runs that exit without their deferred calls and blocked         *)
(* attempts are not enough, in whatever order they come.                   *)
ExclusionUnlessReclaimed ==
    DaemonHolds /\ ManualHolds => reclaimed \/ raced

(* A wedged scheduler is recorded as a failure once per episode: when the  *)
(* third cycle in a row is skipped, and not again until a cycle has run    *)
(* (noteDistillSkip, noteDistillCycleRan).                                 *)
WedgeReportedOnce == wedges = IF skips >= WedgeSkips THEN 1 ELSE 0

(* The daemon stores at most one summary per session, also when it is      *)
(* killed between storing the summary and marking the events, or shares    *)
(* the cycle with other writers of the table.                              *)
OneDaemonSummary ==
    \A i, j \in DOMAIN summaries :
        summaries[i].kind = "daemon" /\ summaries[j].kind = "daemon"
        /\ summaries[i].session = summaries[j].session => i = j

(* What supports it: nobody else stores that kind, and between its look at *)
(* the table and its insert the daemon does nothing.                       *)
DaemonAlone ==
    /\ DaemonAt("synth") => ~ HasSessionCheckpoint(daemon.cur, "daemon")
    /\ \A p \in Synths : synth[p].kind # "daemon"

(* Every session whose end was recorded gets a summary in the end, however *)
(* the cycles, the manual runs, their crashes and the backoff interleave,  *)
(* once the provider stops failing.                                        *)
EndedSessionsSummarised ==
    \A s \in Sessions \ {Unknown} : (\E e \in boundary : e[1] = s) ~> HasSummary(s)

(* forge distill ends, with --all too, although events keep arriving and   *)
(* the provider may find nothing in them.                                  *)
ManualTerminates == ManualHolds ~> ~ ManualHolds

(* What the code says of the program, and the runs refute. *)

(* daemon.go:1159: acquireDistillLock is exclusive, and the file of a      *)
(* holder that has not written its pid yet is not stale (1226-1230): short *)
(* of the TTL and of a restart, the two never overlap.                     *)
DistillersExclude == DaemonHolds /\ ManualHolds => reclaimed


(* daemon.go:477: after the backoff another attempt is made, so that the   *)
(* events of an ended session are distilled once the provider recovers.    *)
EndedSessionsDistilled ==
    \A e \in Event : (e \in boundary /\ e[1] # Unknown) ~> e \in distilled
=============================================================================
