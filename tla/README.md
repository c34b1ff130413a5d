# A TLA+ model of forge

forge is a Go command line program and daemon that records what coding agents
do (hook events), distills the events of a session into a summary and into
*principles*, keeps the principles in a SQLite database and hands them back to
the agents. This directory holds TLA+ modules of its protocols, TLC
configurations that check them on small instances, and theorems about them
that TLAPS proves for every instance.

## 1. Inventory

The program has no server in the usual sense: many short processes (hooks,
`forge ...` commands, processes that hooks spawn) and one daemon share one
SQLite file and a few lock files. Nearly every hard behaviour comes from a
process that reads a row, waits for an LLM provider or a person, and then
writes.

| component | state | operations | interacts through | hard behaviour |
|---|---|---|---|---|
| Session distillation: `cmd/daemon.go` (distill loop), `cmd/synthesize.go`, `cmd/distill_cmd.go`, `db/session_summaries.go`, `db/distillation_health.go` | `events.distilled`, `session_summaries`, the health row, `forge.distill.lock`, skip counter | a daemon cycle, `synthesize-session`, `forge distill [--all]` | database, lock file, LLM provider | provider calls between read and write; two of three writers exclude each other; crashes, `os.Exit` past deferred calls, a lock TTL; backoff |
| Principle lifecycle: `db/principles.go`, `cmd/consolidate_cmd.go`, `dashboard/dashboard.go`, `cmd/harden_cmd.go`, `cmd/memory_cmd.go` | `principles` (status, fingerprint, conflict peer, expired, superseded), `memory_ops` | insert, mark conflicting, resolve, revoke, delete, expire, revive, rewrite | database; provider; a person at the dashboard | decisions made on old reads; batches as transactions; links between rows |
| Event delivery: `cmd/hook.go`, `ipc/*`, `cmd/daemon.go` (`handleConn`), `cmd/transcript.go`, `artifacts/store.go`, `db/events.go` | socket, outbox, `events`, evidence files and their index | send, wait for an acknowledgement, enqueue, store, import a transcript | Unix socket, files | an acknowledgement that never comes, a death of the daemon with messages in hand, imports that overlap |
| Daemon processes and locks: `cmd/daemon.go`, `start.go`, `stop.go`, `startup.go` | `forge.lock`, `forge.start.lock`, `forge.distill.lock`, pid, address and socket files | acquire, judge stale, reclaim, start, stop | file system, signals | a lock is read, asked about and removed in separate system calls |
| External retrieval: `retrieve/worker.go`, `runtime.go`, `db/external_context.go` | `retrieval_jobs`, `external_context_summaries`, wake channel | request, claim, fetch, finish | database, HTTP, MCP | a claim that outlives its process; a request while the job runs |
| Failure alerts: `detect/failures.go`, `db/alerts.go` | `failure_signatures`, `alerts` | count a failure, raise, resolve, acknowledge | database | statements without a transaction; unique keys over resolved rows |
| Signing keys: `security/key.go`, `crypto.go`, `harden_cmd.go` | keychain, key file, marker, probe lock, each process's cached key, signatures | find or create, rotate, re-sign | keychain, file, database | two places for one key, calls that are given up and land later, a cached key that is out of date |
| Coaching and evaluation: `coach/*`, `skills/*`, `evidence/*`, `observations/*`, `db/coaching.go` | observations, evidence, provenance, skill states, coaching items | detect, save, count, queue, accept, defer, dismiss | database | four programs without a lock; read, compute, write |
| Memory contract and provenance: `db/memory_contract.go`, `db/memory_lifecycle.go`, `provenance/*`, `handoff/*` | `memory_records`, receipts | insert, delete, export, import, verify | no caller but tests | |
| MCP server, context injection: `mcp/*`, `cmd/hook_recall.go`, `cmd/inject.go`, `distill.go` (injection) | counters of use | query, score, choose, format | stdio, database | a project is known by a key or, without one, by a name that others may share |
| Ingestion of transcripts and history: `cmd/transcript.go`, `scanner/*` | turns in `events` | parse, insert | files | a transcript that grows while it is read |
| Configuration, installation, services: `config/*`, `cmd/config_cmd.go`, `cmd/init_integrations.go`, `agent/*`, `service/*` | settings files of forge and of the agents, service file | read, merge, write | files, environment | files that users, agents and other binaries of forge rewrite; settings tested in one process and used in another |
| Reports: `cmd/stats_cmd.go`, `funstats`, `profile`, `promptdoctor`, `knowledgegap` | none | query, format | database | none |
| Mastra pipeline: `mastra/` | none of the Go program's | | | an experiment of its own |

What makes each correct, in one line:

- *distillation*: no event leaves the queue without having been summarised or
  processed; one daemon summary per session; every ended session is summarised
  in the end; the daemon's cycle and `forge distill` exclude each other; a
  wedged scheduler is reported, once;
- *principles*: a quarantined row can always be found and resolved; what the
  user revoked stays revoked; an expired row points to its replacement; the
  audit log describes what happened;
- *delivery*: no event vanishes without a trace; the turns of a transcript form
  one chain; context is injected once per session;
- *locks*: one daemon; a lock of a dead process does not block for ever;
- *retrieval*: a requested job is done in the end; two workers never share one;
- *alerts*: an unresolved signature that repeated has one active alert; what
  the user acknowledged stays quiet;
- *keys*: no damaged row is signed again; a retired key does not come back;
  processes use one key;
- *coaching*: an application is counted once and has its evidence; one failure
  makes no lesson; what the user dismissed does not come back;
- *integrations*: what users keep in a settings file survives every rewrite; a
  repair leaves no stale path;
- *settings*: a provider is called the way it was tested, with its own key;
- *recall*: an agent sees memories in scope;
- *batches*: events are retired only when nothing that their answer held is lost.

PROJECT.json lists, under `hazards`, the places in the code where these are at
risk.

## 2. Plan

| order | module | models | abstract specification / composition | state |
|---|---|---|---|---|
| 1 | `SessionDistill` | the three distillers of a session | composes the table, the lock and the health row | checked, proved |
| 2 | `PrincipleLifecycle` | the principles table and its writers | | checked, proved |
| 3 | `RetrievalQueue` | retrieval jobs, the loop, the handlers, the wake channel | implements `RetrievalPromise` | checked, proved (refinement included) |
| 4 | `FailureAlerts` | signatures and alerts | its `UpsertActiveAlert` precedes the handler steps of module 3 | checked, proved |
| 5 | `DaemonLifecycle` | the system calls of the daemon's files; start, stop, repair, handshake | the daemon that modules 1, 3, 4 and 6 take for granted | checked, proved |
| 6 | `EventDelivery` | hook, socket, outbox, handlers, evidence, transcripts | composes the agent, its hooks, the daemon and a synthesis | checked, proved |
| 7 | `SigningKeys` | keychain, key file, rotation, the signatures of rows | the signatures that module 2 leaves out | checked, proved |
| 8 | `Coaching` | observations, skill states, coaching items | its drafts are what `Verification` computes | checked, proved |
| 9 | `Integrations` | settings files of agents, service file, repair | | checked, proved |
| 10 | `Algorithms` | drives `Verification`, `Settings`, `Recall`, `Context7`, `Inference` over any inputs; `Lists` is what they share | each against a definition of what its answer should be | checked, proved |
| next | an abstract specification of event delivery (what an agent may rely on), with the proof that module 6 implements it; the packages of section 15 when they get a caller | | | to do |

The order puts the behaviour that loses the user's data first. Runs use one or
two actors of every kind, and every bound is a constant. Modules with theorems
use no RECURSIVE operator.

## 3. SessionDistill

### Correspondence

| model | code |
|---|---|
| `stored`, `boundary`, `distilled` | table `events`: rows per session, event types, column `distilled` |
| `summaries` | table `session_summaries` in insertion order; `covers` is the set of events read for it |
| `health` | the `distillation_health` row; `minutes` is `time.Since(LastFailureAt)` as far as the backoff can tell |
| `lock` | `forge.distill.lock`: the process that created it, what it holds (nothing for less than a second, nothing, a pid), and older than `distillLockTTL` |
| `acq`, `LockCreate` ... `LockFails` | the system calls of `acquireDistillLock` and `isDistillLockStale`: create, stat for the age, read, stat for the size, signal 0, remove, write |
| `daemon`, `skips` | the loop's local variables and `consecutiveDistillSkips` |
| `manual`, `synth` | the processes `forge distill` and `forge synthesize-session` |
| `DaemonSelect` ... `DaemonCycleEnd` | the parts of `distillSessionBatch` between two database statements or provider calls |
| `ManualSelect` ... `ManualReport` | `distillBatch` and `runDistillDrain` |
| `SynthCheck` ... `SynthRecord` | `runSynthesizeSession` |
| `StoreEvent`, `SpawnSynthesis` | `handleEventMsg`, `spawnSessionSynthesis` |
| `ProviderFault` | any error of a provider call, its parsing or the following insert |

`extracted`, `flushed`, `reclaimed`, `raced`, `wedges` are history variables. Two
things are deliberately coarse: principles themselves are not in this module, and
of a checkpoint's events only the set matters. Of the commands around the lock,
`--wait` only delays an attempt and is left out; `forge doctor --repair`, which
removes a distill lock it finds stale, is not modelled. `forge distill` ends by
`os.Exit` where it cannot open the database, which is one of its crashes.

### Runs

| run | checks | instance |
|---|---|---|
| `DistillSafety` | `TypeOK`, `ExclusionUnlessReclaimed`, `WedgeReportedOnce`, `RetiredEventsAccounted`, `OneDaemonSummary` | one session of two events, one synthesize process, a manual run, a fault, a crash, a lock that may outlive its TTL |
| `DistillLive` | `EndedSessionsSummarised`, `ManualTerminates` | fairness; two faults, a crash, a manual run, backoff up to two minutes |

Bounds. The limits of the code are scaled: two events with head 1 and tail 0
(instead of 20 and 30) already have one that is left out; a batch needs 1 or 2
events instead of 3; a wedge is 2 skips instead of 3; backoff cap 2 instead of
30, which still has the three regimes (none, doubling, capped). One session and
one process of a kind are enough where only its own steps and the table matter. A
manual run, a daemon that is killed and the next daemon meet every lock file that
one of them can leave, at every step of acquiring it; 8.6 million states.
Faults and crashes are bounded because the liveness properties only hold when
the provider stops failing.

Fairness. Weak fairness of the daemon's step, of `ManualStep`, of each
synthesize process and of the clock. The daemon's loop is a ticker goroutine
that no other goroutine blocks, the others are processes the operating system
schedules, and a daemon that is down is started again by launchd, systemd or
the next `forge start` or `forge mcp` (section 7). Nothing is assumed of the user, of
events, of the lock's age or of the provider.

### Findings

A session whose summary is stored but whose extraction fails is never tried
again (configuration `DistillRetry`, section 13). Two more can be read off the
model. A starting daemon removes the lock of a `forge distill` that is still
running, as if none could span a restart; `ExclusionUnlessReclaimed` counts this
as a reclaim. `DistillRace` shows that the lock does not exclude even with nothing left
behind, nobody late and one attempt each: one process finds the file that the other has
just created and reads no pid in it, the other writes its pid, the first now asks for
the size, finds it not empty and takes the file for garbage, removes it and creates
its own. So `ExclusionUnlessReclaimed` excepts, besides the reclaims, that both were
inside `acquireDistillLock` at once (`raced`), and says that nothing else is
enough: no lock file left by a dead process, no failed write, no blocked attempt. And the hook spawns the final synthesis before it sends the
terminal event, so the final summary may be made without it.

### Proofs (`SessionDistillProofs`)

For every number of sessions, events and processes: `TypeCorrect`,
`RetiredCorrect`, `ExclusionCorrect`, `WedgeCorrect`, `OneDaemonSummaryCorrect`.
The inductive invariant `IInv` adds two parts to the properties. `WorkInProgress` says what a process
may rely on in each phase (a daemon past the synthesis has a summary for its
session): without it the step that marks events has no reason for them to be
accounted for. `HoldersOwnTheLock` says, of the
behaviours without a reclaim and without a race, that a distiller that works owns the
file with its pid in it, that only one process is inside `acquireDistillLock`, and that
what it has found stale so far (`FoundStale`, step by step from the read on) belongs to
no live process; exclusion follows because the file has one owner. `LockOwnersLive` says
that a file which names a live process is that of one at work or about to write its pid. Most leaves only
need that tables grow (`Growth`): a summary, once there, stays. The wedge
counter is independent and has an invariant of its own, and so has the daemon's
one summary per session: `DaemonAlone` says that nobody else stores that kind
and that a daemon about to synthesize has found no summary of its own. A crash
between the insert and the marking of the events is harmless because the next
daemon looks again.

Assumption: `ConstantsAssumption` (finite sessions, natural bounds, limits of at
least one).

What happens inside the provider call of a batch is module `Inference`
(section 12).

## 4. PrincipleLifecycle

### Correspondence

| model | code |
|---|---|
| `rows` | table `principles`; the title stands for the fingerprint, which is unique |
| `det`, `DetMark` | one `detectAndMarkConflicts`: the rows it inserted, those it compares with; the provider's pair may name any two of these, one twice, and ids of no row (`Stray`) |
| `con`, `work`, `audit` | `forge consolidate --apply`: phase, batch and decisions; the rows its transaction sees; the `memory_ops` rows it inserts |
| `dash` | one dashboard page: rows still to look at, pairs shown |
| `MarkConflicting` ... `RevivePrinciple` | the SQL statements of `principles.go`, as operators on a table |
| `ConBegin` ... `ConCommit`, `ConAbort` | `applyResults`, one step per decision, inside `WithTx` |
| `DashList`, `DashCheck`, `DashResolve` | `handleConflicts`, `handleResolveConflict` |
| `Revoke`, `Delete`, `Save` | the user's commands |

`Unlocked` is SQLite's single writer: nobody else writes while the
consolidation is in its transaction, and readers see committed rows. The
decisions come from a provider: any decision that `validateResults` lets
through is possible. `manual` and `settled` are history variables.

### Runs

| run | checks | instance |
|---|---|---|
| `PrinciplePair` | `TypeOK`, `ConflictHasPeer`, `SettledRevocations` | two ids and a stray one, two titles, one decision per batch |

Bounds. A conflict has two rows, and a decision acts on one, so two ids show
every link, and two titles both a collision and a replacement. What more ids
could do (chains of peers), and a batch in which one decision changes what the
next one sees, is covered by the proofs, which hold for any number of both;
configuration `PrincipleRevive` runs batches of two. Ids and titles are
symmetric: no property is temporal beyond one step. There is no liveness: every
step waits for a person or a provider.

### Findings

The user's revocation is not as firm as the comments say: an expiry followed by
an ADD in one batch revives a row that was revoked after the batch was read
(configuration `PrincipleRevive`, section 13). And an
ADD that precedes the DELETE it replaces is skipped, which leaves neither row
active, and the expired row names a replacement that does not exist (nothing
reads the column). Two more can be read off the model: both repairs of a conflict set
`active` whatever the status is by then, and an EXPIRE audit row is committed
for a row that was deleted since the batch was read.

Nothing looks at the ids that the provider names as a pair (`parseConflictPairs`
only refuses empty ones): a row may be marked as in conflict with itself or with an id
that is no row. The comment at distill.go:1783 speaks of pairs of two principles
(`PairsOfTwo`, which is false). `ConflictHasPeer` holds all the same, because it asks
for what the dashboard asks for: a peer that is named, so that the row is shown and
can be resolved.

What does hold, and is checked and proved, is the weaker
`SettledRevocations`: a revocation made while no detector, batch, screen or
conflict refers to the row is final.

### Proofs (`PrinciplesProofs`)

For any sets of ids and titles and any number of decisions: `TypeCorrect`,
`ConflictCorrect`, `SettledCorrect`, and `ExpiryCorrect` (an expiry unlinks the
row's peers), which no run repeats. Every operator on a table
has a lemma that says it keeps the table's type, keeps conflicting rows linked
(`Linked`) and keeps rows alone that are alone (`Alone`); the steps of `Next`
are then cases of these. `IInv` states `Linked` and `Alone` both of the
committed table and of the transaction's, because a commit copies one to the
other, and needs `RowsBorn` (a new row has a fresh id, which no peer column
names) and `PlanInBatch` (UPDATE and DELETE name rows of the batch, which a
settled row is not in).

Assumption: `PrincipleAssumption` (`None` is no id; `MaxOps` is a natural number).

## 5. RetrievalQueue

### Correspondence

| model | code |
|---|---|
| `jobs` | table `retrieval_jobs`: the status by deduplication key. A key is the source, the library and the kind of trigger (`dedupeKey`) |
| `cache` | table `external_context_summaries`: no summary of a key, a fresh one, an expired one |
| `prompt`, `PlanPrompt` | the hook process of a prompt, `planPrompt` and `EnqueuePromptRetrieval` |
| `handler` | the goroutines that run `EnqueueFailureRetrieval`, one per failure that repeated |
| `wake` | the tokens in the channel `immediateWakeCh`, which holds one |
| `loop` | `retrievalLoop`: waiting or in a batch, jobs done in it, the job in hand |
| `Claim`, `Fetch`, `Store`, `Fail`, `Finish` | `NextQueuedRetrievalJob` and the parts of `RunOnce` between two writes |
| `LoopTick`, `LoopWake`, `BatchEmpty`, `BatchFull`, `ClaimFault` | the ticker, the channel, and the ways a batch ends |
| `DaemonEnds`, `DaemonStarts` | the process ends anywhere, and another takes over |
| `SummaryExpires` | a summary passes its TTL |

`orphans` (running jobs nobody works on) and `signalled` (jobs that a handler
asked the loop for) are history. The services, the text of questions and
answers and the wording of keys are abstracted: a fetch succeeds or fails.

`RetrievalPromise` is the abstract queue: jobs with a status, at most one in
hand, the most important one taken first, and closed as done only when its
answer is stored. The refinement mapping is `status <- jobs`, `held <-` the
loop's job, `answered <-` the keys with a summary that is or was fresh.

### Runs

| run | checks | instance |
|---|---|---|
| `Retrieval` | `TypeOK`, `RunningAccounted`, `WakeNotLost`, `KeepsPromise`, `QueuedIsTried` | fairness; one library, one handler, two requests, one database error, one end of the daemon |

Bounds. One library already gives six distinct questions (setup, plain web, and
documentation and web for prompt and failure), with all priorities in play. A
batch of one job makes every batch full, so that the `cut` between batches is
always exercised. Two requests let a question be asked again while it is queued,
running, failed or done. One fault and one crash reach every place where a job
can be stranded.

Fairness. Weak fairness of the loop: it is a goroutine of its own, woken by a
30 second ticker, every fetch has a timeout (15 to 30 seconds), and a daemon
that is gone is started again. Nothing is assumed of prompts, failures, the
services or the database. `QueuedIsTried` needs that requests are finite:
with an endless stream of important jobs the order of priorities could starve
the rest, in the code as in the model.

What the runs do not refute and a reader should know: a job that was running
when the daemon ended stays running for ever, and no request queues it again;
`RunningAccounted` counts such jobs as orphans. That a job closed as done has its
summary (`DoneHasSummary`) is proved and part of the refinement, so no run
repeats it.

### Proofs (`HandlersProofs`)

For any libraries, handlers and batch limit: the four invariants, and
`PromiseKept`, the refinement of `RetrievalPromise`. The inductive invariant adds
`LoopShape` (the loop has a job exactly in the phases that work on one),
`FinishStored` (what is about to be closed as done has its summary) and
`Triggers` (handlers queue questions of failures only, so that a prompt never
queues a job that a handler signalled). Assumptions: `RetrievalAssumption`
and `NoneAssumption`.

## 6. FailureAlerts

### Correspondence

| model | code |
|---|---|
| `sigs` | table `failure_signatures` of one project, session and tool; `Unresolved` is the empty `resolved_ts` |
| `active`, `acked` | table `alerts`: the `source_ref` of the row with `acknowledged` 0 or 1, of which the unique index allows one each per fingerprint |
| `observer` | the goroutines of `handleConn` in `ProcessEvent` |
| `Receive` | `handleEventMsg` for an event that `observeFailure` or `observeSuccess` recognises |
| `UpsertFailureSignature`, `ReadSignature`, `Panic` | the two statements of `UpsertFailureSignature`, and the dereference of its result |
| `UpsertActiveAlert` | the statement of that name |
| `SelectSignatures`, `ResolveOne`, `ResolveClash` | the SELECT, the UPDATEs and the failing UPDATE of `ResolveFailureSignatures` |
| `AcknowledgeAlerts` | the statement, refused by the index where one of the alerts was acknowledged before |
| `Fault` | any statement fails |

A fingerprint is a command family with a normalised message, as the hash of
`observeFailure` is of these (its other parts are fixed here). Recognising
failures in text is abstracted to the event's kind. The retrieval that a
repeated failure asks for is the handler of section 5.

### Runs

| run | checks | instance |
|---|---|---|
| `FailureAlerts` | `AlertsTypeOK`, `AlertsNameRepeats`, `AcknowledgedIsResolved` | three handlers, two commands, six events, one fault |
| `AlertsPanic` | refutes `UpsertReturnsTheRow` | a success between the two statements of the upsert |

Bounds. Three handlers let a failure raise an alert while a success resolves its
row and a third event opens the next row of the fingerprint. Six events is the
least that takes one fingerprint through two rounds of count, alert and
resolution. Seconds are 1 and 2, so that two resolutions may or may not fall
into the same one. Ids and handlers are symmetric. There is no liveness:
nothing retries a failing statement.

### Findings

Reading the row back is a statement of its own. When the handler of a success
resolves the row in between, `UpsertFailureSignature` returns nil and
`ProcessEvent` dereferences it; the daemon ends. And the unique index holds
`acknowledged`: the second resolution of a fingerprint in a session cannot
acknowledge its alert, which goes on reporting a failure "without a detected
resolution" for a day (configuration `AlertsStale`, section 13).

### Proofs (`HandlersProofs`)

For any handlers, commands, messages and rows: `AlertsTypeCorrect`, `AlertsCorrect`,
`AcknowledgedCorrect`, `ClosedCorrect`. The argument is that the table only
grows (`Grows`: rows stay, open rows count on, resolved rows are frozen), which
every action is shown to respect once; what a handler relies on in its phase
(`Work`: the rows it is to acknowledge are resolved, the row it raises an alert
for repeated) is stable under growth, so interleaving cannot disturb it.
Assumption: `FailureAssumption`.

## 7. DaemonLifecycle

### Correspondence

| model | code |
|---|---|
| `locks` | `forge.lock` and `forge.start.lock`: the process that created the file, and whether its pid is in it yet |
| `address`, `pidfile`, `socket` | `forge.addr` (whether it exists; the path in it is fixed), `forge.pid`, and what is bound at `forge.sock` |
| `proc` | every process: where it is, the attempts of `acquirePIDLock`, the files it is still to look at or remove, its parent |
| `AcquireCreate`, `AcquireWrite`, `AcquireRead`, `AcquireStat`, `AcquireProbe`, `AcquireRemove` | the system calls of `acquirePIDLock` and `isPIDLockStale`; `saw` is the pid that was read |
| `CleanLook`, `CleanRead`, `CleanSize`, `CleanAlive`, `CleanDrop` | those of `cleanStaleDaemonState`, file by file |
| `ListenUnlink`, `ListenBind`, `WriteAddr`, `WritePID` | `ipc.Listen` and the rest of the way to a running daemon |
| `Shutdown`, `Sweep` | the end of `runDaemon`, its deferred calls included |
| `StartBegin` ... `AwaitOther` | `ensureDaemonRunning`; `forge doctor --repair` first looks at the files (`then = "check"`) |
| `ServerExit` | `forge mcp` ends, and the daemon's parent monitor may notice |
| `Stop` | `runStop`: `killProcess` does not wait for a process that is no child |
| `Die`, `Exit` | a crash or `log.Fatalf`; what exits stays a zombie while its parent lives, since `startBackground` does not wait |

### Runs

| run | checks | instance |
|---|---|---|
| `DaemonLifecycle` | `OneDaemon`, `ServingReachable`, `StartRecovers` | fairness; two daemons, `forge mcp`, `forge start`, `forge doctor --repair`, `forge stop`, a service manager; one daemon is killed |

Bounds. The death may come at every step of a daemon, so the other one meets every
set of files that one can leave. Two plain starters race for the start lock. What more
processes of each kind could do is covered by the proofs, which hold for any number.

`raced` is history: a start created the start lock, or wrote its pid there, while another
one was between reading the lock and removing it. `OneDaemon`, `ServingReachable` and
`StartRecovers` except what follows, because then two daemons may start (see Findings).

What the passing run assumes of its environment is in the constants. `Calm`: a
person gives one command at a time, though several agents may start `forge mcp`
at once, and nobody sleeps through the second in which a lock file may be empty
or the ten seconds of `waitForDaemonReady`. `Patient`: a start comes when no
daemon is shutting down; nothing in the code makes it wait, and `DaemonTwo` is what
happens otherwise, so that hazard is outside these properties. `Mortal`:
starters are not killed; one that is killed leaves a start lock that two others can
both take.

Fairness. Weak fairness of each daemon's and each starter's steps, which are
sequential code of separate processes without unbounded waits, and of time.
Nothing is assumed of people, of the service manager or of crashes.

### Findings

Configuration `DaemonRace`: two undisturbed starts, nothing left behind. The second
finds the start lock that the first has just created and reads no pid in it; the first
writes its pid; the second asks for the size, finds the file not empty, takes it for
garbage (`isPIDLockStale` makes one answer of two looks) and removes a live lock. Both now
clean up, one removes the lock of the daemon that the other has spawned, and two
daemons work on one database. It takes the microseconds between two system calls, and
several agents that start `forge mcp` at once. The file that has vanished between the
failed create and the read is taken for stale in the same way.

Configuration `DaemonTwo`: a daemon that shuts down removes files by their path, whoever
wrote them, and `forge stop` does not wait for it; after stop, start the new daemon
serves without its files, and a further start may add a second one.

Without a configuration: a daemon that dies while the `forge mcp` that started it runs
on is a zombie, which signal 0 reaches; its lock counts as held, and no start succeeds
until that `forge mcp` ends (`StartRecovers` therefore asks that no process is a
zombie). And `forge doctor --repair` takes every socket that exists for a stale one, so it
makes a healthy daemon unreachable, and the start that follows is refused by
that daemon's lock; `ServingReachable` leaves repaired states out for this reason.

### Proofs (`DaemonLifecycleProofs`)

For every number of daemons, starts, repairs, stops and deaths of daemons and stops,
with or without a service manager: `OneDaemonCorrect` and `ServingReachableCorrect`,
with the exception of `raced` that the properties state. Both assume `Orderly`: `Calm`,
`Patient`, and that starts are not killed.

The properties follow from who owns which file. The invariant is `raced \/ IInv`, and
`IInv` has ten parts:

- `StartLock`: the start lock belongs to the start that holds it, and what another start
  has seen of it (`Seen`) is still so: a file read without a pid is that of a start
  about to write it, a pid that was read is that of the holder, and while a start is
  about to remove a lock nobody holds it. This is the part that a race would break.
- `OneStarts`: hence one daemon at a time is between its spawn and its address,
  and its starter waits for it.
- `DaemonLock`, `Found`: a daemon owns `forge.lock` until it is asked to stop,
  and what it has bound and written stays in place. The daemon's own lock needs no
  exception: who reads it there is the only daemon on its way.
- `Cleared`: the start that cleans up has found under the lock that no daemon
  answers, so that what it reads, judges and removes, each a step of its own, is of
  no use to a daemon that lives (`Judged`).
- `Alone`: repairs, stops and daemons that leave have the machine to
  themselves. This is what `Calm` and `Patient` give, and the only place where
  they are used besides the wait for a daemon and the age of a lock.
- `TypeOK`, `Kinds`, `Todos`, `Asked`: which phases, files and signals belong to
  which kind of process.

`TypeCorrect` proves `TypeOK` without `Orderly`: only `Listed` is added, that a
start about to judge or remove a file has one in its list.

TLC checked `IInv` before the proof, where nothing has raced. `StartRecovers` is a
liveness property and stays with TLC.

Assumptions: `LifecycleAssumption` (daemons, starters and stoppers are different
processes; repairs and `forge mcp` are starters; `None` is neither a process nor
a lock file).

## 8. EventDelivery

### Correspondence

| model | code |
|---|---|
| `agent`, `file` | the coding agent of a session and the lines of its transcript |
| `hook`, `Fire` | one `forge hook` process per event, and `runHook` up to `ipc.Send`: filters, and the synthesis it spawns at a session's end |
| `DialRefused`, `Dial`, `AwaitClosed`, `AwaitLate` | `ipc.Send` and `awaitAck`: no daemon, a message handed over, the connection closed, 50 ms over |
| `outbox`, `Enqueue`, `EnqueueFails` | `ipc.Enqueue` |
| `Recall`, `IsFirstPrompt`, `recalled` | `handleSessionRecall`, `isFirstPromptOfSession` |
| `handler`, `InsertEvent`, `PutFile`, `PutRow`, `IngestLine` | the daemon's goroutine for a message: `handleEventMsg`, `captureEvidenceArtifacts` and `Put`, `ingestTranscript` |
| `stored`, `turns`, `files`, `rows` | the hooks' and the transcripts' part of `events`, the evidence files, their index |
| `synth` | `synthesize-session --checkpoint-kind final` |
| `DaemonStops`, `DaemonCrashes`, `DaemonStarts` | a signal, any other end, a new daemon |

`handleConn` never writes an acknowledgement, so `awaitAck` always fails and
every event of a healthy daemon is stored and queued; `DrainOutbox` has no
caller. What the recall injects is module `Recall` (section 12).

### Runs

| run | checks | instance |
|---|---|---|
| `EventDelivery` | `NothingForgotten`, `TurnsChained`, `RecalledOnce`, `ImportComplete` | one session, three hooks, two transcript lines, two mishaps |

Bounds. Three hooks are a prompt, an edit and an end, or a prompt and two ends
that import one transcript at once; two lines are the least with a chain. A
mishap is a hook that gives up waiting, a failing statement or file operation,
or an end of the daemon; two of them let an import fail and the daemon die
before the next one. `disturbed` and `unqueued` are history: they list what the
properties exempt. `TypeOK` and `EvidenceHasFile` are stated in the module, hold
in the same instance and are proved; no run repeats them.

### Proofs (`EventDeliveryProofs`)

For any sessions, transcripts, events and bounds. `TypeInv` holds the types and that
hooks fire in the order of their numbers, so that a new hook never takes the place of
one whose event is known. `NextSteps` says once what a step may change: the
theorems follow from it instead of from the actions. Hooks keep their event,
transcripts only grow, an event comes to the end of Send through the outbox, and any
step but `IngestLine` leaves the table and the imports alone or begins one at line one.

* `ForgottenCorrect` proves `NothingForgotten` from `QueuedInv`, which is stronger: the
  outbox alone accounts for every event, because nothing is ever acknowledged.
* `ChainCorrect` proves `TurnsChained`. It is not inductive: another import has yet to
  store its next line. `ChainInv` adds that every import has all turns before its line
  in the table, stored by whomever, and holds what the next one hangs from. Both are
  `ImportedTo`, which a growing transcript does not disturb since it only looks at
  lines that exist (`ImportedStays`).
* `ImportCorrect` proves `ImportComplete` from the same invariant at the end of the
  file (`ImportEnds`).
* `RecalledCorrect` proves `RecalledOnce`. Whether a prompt is the first is a count of
  rows, so `RecallInv` says which rows there are while nothing disturbs a session: a
  hook that asks has its event stored (`Answered`); until a prompt is through there is
  no other prompt and nothing that only follows one (`Opening`); and context was given
  once if one is through, else never. The count is then one exactly if no prompt is
  through (`FirstPrompt`, over cardinalities). `TurnInv` adds that a session without a
  stop has no turns: those are the other rows that the count may see.
* `EvidenceCorrect` proves `EvidenceHasFile`: a handler about to write the row holds
  content whose file is there (`HeldInv`), and files are never removed.
* `TypeCorrect` proves `TypeOK`. The bound of `recalled` needs an argument: a session is
  given context no more often than it has hooks that are through (`Bounded`).

## 9. Coaching

### Correspondence

| model | code |
|---|---|
| `job` | a run of one of four programs: the daemon's `ProcessCompletedSession`, `DetectAndQueueVerification` (`forge coach`), `QueueKnowledgeGaps` (`forge knowledge-gap`), and `Backfill`, which the package `coach` exports and its tests call, while no command does |
| `InsertObservation`, `AddEvidence`, `ListEvidence`, `AddProvenance` | the statements of `evidence.Store.Save` |
| `GetSkillState`, `ApplyState` | the read, and `ApplySkillStateOnce` (marker and row in one transaction) or `UpsertSkillState` |
| `Evaluate`, `StateAfter` | `skills.Evaluate` and its rules in their order |
| `ListObservations`, `ListItems`, `Consider`, `InsertCoachingItem` | `QueueEligible` |
| `act`, `ReadItem` ... `UpdateCoachingItem` | `forge coach accept`, `defer`, `dismiss`, `never`: they write back the item they read |

A draft is the identity of an observation with a confidence; which drafts a
session gives is `Verification` (section 12). `uncounted` and `recounted` are
history: applications, and failed ones, counted by a command without a marker.

### Runs

| run | checks | instance |
|---|---|---|
| `Coaching` | `CountedOnce`, `CountedIsEvidenced`, `LessonIsRepeated`, `NeverShownAgain` | two sessions, a knowledge gap, two developers' commands; two runs of programs, three starts in all, one mishap |

Bounds. Two runs are the daemon beside a backfill or a command, or a run that fails and its
repetition; with a third start a command comes in between. A suspected gap
needs two counted failures, which two sessions give, or one gap counted twice. `Mode` is one that
queues and one that does not. There is no liveness: nothing is retried by
itself.

What holds is weaker than one might like. The runs with a processing marker count
an observation once, however they retry, race and fail, so that they need two different
failed observations for a lesson. `forge coach` and `forge knowledge-gap` keep no
marker: run twice over one failed session, or given an answer that names one topic
twice, they count the same observation again and queue a lesson from it, although the
comment at knowledge_gap_cmd.go:113 speaks of separate runs and coach.go:61 of
repeated evidence. `LessonIsRepeated` says exactly this: two marked failures,
or countings without a marker (`recounted`). A skill that was suppressed is left alone by every run that
lists the items afterwards; one that listed them before may still queue. Two
commands that overlap may undo each other.

### Proofs (`CoachingProofs`)

For any sessions, observations, commands, bounds and assignment of skills. `TypeInv`
holds the types and that a run at work on an observation has one. That the drafts of
several sessions, put together, are a list of observations is a conjunct of `Begin`:
nothing is proved about `FlattenSeq`.

* `CountedCorrect` and `LessonCorrect` prove `CountedOnce` and `LessonIsRepeated` from
  one invariant, `CountInv`. A row is computed from one that was read before, so
  `GoodRow` is required of the rows in the table and of the copies that runs and
  commands hold: it counts no more than the bound of its skill, no more failures than
  there are marked failed observations and recountings, and is a suspected gap only
  when these are two. The bound only grows
  (`Grows`), so old copies stay good (`RowKept`), and writing one with one more
  application is good because the marker comes with it (`RowCounted`).
* `EvidencedCorrect` proves `CountedIsEvidenced`. `EvidenceInv` says stage by stage what
  is in the tables of the observation a run works on.
* `NeverCorrect` proves `NeverShownAgain`. `NeverInv` says that what a run may still
  queue was not suppressed in the items it listed, and that a command holds a copy of
  an open item whose row exists.
* `TypeCorrect` proves `TypeOK`. Rows are written back from copies, so `ExactInv` also
  types the copies that runs and commands hold.

## 10. Integrations

### Correspondence

| model | code |
|---|---|
| `version`, `Equivalent`, `ForgePath` | the binaries on the machine, `os.SameFile` or equal contents, `forgePath` past build artifacts |
| `file` | the settings files: their kind, the server's path, the groups of hooks, what users keep |
| `run` | a command: `forge init`, `sync-integrations`, `start` |
| `Scan`, `StaleIn` | `checkAndRepairIntegrationPaths` and the parts of each file it reads |
| `Setup`, `UpsertHook` | `setupClaude` ... `setupAntigravity`, `upsertHookArray` |
| `Read`, `Write`, `Refused`, `Die` | the read, `WriteFileConfirm`, a write declined or refused, an end in the middle of `os.WriteFile` |
| `RepairService`, `InstallService`, `ServiceCommand` | `forge start` and the service commands on `unit` |
| `DoctorRepair` | `forge doctor --repair` on the other binaries |
| `Edit`, `Upgrade`, `Leave` | users, agents and package managers |

### Runs

| run | checks | instance |
|---|---|---|
| `Integrations` | `MineKept`, `RepairReaches` | machines with claude, antigravity or opencode, or with gemini and codex; three paths of binaries, one of them a build artifact; two commands at once, one edit, one fault |

Bounds. A machine of one agent shows what happens to its files, a machine of
two what a failure at one leaves of the other. Two commands read one file before
either writes it; a change in between is what `owed` (what a user may expect to
find) gives up. The files start empty, with an old hook, or with two hooks and
a moved binary. `TypeOK` is proved; no run repeats it.

### Proofs (`IntegrationsProofs`)

For any binaries, agents, numbers of commands, of edits and of faults:
`TypeCorrect`, `MineCorrect` and `RepairCorrect`.

Neither property is inductive. A command writes from what it read before, and what
it leaves behind is the work of many steps, so `IInv` adds what it may rely on:

* `Going` says, for a command that nothing disturbed, that every file which is no
  longer on its list is `Repaired`: a stale path that a setup could have replaced is
  gone. At the end the list is empty, which is `RepairReaches`; `Ended` keeps the
  conclusion for as long as nobody changes anything. It also says that what a command
  holds to write came from a file of that kind.
* `ForgesPart` says what of a file only Forge writes: files of a server have no hooks,
  the hooks of files that are no settings are Forge's, and a user keeps nothing in the
  skill of codex and the plugin of opencode. Without it a setup that replaces such a file as a whole
  could take with it what a user had there.
* A change by anybody else disturbs every command and clears what was settled, and a
  command that is disturbed relies on nothing that others change; this is why the
  promise is one about undisturbed commands.

Most of the proof is about `upsertHookArray`. The groups of hooks of an event are a
list of any length, from which `Without` drops every command of Forge but one. That
is a recursive function, and what it computes is shown in two inductions: a function with
its equation exists for every length (`UptoExists`, `WithoutUpto`), and what it returns
lists the members that are left, each once (`WithoutPlaces`). The library's induction
theorems take an operator and cannot be cited; that a set of natural numbers has a
least member (`WFMin`) takes a set, and the lengths at which a claim
holds are one (`Induction`). `UpsertHookMakes` is the result: the hooks after a setup are the ones
that were there without Forge's, and exactly one of Forge's.

Assumptions: `PathsAssumption` (the path of the shell is one of a stable binary, and
some binary is managed) and `MachinesAssumption` (agents are agents; the bounds are natural numbers).

## 11. SigningKeys

### Correspondence

| model | code |
|---|---|
| `chain`, `up`, `late` | the keychain, whether it answers within its limit, stores that were given up and may still land |
| `keyFile`, `marker`, `probe` | `forge.key`, the marker `keychain-unavailable` (ten minutes), the probe lock |
| `GetOrCreateKey` ... `WriteKeyFile`, `KeyFileFails` | the calls of `GetOrCreateKey`; a write that fails may leave the file truncated |
| `RotateKey`, `RefreshKeyFile`, `RefreshFails`, `ListPrinciples`, `ResignAllPrinciples` | `forge harden rotate-key`, which may end between any two of them |
| `sealed`, `Seal`, `Opens`, `Resign` | the principles: what their signature covers and under which key |
| `WritePrinciple`, `RevokePrinciple`, `Damage` | writers of forge; a row that something else changed: its title, its narrative (into a plaintext, or into what no key opens), or its signature blanked |
| `MarkerExpires`, `LateStore`, `KeychainMoves`, `Crash` | time and the system |

The cryptography is external: a signature is the pair that was signed and the
key. `trusted`, `retired` and `causes` are history. Assumed: the feature is
enabled (`FORGE_DISABLE_KEY` is unset) in every process, and one rotation at a
time.

Rows without a signature. A process that gets no key stores plaintext and an empty
signature, rows of old versions have none, and damage may blank one. `scanPrinciples`
returns such a row unverified, and a rotation signs it as it stands: `trusted` holds,
per principle, the contents that forge wrote and those that were in the row while it had
no signature. A narrative without the prefix of encrypted text is plaintext to
`Decrypt`, whatever key there is, and is then held against the signature.

A rotation that is cut short. The old key is retired when the keychain has stored the
new one; the file follows. A crash in between, or an `os.WriteFile` that fails, ends
the command with the old key (or a truncated file) still there, and with every row
still signed under the old key, since `ResignAllPrinciples` comes last. The comment at key.go:246 rules
the first out; `NotResurrected` states it and configuration `RotateCut` refutes
it.

### Runs

| run | checks | instance |
|---|---|---|
| `SigningKeys` | `NothingDamagedIsSigned`, `RetiredStaysRetired`, `KeysAgree` | two processes, one that may rotate, one principle, five keys, two writes or damages, one mishap |

Bounds. Two processes race for the probe lock and the file. Five keys are one in
each place, one generated by each process and one by a rotation. Principles do not
interact, so one is enough. Two writes: one before the rotation lists the rows,
one (or a damage) between that and its transaction.

### Proofs (`PrinciplesProofs`)

For any processes, rotators, principles and bounds:

* `KeysTypeCorrect`. The invariant `TypeInv` adds two parts to the types: `Probing`, a
  process asks the keychain exactly while it holds the probe lock, and `HasKey`, a
  process that works or rotates has a key and one that is about to store has what it
  stores.
* `SignedCorrect` proves `NothingDamagedIsSigned`. The property is not inductive: a rotation
  signs what it read earlier. `SignedInv` says that every row, and every row of
  a snapshot a rotation has read, is vouched for (`Vouched`): its signature is over a
  trusted content, or it has none and its content is trusted; and that a row in a
  snapshot still exists. A row is signed again only when its old signature covers what
  was read, or it had none (`ResignSigned`): the content was trusted before.
* `AgreeCorrect` proves `KeysAgree`. `AgreeInv` names the key that all have: the one in
  the keychain while it answers, the one in the file otherwise. While none of the
  causes happened, every process that has a key and every row has that one, nobody
  looks at the file while the keychain answers, and what is about to be stored in
  the keychain replaces nothing; so when the shared key changes there was none, and
  then nobody has a key and there is no row (`NothingShared`, `FoundAgrees`).
* `RetiredCorrect` proves `RetiredStaysRetired` under `SingleRotator`, that at most one
  process rotates. The command takes no lock, and with two of them the property is
  false: one may write to the file what the other has just replaced. `RotationInv` says
  that all keys in use were generated, so a new one is new (`Bounded`); which processes
  may rotate (`Roles`); and, unless a late store has landed, that a retired key is
  nowhere but in the file, and there only while the rotation that retired it has yet
  to refresh it or after one was cut short (`FileIsBehind`).

## 12. Algorithms

Five computations have no state of their own worth interleaving, but many
branches. Each is a module of operators; `Algorithms` runs one of them per step
on an input out of a set that is a constant, and its invariants compare the
answer with what it should be. The run gives the constants small sets, the
theorems hold for any. Lists are filtered and sorted by `Lists`: the n-th member
is the one with n - 1 others before it, which is what a stable sort and a
filtering loop give, and what a proof can speak about.

| module | code | what should hold |
|---|---|---|
| `Verification` | `observations.DetectVerification` | `VerificationOrderFree`: the drafts do not depend on the order of the events |
| `Settings` | `config.Load`/`Save`, `runConfig`, `LoadConfig` and the choice of a provider's address, key, model and time limit | `ConfiguredIsUsed`: later calls are made as the tested one, and with the provider's own key |
| `Recall` | `handleSessionRecall` with the scans and scores of `hook_recall.go`, the tools `get_principles` and `inject_principles`, `GetRelevantPrinciples` | `RecallInScope`: what is shown is in scope, the own project's memory first |
| `Context7` | `fetchContext7MCP`: JSON-RPC over a child's output, the library, the tool, the summary, and its refinement by a provider | `FetchStoresOwnAnswer` |
| `Inference` | `callLLM` with its retries and errors, `parsePrinciples`, `parseConflictPairs`, `distillBatch` | `BatchNotLost` |

The run `Algorithms` goes over some 590 000 inputs: every choice of three out of
twelve events with commits and failure signatures; every accepted command of
`forge config` after another one, in environments with old values; one or two
principles, with and without a key and of repositories of one name, and up to two
summaries of the own and of another project; four or
five lines of a server in any order; replies of every kind from four kinds of
provider. These are the bounds: a list of three shows every order of two rows
around a third, two rows show every competition between candidates, and a
script of five lines has room for the calls of a whole fetch and one line that
does not belong.

Text is abstracted to what the branches tell apart: a word that occurs, a piece
that is JSON, a duration that parses.

Read off these modules, and exempt from the properties where they matter:

- `forge config --provider groq` with a key only in `GROQ_API_KEY` is refused,
  although the usage text says that the environment is used; `--provider codex`
  saves a model of another provider, which `callCodex` passes on.
- `--timeout` has no effect on Ollama, which the messages for a timeout advise
  to raise; the validation ignores `--ollama-timeout`; `--retries 0` becomes 3;
  a negative timeout of antigravity is tested as 45 seconds and used as 30.
- Saving writes the values of the project's layer into the global file.
- Only the first external summary is shown; a best match below its threshold
  hides another one that would have been shown.
- A project is known by the key of its repository, where both the call and the row have
  one, and by the base name of its path otherwise. A tool that is given a `project_id`
  without a directory has no key and shows the rows of every repository of that name
  (project_key_test.go:68 expects it); summaries have no key at all. `RecallInScope`
  says so. The search for an injection takes the rows of highest impact (`Top`).
- How often a principle was used is counted apart from what is shown: one that is a
  lesson and the best match is counted twice. The number is only displayed, the decay
  reads the time of the last use, and neither is modelled.
- The success that makes a failure a `repeated_regression` may be of another
  family of tests.
- The Context7 client takes a request of the server that bears the awaited number for
  the answer, and walks the whole message, method and parameters, for library ids and
  texts: what is stored may then be the server's question. `FetchStoresOwnAnswer`
  excepts scripts with such a request.
- `parsePrinciples` takes an answer that begins with a bracket as it is: with a
  sentence after the array nothing parses, no error is returned, and the batch
  is retired. Only `callOpenAI` notices an answer that was cut off at the token
  limit (`callAnthropic` asks for at most 1024 tokens and does not look); the other
  providers' batches are retired as well. A response without choices or content is
  refused, an empty string in it is not, and `callOllama` ignores what it cannot read or
  parse: the batch is retired with nothing stored. `BatchNotLost` names these cases
  (`MayBeLost`) and says that there are no others.
- Status 429 of Anthropic and 503 of Ollama are reported as invalid credentials,
  404 of the OpenAI family as an unreachable provider.

### Proofs (`AlgorithmsProofs`)

All five invariants are theorems of the specification. The inductive invariant,
`Answered`, says that the input is one of those given and the output is what the
computation makes of it; it turns each property into a statement about one
computation and every input. The assumptions say what inputs are, and TLC
evaluates them on the sets of the run:

| assumption | says | because |
|---|---|---|
| `SessionsAssumption` | events have times, and an id each | rows of a table with a primary key |
| `CommandsAssumption` | the key in the global file and the one in the flags are those of the provider named beside them; retries are not negative | `forge config` asks for the key of the provider it is given; theorem `ConfigSaves` shows that what an accepted command saves over a global file is such a file again |
| `PromptsAssumption` | principles have an id each | a primary key |
| `ScriptsAssumption` | a result answers the request whose number it bears | JSON-RPC |
| `BatchesAssumption` | there is a reply to every attempt | a name for whatever the transport returns |

A settings file that a person edited may break the second; then a key may reach
another provider, and the theorem does not speak of it.

- *Lists.* `RowPlaces`: in a finite set with a strict total order the numbers of
  predecessors are 0 to N - 1, each taken once. (The count is injective into an
  interval of the same size, so it is onto.) `KeepIs` and `KeepKeeps` follow: a
  filtered list has exactly the members at the places that pass, in their order.
- `VerificationCorrect`. Time and id order the events of a session totally, so
  the sorted list is determined by the set of its members (`SortedIsCanon`); test
  runs and changes are made from the events one by one and keep time and id
  (`MapLists`), so they depend on the set of events and nothing else (`RunsAre`,
  `ChangesAre`); everything after them reads only these and the signatures
  (`DraftsAre`). The id in the comparison is needed: by time alone, rows of one
  second would keep the order they were read in.
- `ConfiguredCorrect`. An accepted command leaves nothing open that a call
  needs (`ConfiguredComplete`); what it does leave open, the time limits, every
  later environment fills in as the tested one did (`CalledAsTested`).
- `ScopeCorrect`. Every query returns rows of a set that is named first
  (`QueriesInScope`), and the rows of a project are those of its key or name
  (`OwnIsOwn`); the scan of other projects is reached only when nothing of
  the own project would be shown (`ScanPrinciples`, `ScanSummaries`), and the
  best match is one of what the scans found (`BestIsFound`).
- `FetchCorrect`. A request returns the first message with its number
  (`RequestAnswers`), which is the server's answer unless it sent a request of that
  number; the library of the docs is what the job names or what was extracted from that
  message (`LibraryFound`).
- `BatchCorrect`. The loop of retries stops at an attempt there is a reply to
  (`AttemptsMade`); the bracketed part of an answer in one of the prompt's forms
  is the one array in it (`AskedIsReadable`).

## 13. Counterexamples kept beside the runs

Where a comment, a message or a plain expectation says more than the code does,
the module states the stronger property too, and a configuration finds the
counterexample: `tlc -config X.cfg M`.

| configuration | module | refutes | what happens |
|---|---|---|---|
| `DistillRace` | `MCSessionDistill` | `DistillersExclude` | a lock that was empty when read and holds a pid when asked for its size is removed under its owner |
| `DistillRetry` | `MCSessionDistill` | `EndedSessionsDistilled` | the summary is stored and the extraction fails: the session is never distilled |
| `PrincipleRevive` | `MCPrincipleLifecycle` | `RevivalSparesManual` | a batch expires and revives what the user revoked meanwhile |
| `AlertsStale` | `MCFailureAlerts` | `ActiveIsUnresolved` | a second resolution cannot acknowledge its alert |
| `DaemonTwo` | `MCDaemonLifecycle` | `ServingReachable` | without `Patient`: a daemon that stops removes the files of the one started after it |
| `DaemonRace` | `MCDaemonLifecycle` | `OneServes` | two undisturbed starts: one removes the start lock of the other between its creation and its judgement, and two daemons serve |
| `OutboxReplay` | `MCEventDelivery` | `QueuedReplayed` | nothing replays the outbox, which hook.go says the daemon does |
| `EventBoundary` | `MCEventDelivery` | `SummarySeesBoundary` | the final synthesis is spawned before the end of the session is sent |
| `CoachAccept` | `MCCoaching` | `AcceptedIsLearning` | an acceptance after weaker evidence leaves the skill where it was |
| `PeerKey` | `MCSigningKeys` | `SealedVerifies` | a process that meets the probe lock seals with the file's key |
| `RotateCut` | `MCSigningKeys` | `NotResurrected` | a rotation whose write of the file fails leaves the replaced key there |
| `RotateStale` | `MCSigningKeys` | `RotationKeepsRows` | a principle rewritten while a rotation runs no longer verifies |

`AlertsPanic` (section 6) is the one of this kind among the runs.

## 14. Only model-checked

Liveness (`EndedSessionsSummarised`, `ManualTerminates`, `QueuedIsTried`,
`StartRecovers`) is out of the prover's reach. Every other property that a passing
run checks is proved. The refuted properties are counterexamples on small
instances.

## 15. Not modelled

- *Memory contract, provenance, handoff*: no command, hook, tool or loop calls
  these packages. Without a caller there is no order of their operations to
  check.
- *Reports* (`stats`, `funstats`, `profile`, `prompt-doctor`, `streams`,
  `steering`): queries and formatting without state.
- *Mastra pipeline*: a TypeScript experiment of its own.
- *MCP server*: the framing of requests and the tools that only list. The
  server is a sequential loop that answers one line at a time; it answers
  notifications it does not know with an error. `client.go` has no caller.
- *Scanners and parsers* of other programs' histories, and the text of prompts,
  reports, skills and settings files.
- *Scores of principles* and the retirement they drive; the evaluations that a
  person enters at the dashboard.
- *Windows*: named pipes, and processes there.
