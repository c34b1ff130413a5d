--------------------------- MODULE RetrievalQueue ---------------------------
(***************************************************************************)
(* External retrieval: the hook of a prompt and the daemon's handlers of   *)
(* repeated failures plan questions to documentation and search services   *)
(* (retrieve/planner.go) and queue them as rows of retrieval_jobs, one row *)
(* per distinct question.  One loop of the daemon takes them, asks the     *)
(* service, stores the answer in external_context_summaries and closes the *)
(* row (retrieve/worker.go, retrievalLoop of cmd/daemon.go).  A channel    *)
(* with room for one token wakes the loop before its next tick.            *)
(*                                                                         *)
(* Every SQL statement or transaction is one step.  One project is         *)
(* modelled, with one wording per library and kind of trigger: a job is    *)
(* then named by its source, library and trigger, and its priority is a    *)
(* function of these.  Jobs of equal priority are taken in any order.      *)
(***************************************************************************)
EXTENDS Naturals, FiniteSets

CONSTANTS
    Libs,       \* libraries that prompts and failures are about
    OpenLibs,   \* those with a published source (opensrcLibraries)
    Context7,   \* the library "context7"
    NoLib,      \* no library
    Handlers,   \* the daemon's handlers of failures
    BatchLimit, \* jobs per wake-up of the loop (3)
    MaxRequests, \* bound: prompts and failures
    MaxFaults,  \* bound: database errors
    MaxCrashes, \* bound: ends of the daemon's process
    None        \* no job

ASSUME RetrievalAssumption ==
    /\ OpenLibs \subseteq Libs
    /\ BatchLimit \in Nat \ {0}
    /\ MaxRequests \in Nat /\ MaxFaults \in Nat /\ MaxCrashes \in Nat

-----------------------------------------------------------------------------
(* Questions and plans. *)

JobKey(source, lib, trigger) == [source |-> source, lib |-> lib, trigger |-> trigger]

SetupKey == JobKey("context7_setup", Context7, "prompt")
PlainWebKey == JobKey("web", NoLib, "prompt")
FailureDocsKey(lib) == JobKey("context7", lib, "failure")
FailureWebKey(lib) == JobKey("web", lib, "failure")

Key ==
    {SetupKey, PlainWebKey}
    \cup [source : {"context7", "web"}, lib : Libs, trigger : {"prompt", "failure"}]
    \cup [source : {"opensrc"}, lib : OpenLibs, trigger : {"prompt"}]

ASSUME NoneAssumption == None \notin Key

Priority(k) ==
    CASE k.source = "context7_setup" -> 95
      [] k.source = "context7" -> IF k.trigger = "failure" THEN 100 ELSE 90
      [] k.source = "opensrc" -> 70
      [] k.source = "web" -> IF k.lib = NoLib THEN 40 ELSE IF k.trigger = "failure" THEN 85 ELSE 70

Outranks(k, l) == Priority(k) > Priority(l)

(* What planPrompt reads off a prompt: the words that ask for docs, for an *)
(* installation, for the implementation, and the libraries.                *)
Prompt == [docs : BOOLEAN, setup : BOOLEAN, source : BOOLEAN, libs : SUBSET (Libs \cup {Context7})]

(* planPrompt; web says whether a search service is configured. *)
PlanPrompt(p, web) ==
    LET libs  == p.libs \ {Context7}
        named == (IF p.setup /\ Context7 \in p.libs THEN {SetupKey} ELSE {})
                 \cup {JobKey("context7", l, "prompt") : l \in libs}
                 \cup {JobKey("opensrc", l, "prompt") : l \in IF p.source THEN libs \cap OpenLibs ELSE {}}
                 \cup {JobKey("web", l, "prompt") : l \in IF web THEN libs ELSE {}}
    IN  CASE ~ p.docs -> {}
          [] p.docs /\ named = {} /\ web -> {PlainWebKey}
          [] OTHER -> named

-----------------------------------------------------------------------------
(* State. *)

VARIABLES
    jobs,       \* retrieval_jobs: the status by question
    cache,      \* external_context_summaries: none, fresh or expired
    prompt,     \* the hook process: questions it still has to queue
    handler,    \* the handlers: where they are, and their library
    wake,       \* tokens in the wake channel
    loop,       \* retrievalLoop: phase, jobs done in this batch, its job,
                \* and whether the last batch ended with the queue unseen
    used,       \* how much of each bound has been consumed
    orphans,    \* history: running jobs that nobody works on
    signalled   \* history: jobs of failures that were not taken yet

vars == <<jobs, cache, prompt, handler, wake, loop, used, orphans, signalled>>

Queued == {k \in Key : jobs[k] = "queued"}

(* Mutation: a request starts a running job over. *)
InsertRetrievalJobAgain(k) == jobs' = [jobs EXCEPT ![k] = "queued"]

(* InsertRetrievalJob: ON CONFLICT a running job stays running. *)
InsertRetrievalJob(k) ==
    jobs' = [jobs EXCEPT ![k] = IF @ = "running" THEN "running" ELSE "queued"]

HasFreshWebSummary(lib) == \E k \in Key : k.source = "web" /\ k.lib = lib /\ cache[k] = "fresh"

(* A statement fails: the disk is full, or the database was busy too long. *)
DatabaseFault ==
    /\ used.faults < MaxFaults
    /\ used' = [used EXCEPT !.faults = @ + 1]

Request ==
    /\ used.requests < MaxRequests
    /\ used' = [used EXCEPT !.requests = @ + 1]

Up == loop.phase # "down"

IdleHandler == [phase |-> "idle", lib |-> NoLib]

WaitingLoop == [phase |-> "waiting", done |-> 0, job |-> None, cut |-> FALSE]

Init ==
    /\ jobs = [k \in Key |-> "none"]
    /\ cache = [k \in Key |-> "none"]
    /\ prompt = {}
    /\ handler = [h \in Handlers |-> IdleHandler]
    /\ wake = 0
    /\ loop = WaitingLoop
    /\ used = [requests |-> 0, faults |-> 0, crashes |-> 0]
    /\ orphans = {} /\ signalled = {}

-----------------------------------------------------------------------------
(* The hook of a prompt. *)

PromptPlan(p, web) ==
    /\ prompt = {} /\ PlanPrompt(p, web) # {}
    /\ Request
    /\ prompt' = PlanPrompt(p, web)
    /\ UNCHANGED <<jobs, cache, handler, wake, loop, orphans, signalled>>

(* The plans are queued in the order of their priority. *)
PromptInsert(k) ==
    /\ k \in prompt /\ \A other \in prompt : ~ Outranks(other, k)
    /\ InsertRetrievalJob(k)
    /\ prompt' = prompt \ {k}
    /\ UNCHANGED <<cache, handler, wake, loop, used, orphans, signalled>>

(* The first error ends the planning, and so does the end of the hook. *)
PromptAbort ==
    /\ prompt # {} /\ prompt' = {}
    /\ UNCHANGED <<jobs, cache, handler, wake, loop, used, orphans, signalled>>

-----------------------------------------------------------------------------
(* EnqueueFailureRetrieval, in a handler of the daemon, for a failure that *)
(* names a library and that no principle answers.                          *)

HandlerAt(h, phase) == Up /\ handler[h].phase = phase
HandlerTo(h, phase) == handler' = [handler EXCEPT ![h].phase = phase]
HandlerDone(h) == handler' = [handler EXCEPT ![h] = IdleHandler]

FailureSeen(h, lib) ==
    /\ HandlerAt(h, "idle") /\ Request
    /\ handler' = [handler EXCEPT ![h] = [phase |-> "docs", lib |-> lib]]
    /\ UNCHANGED <<jobs, cache, prompt, wake, loop, orphans, signalled>>

FailureDocs(h) ==
    /\ HandlerAt(h, "docs")
    /\ \/ /\ InsertRetrievalJob(FailureDocsKey(handler[h].lib))
          /\ signalled' = signalled \cup {FailureDocsKey(handler[h].lib)}
          /\ HandlerTo(h, "check") /\ UNCHANGED used
       \/ /\ DatabaseFault
          /\ HandlerDone(h) /\ UNCHANGED <<jobs, signalled>>
    /\ UNCHANGED <<cache, prompt, wake, loop, orphans>>

(* Mutation: with nothing more to queue the handler returns. *)
FailureCheckReturns(h, web) ==
    /\ HandlerAt(h, "check")
    /\ IF web /\ ~ HasFreshWebSummary(handler[h].lib)
       THEN HandlerTo(h, "web") ELSE HandlerDone(h)
    /\ UNCHANGED <<jobs, cache, prompt, wake, loop, used, orphans, signalled>>

(* No search service, or a fresh result of it: nothing more to queue. *)
FailureCheck(h, web) ==
    /\ HandlerAt(h, "check")
    /\ HandlerTo(h, IF web /\ ~ HasFreshWebSummary(handler[h].lib) THEN "web" ELSE "wake")
    /\ UNCHANGED <<jobs, cache, prompt, wake, loop, used, orphans, signalled>>

(* An error of this insert is ignored. *)
FailureWeb(h) ==
    /\ HandlerAt(h, "web") /\ HandlerTo(h, "wake")
    /\ \/ /\ InsertRetrievalJob(FailureWebKey(handler[h].lib))
          /\ signalled' = signalled \cup {FailureWebKey(handler[h].lib)}
          /\ UNCHANGED used
       \/ DatabaseFault /\ UNCHANGED <<jobs, signalled>>
    /\ UNCHANGED <<cache, prompt, wake, loop, orphans>>

(* RequestImmediateWake: a token, unless there is one already. *)
FailureWake(h) ==
    /\ HandlerAt(h, "wake") /\ HandlerDone(h)
    /\ wake' = 1
    /\ UNCHANGED <<jobs, cache, prompt, loop, used, orphans, signalled>>

-----------------------------------------------------------------------------
(* retrievalLoop and Worker.RunOnce. *)

LoopAt(phase) == loop.phase = phase
LoopTo(phase) == loop' = [loop EXCEPT !.phase = phase]

(* The batch is over; cut says that it did not see an empty queue. *)
EndBatch(cut) == loop' = [WaitingLoop EXCEPT !.cut = cut]

(* Mutation: the loop only listens to the channel. *)
LoopTickNever ==
    /\ LoopAt("waiting") /\ wake = 1 /\ LoopTo("batch")
    /\ wake' = 0
    /\ UNCHANGED <<jobs, cache, prompt, handler, used, orphans, signalled>>

(* The ticker. *)
LoopTick ==
    /\ LoopAt("waiting") /\ LoopTo("batch")
    /\ UNCHANGED <<jobs, cache, prompt, handler, wake, used, orphans, signalled>>

LoopWake ==
    /\ LoopAt("waiting") /\ wake = 1
    /\ wake' = 0 /\ LoopTo("batch")
    /\ UNCHANGED <<jobs, cache, prompt, handler, used, orphans, signalled>>

(* Mutation: the batch takes one job more. *)
ClaimOneMore(k) ==
    /\ LoopAt("batch") /\ loop.done <= BatchLimit
    /\ k \in Queued /\ \A other \in Queued : ~ Outranks(other, k)
    /\ jobs' = [jobs EXCEPT ![k] = "running"]
    /\ loop' = [loop EXCEPT !.phase = "fetch", !.job = k]
    /\ signalled' = signalled \ {k}
    /\ UNCHANGED <<cache, prompt, handler, wake, used, orphans>>

(* NextQueuedRetrievalJob *)
Claim(k) ==
    /\ LoopAt("batch") /\ loop.done < BatchLimit
    /\ k \in Queued /\ \A other \in Queued : ~ Outranks(other, k)
    /\ jobs' = [jobs EXCEPT ![k] = "running"]
    /\ loop' = [loop EXCEPT !.phase = "fetch", !.job = k]
    /\ signalled' = signalled \ {k}
    /\ UNCHANGED <<cache, prompt, handler, wake, used, orphans>>

BatchEmpty ==
    /\ LoopAt("batch") /\ loop.done < BatchLimit /\ Queued = {}
    /\ EndBatch(FALSE)
    /\ UNCHANGED <<jobs, cache, prompt, handler, wake, used, orphans, signalled>>

BatchFull ==
    /\ LoopAt("batch") /\ loop.done = BatchLimit
    /\ EndBatch(TRUE)
    /\ UNCHANGED <<jobs, cache, prompt, handler, wake, used, orphans, signalled>>

ClaimFault ==
    /\ LoopAt("batch") /\ loop.done < BatchLimit
    /\ DatabaseFault /\ EndBatch(TRUE)
    /\ UNCHANGED <<jobs, cache, prompt, handler, wake, orphans, signalled>>

(* The service answers, or the fetch fails: no key, no command, a timeout, *)
(* an error or an empty answer.                                            *)
Fetch(ok) ==
    /\ LoopAt("fetch") /\ LoopTo(IF ok THEN "store" ELSE "fail")
    /\ UNCHANGED <<jobs, cache, prompt, handler, wake, used, orphans, signalled>>

(* UpsertExternalContextSummary *)
Store ==
    /\ LoopAt("store")
    /\ \/ /\ cache' = [cache EXCEPT ![loop.job] = "fresh"]
          /\ LoopTo("finish") /\ UNCHANGED used
       \/ /\ DatabaseFault
          /\ LoopTo("fail") /\ UNCHANGED cache
    /\ UNCHANGED <<jobs, prompt, handler, wake, orphans, signalled>>

(* Mutation: an error of the fetch is returned without closing the job. *)
FailReturns ==
    /\ LoopAt("fail") /\ EndBatch(TRUE)
    /\ UNCHANGED <<jobs, cache, prompt, handler, wake, used, orphans, signalled>>

(* The job failed, and an error of this statement is ignored. *)
Fail ==
    /\ LoopAt("fail") /\ EndBatch(TRUE)
    /\ \/ /\ jobs' = [jobs EXCEPT ![loop.job] = "failed"]
          /\ UNCHANGED <<used, orphans>>
       \/ /\ DatabaseFault
          /\ orphans' = orphans \cup {loop.job} /\ UNCHANGED jobs
    /\ UNCHANGED <<cache, prompt, handler, wake, signalled>>

Finish ==
    /\ LoopAt("finish")
    /\ \/ /\ jobs' = [jobs EXCEPT ![loop.job] = "done"]
          /\ loop' = [loop EXCEPT !.phase = "batch", !.done = @ + 1, !.job = None]
          /\ UNCHANGED <<used, orphans>>
       \/ /\ DatabaseFault /\ EndBatch(TRUE)
          /\ orphans' = orphans \cup {loop.job} /\ UNCHANGED jobs
    /\ UNCHANGED <<cache, prompt, handler, wake, signalled>>

-----------------------------------------------------------------------------
(* The daemon's process and the clock. *)

Held == IF loop.phase \in {"fetch", "store", "fail", "finish"} THEN {loop.job} ELSE {}

(* A crash, or a shutdown, which does not wait for the loop. *)
DaemonEnds ==
    /\ Up /\ used.crashes < MaxCrashes
    /\ used' = [used EXCEPT !.crashes = @ + 1]
    /\ loop' = [WaitingLoop EXCEPT !.phase = "down"]
    /\ orphans' = orphans \cup Held
    /\ wake' = 0
    /\ handler' = [h \in Handlers |-> IdleHandler]
    /\ UNCHANGED <<jobs, cache, prompt, signalled>>

(* The first batch runs at once. *)
DaemonStarts ==
    /\ LoopAt("down") /\ LoopTo("batch")
    /\ UNCHANGED <<jobs, cache, prompt, handler, wake, used, orphans, signalled>>

(* The summary's TTL has passed; only that of a search result is looked at. *)
SummaryExpires(k) ==
    /\ k.source = "web" /\ cache[k] = "fresh"
    /\ cache' = [cache EXCEPT ![k] = "expired"]
    /\ UNCHANGED <<jobs, prompt, handler, wake, loop, used, orphans, signalled>>

-----------------------------------------------------------------------------
(* The specification. *)

LoopStep ==
    \/ LoopTick \/ LoopWake
    \/ (\E k \in Key : Claim(k))
    \/ BatchEmpty \/ BatchFull \/ ClaimFault
    \/ (\E ok \in BOOLEAN : Fetch(ok))
    \/ Store \/ Fail \/ Finish \/ DaemonStarts

HandlerStep(h) ==
    \/ \E lib \in Libs : FailureSeen(h, lib)
    \/ FailureDocs(h) \/ (\E web \in BOOLEAN : FailureCheck(h, web))
    \/ FailureWeb(h) \/ FailureWake(h)

PromptStep ==
    \/ \E p \in Prompt, web \in BOOLEAN : PromptPlan(p, web)
    \/ (\E k \in prompt : PromptInsert(k)) \/ PromptAbort

Next ==
    \/ LoopStep \/ (\E h \in Handlers : HandlerStep(h)) \/ PromptStep
    \/ DaemonEnds \/ (\E k \in Key : SummaryExpires(k))

Spec == Init /\ [][Next]_vars

(* The loop's goroutine runs, its ticker ticks, a fetch ends at its        *)
(* timeout, and a daemon that ended is started again.                      *)
FairSpec == Spec /\ WF_vars(LoopStep)

-----------------------------------------------------------------------------
(* Properties. *)

Status == {"none", "queued", "running", "done", "failed"}
Working == {"fetch", "store", "fail", "finish"}

LoopStates == [phase : {"waiting", "batch", "down"} \cup Working, done : 0..BatchLimit,
               job : Key \cup {None}, cut : BOOLEAN]

(* Every variable keeps its type. *)
TypeOK ==
    /\ jobs \in [Key -> Status]
    /\ cache \in [Key -> {"none", "fresh", "expired"}]
    /\ prompt \in SUBSET Key
    /\ handler \in [Handlers -> [phase : {"idle", "docs", "check", "web", "wake"},
                                 lib : Libs \cup {NoLib}]]
    /\ wake \in {0, 1}
    /\ loop \in LoopStates
    /\ used \in [requests : Nat, faults : Nat, crashes : Nat]
    /\ orphans \in SUBSET Key /\ signalled \in SUBSET Key

(* A running job is being worked on, or it is one whose worker ended or    *)
(* could not write its outcome; nothing else leaves a job running, and no  *)
(* request takes the job of the worker away from it.                       *)
RunningAccounted ==
    /\ {k \in Key : jobs[k] = "running"} = Held \cup orphans
    /\ Held \cap orphans = {}

(* A job is done only when its answer is in the table, whatever requests,  *)
(* errors and ends of the daemon came in between.                          *)
DoneHasSummary == \A k \in Key : jobs[k] = "done" => cache[k] # "none"

(* No wake-up gets lost: when the loop waits without a token, every job    *)
(* queued for a failure has been taken, unless a handler is still to ask   *)
(* for the wake-up, or the last batch ended at its limit or at an error    *)
(* and left the rest to the ticker.                                        *)
WakeNotLost ==
    LoopAt("waiting") /\ wake = 0 /\ ~ loop.cut =>
        \A k \in signalled \cap Queued : \E h \in Handlers :
            handler[h].phase \in {"check", "web", "wake"} /\ handler[h].lib = k.lib

(* Every queued job is taken in the end, also the last in priority, one    *)
(* that came after a batch was cut short, and one queued while the daemon  *)
(* was down.                                                               *)
QueuedIsTried == \A k \in Key : jobs[k] = "queued" ~> jobs[k] # "queued"

Promise == INSTANCE RetrievalPromise WITH
    Job <- Key, status <- jobs,
    held <- IF loop.phase \in Working THEN loop.job ELSE None,
    answered <- {k \in Key : cache[k] # "none"}

(* RetrievalQueue implements RetrievalPromise. *)
KeepsPromise == Promise!Spec
=============================================================================
