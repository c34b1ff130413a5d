---------------------------- MODULE EventDelivery ----------------------------
(***************************************************************************)
(* How an agent's activity reaches the database.  The agent runs one       *)
(* process `forge hook` per event (cmd/hook.go).  The hook dials the       *)
(* daemon, writes its message and waits up to 50 ms for an acknowledgement *)
(* (ipc/pipe_unix.go, ipc/ack.go); the daemon reads one message per        *)
(* connection, handles it in a goroutine of its own and closes the         *)
(* connection without writing anything (cmd/daemon.go).  The hook          *)
(* therefore always writes the message to the outbox as well               *)
(* (ipc/outbox.go), and the hook of a prompt goes on to decide whether to  *)
(* inject recalled context (cmd/hook_recall.go).                           *)
(*                                                                         *)
(* The daemon stores the event, captures evidence in content-addressed     *)
(* files with an index row each (artifacts/store.go), and at a session's   *)
(* end imports the agent's transcript line by line (cmd/transcript.go)     *)
(* while the agent may already be writing the next line.  At a session's   *)
(* end the hook also spawns synthesize-session (cmd/synthesize.go), which  *)
(* reads the session's events whenever it gets there.                      *)
(*                                                                         *)
(* Every SQL statement, file operation and socket operation is one step.   *)
(***************************************************************************)
EXTENDS Naturals, FiniteSets, Sequences

CONSTANTS
    Session,    \* sessions, by the id the hooks give
    Unknown,    \* the id of hooks that know none
    Mode,       \* observabilityMode: minimal, standard or forensic
    MinEvents,  \* stored events a synthesis needs (3)
    MaxEvents,  \* bound: hook processes
    MaxLines,   \* bound: transcript lines of a session
    Kinds,      \* the kinds of event that the agent reports
    MaxMishaps  \* bound: hooks that give up waiting, failing statements and
                \* file operations, and ends of the daemon, taken together

Events == 1 .. MaxEvents

(* The kinds of event, with the tools that matter: a tool that runs a      *)
(* command, one that edits a file, one that only reads.                    *)
ToolUse == {"bash", "edit", "read"}
Kind == {"SessionStart", "UserPromptSubmit", "Stop"} \cup ToolUse

ASSUME DeliveryAssumption ==
    /\ Mode \in {"minimal", "standard", "forensic"}
    /\ MinEvents \in Nat \ {0}
    /\ {MaxEvents, MaxLines, MaxMishaps} \subseteq Nat
    /\ Kinds \subseteq Kind

(* isSessionEndEvent *)
IsSessionEnd(kind) == kind = "Stop"

(* isNoisePayload and shouldCapturePostToolUse: which events the hook *)
(* forwards, noise being what a payload may look like.                *)
Captured(kind, noise) ==
    /\ noise => Mode = "forensic"
    /\ kind = "read" => Mode # "minimal"

(* captureEvidenceArtifacts: the evidence of an event, in this order; an *)
(* event of no known session has no trace to keep evidence under.        *)
Evidence(kind, session) ==
    IF session = Unknown THEN <<>>
    ELSE CASE kind = "Stop" -> <<"transcript">>
           [] kind = "bash" -> <<"log", "diff">>
           [] kind = "edit" -> <<"diff">>
           [] OTHER -> <<>>

(* Put: the bytes of a piece of evidence name its file. *)
Content == {"transcript", "log", "diff"} \X Events

(* What a stored turn hangs from: the event that ended the session or the *)
(* turn of an earlier line.                                               *)
NoSpan == [event |-> 0, line |-> 0]
EventSpan(e) == [event |-> e, line |-> 0]
TurnSpan(n) == [event |-> 0, line |-> n]
Span == [event : 0 .. MaxEvents, line : 0 .. MaxLines]

-----------------------------------------------------------------------------
(* State. *)

VARIABLES
    agent,      \* what the agent of a session does: off, idle or working
    file,       \* a session's transcript: its complete lines
    hook,       \* the hook processes that forward their event
    outbox,     \* ~/.forge/outbox
    daemon,     \* up or down
    handler,    \* the daemon's goroutines, one per message
    stored,     \* the table events, the hooks' part
    turns,      \* the table events, the transcripts' part: by line, the parent
    files,      \* the evidence files
    rows,       \* the table evaluation_artifacts: the contents it indexes
    synth,      \* synthesize-session by session, and whether it saw the session's end
    recalled,   \* prompts that context was injected into, by session
    mishaps,    \* how many mishaps there have been
    disturbed,  \* history: sessions one of whose prompts or events was not
                \* handled while its hook waited
    unqueued    \* history: events whose write to the outbox failed

vars == <<agent, file, hook, outbox, daemon, handler, stored, turns, files,
          rows, synth, recalled, mishaps, disturbed, unqueued>>

Fired == {e \in Events : hook[e].phase # "none"}
HooksOf(s) == {e \in Fired : hook[e].session = s}
Running(s) == {e \in HooksOf(s) : hook[e].phase # "gone"}

Active(e) == handler[e].phase \notin {"none", "closed", "failed", "lost"}

IdleHandler == [phase |-> "none", todo |-> <<>>, next |-> 0, prev |-> NoSpan, held |-> {}]

Mishap == mishaps < MaxMishaps /\ mishaps' = mishaps + 1

Init ==
    /\ agent = [s \in Session |-> "off"]
    /\ file = [s \in Session |-> <<>>]
    /\ hook = [e \in Events |-> [kind |-> "SessionStart", session |-> Unknown, phase |-> "none"]]
    /\ outbox = {}
    /\ daemon \in {"up", "down"}
    /\ handler = [e \in Events |-> IdleHandler]
    /\ stored = {}
    /\ turns = [s \in Session |-> [n \in 1 .. MaxLines |-> NoSpan]]
    /\ files = {}
    /\ rows = {}
    /\ synth = [s \in Session |-> [phase |-> "none", saw |-> FALSE]]
    /\ recalled = [s \in Session |-> 0]
    /\ mishaps = 0
    /\ disturbed = {}
    /\ unqueued = {}

-----------------------------------------------------------------------------
(* The agent.  It waits for the hooks of a prompt and of a session's end;  *)
(* tools may run side by side.  Its transcript grows a line at a time; the *)
(* beginning of a line is not JSON, so a line counts once it is complete.  *)

(* runHook up to Send.  An event that is filtered out leaves nothing; at a *)
(* session's end the synthesis is spawned before the event is sent, and    *)
(* HasSessionCheckpoint makes a session's later final syntheses exit.      *)
Fire(s, kind) ==
    /\ kind \in Kinds /\ Cardinality(Fired) < MaxEvents
    /\ \E noise \in BOOLEAN :
          \/ /\ Captured(kind, noise)
             /\ hook' = [hook EXCEPT ![Cardinality(Fired) + 1] =
                            [kind |-> kind, session |-> s, phase |-> "send"]]
             /\ synth' = [synth EXCEPT ![s].phase =
                             IF IsSessionEnd(kind) /\ s # Unknown /\ @ = "none" THEN "spawned" ELSE @]
             /\ UNCHANGED disturbed
          \/ /\ ~ Captured(kind, noise)
             /\ disturbed' = IF kind = "UserPromptSubmit" THEN disturbed \cup {s} ELSE disturbed
             /\ UNCHANGED <<hook, synth>>
    /\ UNCHANGED <<file, outbox, daemon, handler, stored, turns, files, rows,
                   recalled, mishaps, unqueued>>

SessionStarts(s) ==
    /\ agent[s] = "off"
    /\ agent' = [agent EXCEPT ![s] = "idle"]
    /\ Fire(s, "SessionStart")

Prompts(s) ==
    /\ agent[s] \in {"off", "idle"} /\ Running(s) = {}
    /\ agent' = [agent EXCEPT ![s] = "working"]
    /\ Fire(s, "UserPromptSubmit")

UsesTool(s) ==
    /\ agent[s] = "working"
    /\ \A e \in Running(s) : hook[e].kind \in ToolUse
    /\ \E kind \in ToolUse : Fire(s, kind)
    /\ UNCHANGED agent

Stops(s) ==
    /\ agent[s] = "working" /\ Running(s) = {}
    /\ agent' = [agent EXCEPT ![s] = "idle"]
    /\ Fire(s, "Stop")

(* A turn of the conversation, or a line transcriptEventType knows nothing *)
(* of.                                                                     *)
WritesLine(s) ==
    /\ agent[s] = "working" /\ Len(file[s]) < MaxLines
    /\ \E kind \in {"turn", "note"} : file' = [file EXCEPT ![s] = Append(@, kind)]
    /\ UNCHANGED <<agent, hook, outbox, daemon, handler, stored, turns, files,
                   rows, synth, recalled, mishaps, disturbed, unqueued>>

-----------------------------------------------------------------------------
(* The hook process. *)

HookAt(e, phase) == hook[e].phase = phase
HookTo(e, phase) == hook' = [hook EXCEPT ![e].phase = phase]

(* Enqueue: the message is written under another name and renamed, so all *)
(* of it or nothing.  The hook of a prompt goes on to the recall.          *)
Enqueue(e) ==
    /\ HookTo(e, IF hook[e].kind = "UserPromptSubmit" THEN "recall" ELSE "gone")
    /\ outbox' = outbox \cup {e}
    /\ UNCHANGED <<agent, file, daemon, handler, stored, turns, files, rows,
                   synth, recalled, unqueued>>

EnqueueFails(e) ==
    /\ HookTo(e, IF hook[e].kind = "UserPromptSubmit" THEN "recall" ELSE "gone")
    /\ unqueued' = unqueued \cup {e}
    /\ UNCHANGED <<agent, file, outbox, daemon, handler, stored, turns, files,
                   rows, synth, recalled>>

(* Send: DialTimeout fails. *)
DialRefused(e) ==
    /\ HookAt(e, "send")
    /\ daemon # "up"
    /\ disturbed' = disturbed \cup {hook[e].session}
    /\ \/ Enqueue(e) /\ UNCHANGED mishaps
       \/ EnqueueFails(e) /\ Mishap

(* Send: the connection is accepted and the message written. *)
Dial(e) ==
    /\ HookAt(e, "send")
    /\ daemon = "up"
    /\ HookTo(e, "await")
    /\ handler' = [handler EXCEPT ![e].phase = "insert"]
    /\ UNCHANGED <<agent, file, outbox, daemon, stored, turns, files, rows,
                   synth, recalled, mishaps, disturbed, unqueued>>

(* Mutation: a closed connection counts as an acknowledgement. *)
AwaitClosedTrusting(e) ==
    /\ HookAt(e, "await")
    /\ ~ Active(e)
    /\ HookTo(e, IF hook[e].kind = "UserPromptSubmit" THEN "recall" ELSE "gone")
    /\ UNCHANGED <<agent, file, outbox, daemon, handler, stored, turns, files,
                   rows, synth, recalled, mishaps, disturbed, unqueued>>

(* awaitAck: the daemon closes the connection, or dies; reading fails. *)
AwaitClosed(e) ==
    /\ HookAt(e, "await")
    /\ ~ Active(e)
    /\ UNCHANGED disturbed
    /\ \/ Enqueue(e) /\ UNCHANGED mishaps
       \/ EnqueueFails(e) /\ Mishap

(* awaitAck: the deadline of 50 ms passes first. *)
AwaitLate(e) ==
    /\ HookAt(e, "await")
    /\ Active(e)
    /\ Mishap
    /\ Enqueue(e)
    /\ disturbed' = disturbed \cup {hook[e].session}

StoredOf(s) == {e \in stored : hook[e].session = s}
TurnsOf(s) == {n \in 1 .. MaxLines : turns[s][n] # NoSpan}

(* Mutation: the prompt being handled is thought not to be stored yet. *)
IsFirstPromptBefore(s) ==
    /\ s # Unknown
    /\ \A e \in StoredOf(s) : hook[e].kind \in {"SessionStart", "UserPromptSubmit"}
    /\ TurnsOf(s) = {}
    /\ Cardinality({e \in StoredOf(s) : hook[e].kind = "UserPromptSubmit"}) = 0

(* isFirstPromptOfSession *)
IsFirstPrompt(s) ==
    /\ s # Unknown
    /\ \A e \in StoredOf(s) : hook[e].kind \in {"SessionStart", "UserPromptSubmit"}
    /\ TurnsOf(s) = {}
    /\ Cardinality({e \in StoredOf(s) : hook[e].kind = "UserPromptSubmit"}) <= 1

(* handleSessionRecall: context goes into the first prompt only. *)
Recall(e) ==
    LET s == hook[e].session
    IN  /\ HookAt(e, "recall")
        /\ recalled' = [recalled EXCEPT ![s] = IF IsFirstPrompt(s) THEN @ + 1 ELSE @]
        /\ HookTo(e, "gone")
        /\ UNCHANGED <<agent, file, outbox, daemon, handler, stored, turns,
                       files, rows, synth, mishaps, disturbed, unqueued>>

RecallFails(e) ==
    /\ HookAt(e, "recall")
    /\ Mishap
    /\ disturbed' = disturbed \cup {hook[e].session}
    /\ HookTo(e, "gone")
    /\ UNCHANGED <<agent, file, outbox, daemon, handler, stored, turns, files,
                   rows, synth, recalled, unqueued>>

-----------------------------------------------------------------------------
(* A handler of the daemon. *)

HandlerAt(e, phase) == handler[e].phase = phase
HandlerTo(e, phase) == handler' = [handler EXCEPT ![e].phase = phase]

(* What the handler does once some evidence is left to capture.  Then     *)
(* UpsertProject and ProcessEvent (module FailureAlerts) change nothing    *)
(* that is modelled here, and at a session's end the transcript follows.   *)
Continue(e, todo) ==
    handler' = [handler EXCEPT ![e] =
                   CASE todo # <<>> -> [IdleHandler EXCEPT !.phase = "evidence", !.todo = todo]
                     [] todo = <<>> /\ IsSessionEnd(hook[e].kind) ->
                           [IdleHandler EXCEPT !.phase = "ingest", !.next = 1, !.prev = EventSpan(e)]
                     [] OTHER -> [IdleHandler EXCEPT !.phase = "closed"]]

(* handleEventMsg: InsertEvent; the rest of the handler follows. *)
InsertEvent(e) ==
    /\ HandlerAt(e, "insert")
    /\ stored' = stored \cup {e}
    /\ Continue(e, Evidence(hook[e].kind, hook[e].session))
    /\ UNCHANGED <<agent, file, hook, outbox, daemon, turns, files, rows,
                   synth, recalled, mishaps, disturbed, unqueued>>

InsertFails(e) ==
    /\ HandlerAt(e, "insert")
    /\ Mishap
    /\ HandlerTo(e, "failed")
    /\ disturbed' = disturbed \cup {hook[e].session}
    /\ UNCHANGED <<agent, file, hook, outbox, daemon, stored, turns, files,
                   rows, synth, recalled, unqueued>>

(* Put: the content is read and written to its file unless that exists; a *)
(* diff or a transcript without bytes is left out.                         *)
PutFile(e) ==
    /\ HandlerAt(e, "evidence")
    /\ \/ LET c == <<Head(handler[e].todo), e>>
          IN  /\ files' = files \cup {c}
              /\ handler' = [handler EXCEPT ![e].phase = "row", ![e].held = {c}]
       \/ /\ Head(handler[e].todo) # "log"
          /\ Continue(e, Tail(handler[e].todo))
          /\ UNCHANGED files
    /\ UNCHANGED <<agent, file, hook, outbox, daemon, stored, turns, rows,
                   synth, recalled, mishaps, disturbed, unqueued>>

(* InsertEvaluationArtifact: one row per owner and content. *)
PutRow(e) ==
    /\ HandlerAt(e, "row")
    /\ rows' = rows \cup handler[e].held
    /\ Continue(e, Tail(handler[e].todo))
    /\ UNCHANGED <<agent, file, hook, outbox, daemon, stored, turns, files,
                   synth, recalled, mishaps, disturbed, unqueued>>

(* A failing put is logged; the next piece of evidence follows. *)
PutFails(e) ==
    /\ handler[e].phase \in {"evidence", "row"}
    /\ Mishap
    /\ Continue(e, Tail(handler[e].todo))
    /\ UNCHANGED <<agent, file, hook, outbox, daemon, stored, turns, files,
                   rows, synth, recalled, disturbed, unqueued>>

(* Mutation: the chain only moves on past turns this handler stored itself. *)
IngestLineOwn(e) ==
    LET s == hook[e].session
        n == handler[e].next
        fresh == file[s][n] = "turn" /\ turns[s][n] = NoSpan
    IN  /\ HandlerAt(e, "ingest")
        /\ n <= Len(file[s])
        /\ turns' = IF fresh THEN [turns EXCEPT ![s][n] = handler[e].prev] ELSE turns
        /\ handler' = [handler EXCEPT ![e] = [@ EXCEPT !.next = n + 1,
                                                       !.prev = IF fresh THEN TurnSpan(n) ELSE @]]
        /\ UNCHANGED <<agent, file, hook, outbox, daemon, stored, files, rows,
                       synth, recalled, mishaps, disturbed, unqueued>>

(* insertTranscriptTurn: the span id is made of the session, the line's    *)
(* number and its text, and INSERT OR IGNORE keeps the row that is there;  *)
(* the chain moves on in either case.                                      *)
IngestLine(e) ==
    LET s == hook[e].session
        n == handler[e].next
        turn == file[s][n] = "turn"
    IN  /\ HandlerAt(e, "ingest")
        /\ n <= Len(file[s])
        /\ turns' = IF turn /\ turns[s][n] = NoSpan
                    THEN [turns EXCEPT ![s][n] = handler[e].prev] ELSE turns
        /\ handler' = [handler EXCEPT ![e].next = n + 1,
                                      ![e].prev = IF turn THEN TurnSpan(n) ELSE handler[e].prev]
        /\ UNCHANGED <<agent, file, hook, outbox, daemon, stored, files, rows,
                       synth, recalled, mishaps, disturbed, unqueued>>

(* Mutation: a line that is already stored ends the import. *)
IngestEndEarly(e) ==
    LET s == hook[e].session
        n == handler[e].next
    IN  /\ HandlerAt(e, "ingest")
        /\ n <= Len(file[s]) => turns[s][n] # NoSpan
        /\ HandlerTo(e, "closed")
        /\ UNCHANGED <<agent, file, hook, outbox, daemon, stored, turns, files,
                       rows, synth, recalled, mishaps, disturbed, unqueued>>

(* ingestTranscript: no more lines; half a line at the end is not JSON. *)
IngestEnd(e) ==
    /\ HandlerAt(e, "ingest")
    /\ handler[e].next > Len(file[hook[e].session])
    /\ HandlerTo(e, "closed")
    /\ UNCHANGED <<agent, file, hook, outbox, daemon, stored, turns, files,
                   rows, synth, recalled, mishaps, disturbed, unqueued>>

(* The transcript cannot be opened, or a line cannot be stored: give up. *)
IngestFails(e) ==
    /\ HandlerAt(e, "ingest")
    /\ Mishap
    /\ HandlerTo(e, "failed")
    /\ disturbed' = disturbed \cup {hook[e].session}
    /\ UNCHANGED <<agent, file, hook, outbox, daemon, stored, turns, files,
                   rows, synth, recalled, unqueued>>

-----------------------------------------------------------------------------
(* The daemon's process. *)

Handling == {e \in Events : Active(e)}

(* A signal: the listener is closed and the handlers are waited for. *)
DaemonStops ==
    /\ daemon = "up" /\ Handling = {}
    /\ Mishap
    /\ daemon' = "down"
    /\ UNCHANGED <<agent, file, hook, outbox, handler, stored, turns, files,
                   rows, synth, recalled, disturbed, unqueued>>

(* A panic in a handler, a kill, the end of the machine's power. *)
DaemonCrashes ==
    /\ daemon = "up" /\ Handling # {}
    /\ daemon' = "down"
    /\ Mishap
    /\ handler' = [e \in Events |-> IF Active(e) THEN [IdleHandler EXCEPT !.phase = "lost"] ELSE handler[e]]
    /\ disturbed' = disturbed \cup {hook[e].session : e \in Handling}
    /\ UNCHANGED <<agent, file, hook, outbox, stored, turns, files, rows,
                   synth, recalled, unqueued>>

(* runDaemon reads nothing of the outbox. *)
DaemonStarts ==
    /\ daemon = "down"
    /\ daemon' = "up"
    /\ UNCHANGED <<agent, file, hook, outbox, handler, stored, turns, files,
                   rows, synth, recalled, mishaps, disturbed, unqueued>>

-----------------------------------------------------------------------------
(* synthesize-session --checkpoint-kind final. *)

(* runSynthesizeSession: SessionEventsForCheckpoint; with too few events it *)
(* exits, and the session's next end may try again.                         *)
Synthesize(s) ==
    /\ synth[s].phase = "spawned"
    /\ synth' = [synth EXCEPT ![s] =
                    IF Cardinality(StoredOf(s)) + Cardinality(TurnsOf(s)) < MinEvents
                    THEN [@ EXCEPT !.phase = "none"]
                    ELSE [phase |-> "done", saw |-> \E e \in StoredOf(s) : IsSessionEnd(hook[e].kind)]]
    /\ UNCHANGED <<agent, file, hook, outbox, daemon, handler, stored, turns,
                   files, rows, recalled, mishaps, disturbed, unqueued>>

-----------------------------------------------------------------------------

AgentStep(s) ==
    SessionStarts(s) \/ Prompts(s) \/ UsesTool(s) \/ Stops(s) \/ WritesLine(s)

HookStep(e) ==
    \/ DialRefused(e) \/ Dial(e) \/ AwaitClosed(e) \/ AwaitLate(e)
    \/ Recall(e) \/ RecallFails(e)

HandlerStep(e) ==
    \/ InsertEvent(e) \/ InsertFails(e) \/ PutFile(e) \/ PutRow(e) \/ PutFails(e)
    \/ IngestLine(e) \/ IngestEnd(e) \/ IngestFails(e)

DaemonStep == DaemonStops \/ DaemonCrashes \/ DaemonStarts

Next ==
    \/ \E s \in Session : AgentStep(s) \/ Synthesize(s)
    \/ \E e \in Events : HookStep(e) \/ HandlerStep(e)
    \/ DaemonStep

Spec == Init /\ [][Next]_vars

(* Processes and goroutines that can take a step take one; the agent, a     *)
(* signal or a crash may never come, and nobody has to start the daemon.    *)
FairSpec ==
    /\ Spec
    /\ \A e \in Events : WF_vars(HookStep(e)) /\ WF_vars(HandlerStep(e))
    /\ \A s \in Session : WF_vars(Synthesize(s))

-----------------------------------------------------------------------------
(* Properties. *)

(* The values the variables take. *)
TypeOK ==
    /\ agent \in [Session -> {"off", "idle", "working"}]
    /\ file \in [Session -> Seq({"turn", "note"})]
    /\ \A s \in Session : Len(file[s]) <= MaxLines
    /\ hook \in [Events -> [kind : Kind, session : Session \cup {Unknown},
                            phase : {"none", "send", "await", "recall", "gone"}]]
    /\ outbox \subseteq Events /\ stored \subseteq Events /\ unqueued \subseteq Events
    /\ daemon \in {"up", "down"}
    /\ handler \in [Events -> [phase : {"none", "insert", "evidence", "row", "ingest", "closed", "failed", "lost"},
                               todo : Seq({"transcript", "log", "diff"}),
                               next : 0 .. MaxLines + 1, prev : Span, held : SUBSET Content]]
    /\ turns \in [Session -> [1 .. MaxLines -> Span]]
    /\ files \subseteq Content /\ rows \subseteq Content
    /\ synth \in [Session -> [phase : {"none", "spawned", "done"}, saw : BOOLEAN]]
    /\ recalled \in [Session -> 0 .. MaxEvents]
    /\ mishaps \in 0 .. MaxMishaps
    /\ disturbed \subseteq Session

(* An event the hook did not filter out is never lost without a trace:     *)
(* once its hook has exited, and wherever the daemon died meanwhile, it is *)
(* in the database, in the outbox or with a handler at work, or writing it *)
(* to the outbox failed.                                                   *)
NothingForgotten ==
    \A e \in Fired :
        hook[e].phase = "gone" => e \in stored \cup outbox \cup unqueued \/ Active(e)

(* The imported turns of a session form one chain, whichever handlers and  *)
(* crashes wrote it and however the transcript grew meanwhile: a turn's    *)
(* parent is the turn of the last line before it that is one, and the      *)
(* first turn's parent is an event that ended the session; a turn is never *)
(* stored without the turns before it.                                     *)
TurnsChained ==
    \A s \in Session : \A n \in TurnsOf(s) :
        LET before == {m \in 1 .. n - 1 : file[s][m] = "turn"}
        IN  /\ before \subseteq TurnsOf(s)
            /\ IF before = {}
               THEN \E e \in HooksOf(s) : hook[e].kind = "Stop" /\ turns[s][n] = EventSpan(e)
               ELSE \E m \in before : turns[s][n] = TurnSpan(m) /\ \A k \in before : k <= m

(* Every row of evaluation_artifacts names a file that exists, wherever    *)
(* the daemon died between writing the one and the other.                  *)
EvidenceHasFile == rows \subseteq files

(* As long as the daemon answers a session's hooks in time and nothing     *)
(* fails, context is injected into exactly one of its prompts, the first.  *)
RecalledOnce ==
    \A s \in Session \ (disturbed \cup {Unknown}) :
        recalled[s] = IF \E e \in HooksOf(s) : hook[e].kind = "UserPromptSubmit" /\ hook[e].phase = "gone"
                      THEN 1 ELSE 0

(* When the handler of a session's end is through without an error, every *)
(* turn of the transcript as it is then has been imported: the import goes *)
(* past the turns that earlier, perhaps unfinished imports have stored.    *)
ImportComplete ==
    [][\A e \in Events :
          (HandlerAt(e, "ingest") /\ handler'[e].phase = "closed")
          => LET s == hook[e].session
             IN  {n \in DOMAIN file[s] : file[s][n] = "turn"} \subseteq TurnsOf(s)]_vars

(* hook.go: "the daemon replays the outbox on its next startup".  An event *)
(* that waits in the outbox while the daemon runs reaches the database.    *)
QueuedReplayed ==
    \A e \in Events : (e \in outbox /\ daemon = "up") ~> (e \in stored \/ daemon # "up")

(* synthesize.go: the event that ended the session "always survives": the  *)
(* final summary of a session was made with such an event in view.         *)
SummarySeesBoundary ==
    \A s \in Session :
        synth[s].phase = "done" => synth[s].saw
=============================================================================
