------------------------- MODULE EventDeliveryProofs -------------------------
(***************************************************************************)
(* The invariants of EventDelivery, for any sessions, transcripts and      *)
(* bounds: wherever hooks give up waiting, statements fail and the daemon  *)
(* dies, and however the transcripts grow while they are imported.         *)
(***************************************************************************)
EXTENDS EventDelivery, FiniteSetTheorems, TLAPS

(* -------------------------------- types ------------------------------- *)

HookRow == [kind : Kind, session : Session \cup {Unknown},
            phase : {"none", "send", "await", "recall", "gone"}]
Piece == {"transcript", "log", "diff"}
HandlerRow == [phase : {"none", "insert", "evidence", "row", "ingest", "closed", "failed", "lost"},
               todo : Seq(Piece), next : 0 .. MaxLines + 1, prev : Span, held : SUBSET Content]

Typed ==
  /\ file \in [Session -> Seq({"turn", "note"})]
  /\ \A s \in Session : Len(file[s]) <= MaxLines
  /\ hook \in [Events -> HookRow]
  /\ handler \in [Events -> HandlerRow]
  /\ turns \in [Session -> [1 .. MaxLines -> Span]]

\* Hooks fire in the order of their numbers; a handler is of a hook that fired
\* and has evidence left when it captures some.
Working ==
  /\ \E k \in 0 .. MaxEvents : Fired = 1 .. k
  /\ \A e \in Fired : hook[e].session \in Session
  /\ \A e \in Events : handler[e].phase # "none" => e \in Fired
  /\ \A e \in Events : handler[e].phase \in {"evidence", "row"} => handler[e].todo # <<>>

TypeInv == Typed /\ Working

\* A hook that fired keeps its event.
Kept ==
  \A e \in Fired : /\ e \in Fired' /\ hook'[e].kind = hook[e].kind
                   /\ hook'[e].session = hook[e].session

LEMMA Bounds == MaxEvents \in Nat /\ MaxLines \in Nat /\ Events = 1 .. MaxEvents
  BY DeliveryAssumption DEF Events

LEMMA ConstantsTyped == NoSpan \in Span /\ IdleHandler \in HandlerRow
<1>1. NoSpan \in Span
  BY Bounds DEF NoSpan, Span
<1>2. <<>> \in Seq(Piece) /\ 0 \in 0 .. MaxLines + 1
  BY Bounds
<1> QED BY <1>1, <1>2 DEF IdleHandler, HandlerRow

LEMMA SpansTyped ==
  ASSUME NEW n \in Nat
  PROVE  /\ n <= MaxEvents => EventSpan(n) \in Span
         /\ n <= MaxLines => TurnSpan(n) \in Span
         /\ n > 0 => EventSpan(n) # NoSpan /\ TurnSpan(n) # NoSpan
<1>1. (n <= MaxEvents => EventSpan(n) \in Span) /\ (n <= MaxLines => TurnSpan(n) \in Span)
  BY Bounds DEF EventSpan, TurnSpan, Span
<1>2. EventSpan(n).event = n /\ TurnSpan(n).line = n /\ NoSpan.event = 0 /\ NoSpan.line = 0
  BY DEF EventSpan, TurnSpan, NoSpan
<1> QED BY <1>1, <1>2

LEMMA EvidenceTyped ==
  ASSUME NEW kind, NEW session
  PROVE  Evidence(kind, session) \in Seq(Piece)
<1>1. <<>> \in Seq(Piece) /\ <<"transcript">> \in Seq(Piece) /\ <<"log", "diff">> \in Seq(Piece)
      /\ <<"diff">> \in Seq(Piece)
  BY DEF Piece
<1>2. CASE session = Unknown
  BY <1>1, <1>2 DEF Evidence
<1>3. CASE session # Unknown
  <2>1. Evidence(kind, session) \in {<<>>, <<"transcript">>, <<"log", "diff">>, <<"diff">>}
    BY <1>3 DEF Evidence
  <2> QED BY <1>1, <2>1
<1> QED BY <1>2, <1>3

\* The step of a hook that fired to another phase.
LEMMA HookMoves ==
  ASSUME TypeInv, NEW e \in Fired, NEW phase \in {"await", "recall", "gone"}, HookTo(e, phase)
  PROVE  /\ hook' \in [Events -> HookRow] /\ Fired' = Fired /\ Kept
         /\ hook'[e].phase = phase /\ \A d \in Events \ {e} : hook'[d] = hook[d]
<1>1. e \in Events /\ hook \in [Events -> HookRow]
  BY DEF Fired, TypeInv, Typed
<1> DEFINE row == [hook[e] EXCEPT !.phase = phase]
<1>2. hook' = [hook EXCEPT ![e] = row]
  BY <1>1 DEF HookTo
<1>3. row \in HookRow /\ row.kind = hook[e].kind /\ row.session = hook[e].session /\ row.phase = phase
  BY <1>1 DEF HookRow
<1> HIDE DEF row
<1>4. /\ hook' \in [Events -> HookRow] /\ hook'[e] = row
      /\ \A d \in Events \ {e} : hook'[d] = hook[d]
  BY <1>1, <1>2, <1>3
<1>5. Fired' = Fired
  BY <1>3, <1>4 DEF Fired
<1> QED BY <1>3, <1>4, <1>5 DEF Kept, Fired

\* A hook that fires is a new one.
LEMMA FireKeeps ==
  ASSUME TypeInv, NEW s \in Session, NEW kind, Fire(s, kind)
  PROVE  /\ hook' \in [Events -> HookRow] /\ Kept
         /\ \E k \in 0 .. MaxEvents : Fired' = 1 .. k
         /\ \A e \in Fired' : hook'[e].session \in Session
         /\ \A e \in Events : hook'[e] = hook[e] \/ hook'[e].phase = "send"
<1>1. PICK k \in 0 .. MaxEvents : Fired = 1 .. k
  BY DEF TypeInv, Working
<1>2. Cardinality(Fired) = k
  BY <1>1, FS_Interval, Bounds
<1>3. CASE UNCHANGED hook
  BY <1>1, <1>3 DEF Kept, Fired, TypeInv, Typed, Working
<1>4. CASE hook' = [hook EXCEPT ![Cardinality(Fired) + 1] = [kind |-> kind, session |-> s, phase |-> "send"]]
  <2> DEFINE row == [kind |-> kind, session |-> s, phase |-> "send"]
  <2>1. k + 1 \in Events /\ k + 1 \notin Fired /\ Events = 1 .. MaxEvents /\ k + 1 \in Nat
    BY <1>1, <1>2, Bounds DEF Fire
  <2>2. kind \in Kind
    BY DeliveryAssumption DEF Fire
  <2>3. row \in HookRow /\ row.phase = "send" /\ row.session = s
    BY <2>2 DEF HookRow
  <2>4. hook' = [hook EXCEPT ![k + 1] = row]
    BY <1>2, <1>4
  <2> HIDE DEF row
  <2>5. /\ hook' \in [Events -> HookRow] /\ hook'[k + 1] = row
        /\ \A e \in Events \ {k + 1} : hook'[e] = hook[e]
    BY <2>1, <2>3, <2>4 DEF TypeInv, Typed
  <2>6. Fired' = Fired \cup {k + 1}
    BY <2>1, <2>3, <2>5 DEF Fired
  <2>7. Fired' = 1 .. k + 1
    BY <1>1, <2>6
  <2>8. Kept
    BY <2>1, <2>5, <2>6 DEF Kept, Fired
  <2>9. k + 1 \in 0 .. MaxEvents
    BY <2>1, Bounds
  <2>10. \A e \in Fired' : hook'[e].session \in Session
    BY <2>1, <2>3, <2>5, <2>6 DEF TypeInv, Working, Fired
  <2> QED BY <2>3, <2>5, <2>7, <2>8, <2>9, <2>10
<1> QED BY <1>3, <1>4 DEF Fire

\* What a handler is after it goes on, and after a step within its phase.
LEMMA ContinueTyped ==
  ASSUME TypeInv, NEW e \in Events, NEW todo \in Seq(Piece), Continue(e, todo)
  PROVE  /\ handler' \in [Events -> HandlerRow]
         /\ \A d \in Events \ {e} : handler'[d] = handler[d]
         /\ handler'[e].phase \in {"evidence", "ingest", "closed"}
         /\ handler'[e].phase = "evidence" => handler'[e].todo # <<>>
         /\ handler'[e].phase = "ingest" =>
              hook[e].kind = "Stop" /\ handler'[e].next = 1 /\ handler'[e].prev = EventSpan(e)
<1>1. e \in Nat /\ IdleHandler \in HandlerRow /\ EventSpan(e) \in Span
  BY Bounds, ConstantsTyped, SpansTyped
<1> DEFINE row == CASE todo # <<>> -> [IdleHandler EXCEPT !.phase = "evidence", !.todo = todo]
                    [] todo = <<>> /\ IsSessionEnd(hook[e].kind) ->
                          [IdleHandler EXCEPT !.phase = "ingest", !.next = 1, !.prev = EventSpan(e)]
                    [] OTHER -> [IdleHandler EXCEPT !.phase = "closed"]
<1>2. handler' = [handler EXCEPT ![e] = row]
  BY DEF Continue
<1>3. /\ row \in HandlerRow /\ row.phase \in {"evidence", "ingest", "closed"}
      /\ row.phase = "evidence" => row.todo # <<>>
      /\ row.phase = "ingest" =>
           hook[e].kind = "Stop" /\ row.next = 1 /\ row.prev = EventSpan(e)
  <2>1. CASE todo # <<>>
    <3>1. row = [IdleHandler EXCEPT !.phase = "evidence", !.todo = todo]
      BY <2>1
    <3> HIDE DEF row
    <3> QED BY <1>1, <2>1, <3>1 DEF HandlerRow
  <2>2. CASE todo = <<>> /\ IsSessionEnd(hook[e].kind)
    <3>1. row = [IdleHandler EXCEPT !.phase = "ingest", !.next = 1, !.prev = EventSpan(e)]
      BY <2>2
    <3> HIDE DEF row
    <3>2. 1 \in 0 .. MaxLines + 1
      BY Bounds
    <3> QED BY <1>1, <2>2, <3>1, <3>2 DEF HandlerRow, IsSessionEnd
  <2>3. CASE todo = <<>> /\ ~ IsSessionEnd(hook[e].kind)
    <3>1. row = [IdleHandler EXCEPT !.phase = "closed"]
      BY <2>3
    <3> HIDE DEF row
    <3> QED BY <1>1, <3>1 DEF HandlerRow
  <2> QED BY <2>1, <2>2, <2>3
<1> HIDE DEF row
<1> QED BY <1>2, <1>3 DEF TypeInv, Typed

LEMMA HandlerMoves ==
  ASSUME TypeInv, NEW e \in Events, NEW phase \in {"insert", "closed", "failed"}, HandlerTo(e, phase)
  PROVE  /\ handler' \in [Events -> HandlerRow] /\ handler'[e].phase = phase
         /\ \A d \in Events \ {e} : handler'[d] = handler[d]
<1> DEFINE row == [handler[e] EXCEPT !.phase = phase]
<1>1. handler[e] \in HandlerRow
  BY DEF TypeInv, Typed
<1>2. handler' = [handler EXCEPT ![e] = row]
  BY DEF HandlerTo, TypeInv, Typed
<1>3. row \in HandlerRow /\ row.phase = phase
  BY <1>1 DEF HandlerRow
<1> HIDE DEF row
<1> QED BY <1>2, <1>3 DEF TypeInv, Typed

\* The steps of a handler that capture evidence.
Captures(e) == InsertEvent(e) \/ PutFile(e) \/ PutRow(e) \/ PutFails(e)

LEMMA CapturesTyped ==
  ASSUME TypeInv, NEW e \in Events, Captures(e)
  PROVE  /\ handler[e].phase # "none" /\ UNCHANGED <<file, hook, turns, outbox, unqueued>>
         /\ handler' \in [Events -> HandlerRow]
         /\ \A d \in Events \ {e} : handler'[d] = handler[d]
         /\ handler'[e].phase \in {"evidence", "row", "ingest", "closed"}
         /\ handler'[e].phase \in {"evidence", "row"} => handler'[e].todo # <<>>
         /\ handler'[e].phase = "ingest" =>
              hook[e].kind = "Stop" /\ handler'[e].next = 1 /\ handler'[e].prev = EventSpan(e)
<1>1. handler[e].phase # "none" /\ UNCHANGED <<file, hook, turns, outbox, unqueued>>
  BY DEF Captures, InsertEvent, PutFile, PutRow, PutFails, HandlerAt
<1>2. CASE \E todo \in Seq(Piece) : Continue(e, todo)
  BY <1>1, <1>2, ContinueTyped
<1>3. handler[e] \in HandlerRow /\ handler[e].todo \in Seq(Piece)
  BY DEF TypeInv, Typed, HandlerRow
<1>4. CASE InsertEvent(e)
  BY <1>2, <1>4, EvidenceTyped DEF InsertEvent
<1>5. CASE PutRow(e) \/ PutFails(e)
  <2>1. handler[e].todo # <<>> /\ Continue(e, Tail(handler[e].todo))
    BY <1>5 DEF PutRow, PutFails, HandlerAt, TypeInv, Working
  <2>2. Tail(handler[e].todo) \in Seq(Piece)
    BY <1>3, <2>1
  <2> QED BY <1>2, <2>1, <2>2
<1>6. CASE PutFile(e)
  <2>1. handler[e].todo # <<>>
    BY <1>6 DEF PutFile, HandlerAt, TypeInv, Working
  <2>2. Tail(handler[e].todo) \in Seq(Piece) /\ Head(handler[e].todo) \in Piece
    BY <1>3, <2>1
  <2>3. CASE Continue(e, Tail(handler[e].todo))
    BY <1>2, <2>2, <2>3
  <2> DEFINE c == <<Head(handler[e].todo), e>>
             row == [handler[e] EXCEPT !.phase = "row", !.held = {c}]
  <2>4. CASE handler' = [handler EXCEPT ![e].phase = "row", ![e].held = {c}]
    <3>1. c \in Content
      BY <2>2 DEF Content, Piece
    <3> HIDE DEF c
    <3>2. row \in HandlerRow /\ row.phase = "row" /\ row.todo = handler[e].todo
      BY <1>3, <3>1 DEF HandlerRow
    <3>3. handler' = [handler EXCEPT ![e] = row]
      BY <2>4 DEF TypeInv, Typed
    <3> HIDE DEF row
    <3>4. /\ handler' \in [Events -> HandlerRow] /\ handler'[e] = row
          /\ \A d \in Events \ {e} : handler'[d] = handler[d]
      BY <3>2, <3>3 DEF TypeInv, Typed
    <3> QED BY <1>1, <2>1, <3>2, <3>4
  <2> QED BY <1>6, <2>3, <2>4 DEF PutFile
<1> QED BY <1>4, <1>5, <1>6 DEF Captures

LEMMA IngestTyped ==
  ASSUME TypeInv, NEW e \in Events, IngestLine(e)
  PROVE  LET s == hook[e].session
             n == handler[e].next
         IN /\ handler[e].phase = "ingest" /\ s \in Session /\ n \in Nat /\ n <= Len(file[s])
            /\ UNCHANGED <<file, hook>>
            /\ turns' \in [Session -> [1 .. MaxLines -> Span]]
            /\ handler' \in [Events -> HandlerRow]
            /\ \A d \in Events \ {e} : handler'[d] = handler[d]
            /\ handler'[e].phase = "ingest" /\ handler'[e].next = n + 1
            /\ handler'[e].prev = IF file[s][n] = "turn" THEN TurnSpan(n) ELSE handler[e].prev
<1> DEFINE s == hook[e].session
           n == handler[e].next
           prev == IF file[s][n] = "turn" THEN TurnSpan(n) ELSE handler[e].prev
           row == [handler[e] EXCEPT !.next = n + 1, !.prev = prev]
<1>1. /\ handler[e].phase = "ingest" /\ s \in Session /\ n <= Len(file[s]) /\ UNCHANGED <<file, hook>>
      /\ handler[e] \in HandlerRow
  BY DEF IngestLine, HandlerAt, TypeInv, Typed, Working
<1>2. n \in 0 .. MaxLines + 1 /\ n \in Nat /\ n <= MaxLines /\ handler[e].prev \in Span
  <2>1. n \in 0 .. MaxLines + 1 /\ handler[e].prev \in Span
    BY <1>1 DEF HandlerRow
  <2>2. file[s] \in Seq({"turn", "note"}) /\ Len(file[s]) <= MaxLines
    BY <1>1 DEF TypeInv, Typed
  <2>3. Len(file[s]) \in Nat
    BY <2>2
  <2> QED BY <1>1, <2>1, <2>2, <2>3, Bounds
<1>3. prev \in Span
  BY <1>2, SpansTyped
<1>4. handler' = [handler EXCEPT ![e] = row]
  BY DEF IngestLine, TypeInv, Typed
<1>5. turns' = turns \/ turns' = [turns EXCEPT ![s][n] = handler[e].prev]
  BY DEF IngestLine
<1>6. row \in HandlerRow /\ row.phase = "ingest" /\ row.next = n + 1 /\ row.prev = prev
  <2> HIDE DEF prev
  <2>1. n + 1 \in 0 .. MaxLines + 1
    BY <1>2, Bounds
  <2> QED BY <1>1, <1>3, <2>1 DEF HandlerRow
<1> HIDE DEF s, n, prev
<1> HIDE DEF row
<1>7. /\ handler' \in [Events -> HandlerRow] /\ handler'[e] = row
      /\ \A d \in Events \ {e} : handler'[d] = handler[d]
  BY <1>4, <1>6 DEF TypeInv, Typed
<1>8. turns' \in [Session -> [1 .. MaxLines -> Span]]
  <2>1. turns[s] \in [1 .. MaxLines -> Span]
    BY <1>1 DEF TypeInv, Typed
  <2>2. [turns[s] EXCEPT ![n] = handler[e].prev] \in [1 .. MaxLines -> Span]
    BY <1>2, <2>1
  <2>3. CASE turns' = [turns EXCEPT ![s][n] = handler[e].prev]
    <3>1. turns' = [turns EXCEPT ![s] = [turns[s] EXCEPT ![n] = handler[e].prev]]
      BY <1>1, <2>3 DEF TypeInv, Typed
    <3> QED BY <2>2, <3>1 DEF TypeInv, Typed
  <2> QED BY <1>5, <2>3 DEF TypeInv, Typed
<1> QED BY <1>1, <1>2, <1>6, <1>7, <1>8 DEF s, n, prev

(* ------------------------ what a step may change ----------------------- *)

\* A hook whose event is in neither the outbox nor among the failed writes has
\* not come to the end of Send.
Accounted ==
  /\ outbox \subseteq outbox' /\ unqueued \subseteq unqueued'
  /\ \A e \in Events :
       hook'[e].phase \in {"recall", "gone"} =>
         hook[e].phase \in {"recall", "gone"} \/ e \in outbox' \cup unqueued'

\* Transcripts only grow.
Extends ==
  \A s \in Session : /\ Len(file[s]) <= Len(file'[s])
                     /\ \A n \in 1 .. Len(file[s]) : file'[s][n] = file[s][n]

\* An import goes on as it was or begins at the first line.
Imports ==
  \A e \in Events : handler'[e].phase = "ingest" =>
    \/ handler'[e] = handler[e]
    \/ /\ e \in Fired /\ hook[e].kind = "Stop"
       /\ handler'[e].next = 1 /\ handler'[e].prev = EventSpan(e)

\* Every step but one of an import.
Quiet == turns' = turns /\ Extends /\ Imports

Steps == TypeInv' /\ Kept /\ Accounted /\ (Quiet \/ \E e \in Events : IngestLine(e))

LEMMA AgentSteps ==
  ASSUME TypeInv, NEW s \in Session, AgentStep(s)
  PROVE  Steps
<1>1. CASE \E kind : Fire(s, kind)
  <2>1. PICK kind : Fire(s, kind)
    BY <1>1
  <2>2. UNCHANGED <<file, outbox, handler, turns, unqueued>>
    BY <2>1 DEF Fire
  <2>3. /\ hook' \in [Events -> HookRow] /\ Kept
        /\ \E k \in 0 .. MaxEvents : Fired' = 1 .. k
        /\ \A e \in Fired' : hook'[e].session \in Session
        /\ \A e \in Events : hook'[e] = hook[e] \/ hook'[e].phase = "send"
    BY <2>1, FireKeeps
  <2>4. Fired \subseteq Fired'
    BY <2>3 DEF Kept
  <2>5. TypeInv'
    BY <2>2, <2>3, <2>4 DEF TypeInv, Typed, Working
  <2>6. Accounted
    BY <2>2, <2>3 DEF Accounted
  <2>7. Quiet
    BY <2>2 DEF Quiet, Extends, Imports
  <2> QED BY <2>3, <2>5, <2>6, <2>7 DEF Steps
<1>2. CASE WritesLine(s)
  <2>1. /\ UNCHANGED <<hook, outbox, handler, turns, unqueued>>
        /\ Len(file[s]) < MaxLines
        /\ \E kind \in {"turn", "note"} : file' = [file EXCEPT ![s] = Append(file[s], kind)]
    BY <1>2 DEF WritesLine
  <2>2. PICK kind \in {"turn", "note"} : file' = [file EXCEPT ![s] = Append(file[s], kind)]
    BY <2>1
  <2>3. /\ file \in [Session -> Seq({"turn", "note"})] /\ file[s] \in Seq({"turn", "note"})
        /\ \A t \in Session : Len(file[t]) <= MaxLines
    BY DEF TypeInv, Typed
  <2>4. /\ Append(file[s], kind) \in Seq({"turn", "note"})
        /\ Len(Append(file[s], kind)) = Len(file[s]) + 1
        /\ \A n \in 1 .. Len(file[s]) : Append(file[s], kind)[n] = file[s][n]
        /\ Len(file[s]) \in Nat
    BY <2>3
  <2>5. /\ file' \in [Session -> Seq({"turn", "note"})]
        /\ \A t \in Session : file'[t] = IF t = s THEN Append(file[s], kind) ELSE file[t]
    BY <2>2, <2>3, <2>4
  <2>6. \A t \in Session : Len(file'[t]) <= MaxLines
    BY <2>1, <2>3, <2>4, <2>5, Bounds
  <2>7. Extends
    <3>1. ASSUME NEW t \in Session
          PROVE  /\ Len(file[t]) <= Len(file'[t])
                 /\ \A n \in 1 .. Len(file[t]) : file'[t][n] = file[t][n]
      <4>1. CASE t = s
        BY <2>4, <2>5, <4>1
      <4>2. CASE t # s
        <5>1. file[t] \in Seq({"turn", "note"}) /\ file'[t] = file[t]
          BY <2>3, <2>5, <4>2
        <5>2. Len(file[t]) \in Nat
          BY <5>1
        <5> QED BY <5>1, <5>2
      <4> QED BY <4>1, <4>2
    <3> QED BY <3>1 DEF Extends
  <2>8. TypeInv'
    BY <2>1, <2>5, <2>6 DEF TypeInv, Typed, Working, Fired
  <2>9. Quiet /\ Kept /\ Accounted
    BY <2>1, <2>7 DEF Quiet, Imports, Kept, Accounted, Fired
  <2> QED BY <2>8, <2>9 DEF Steps
<1> QED BY <1>1, <1>2 DEF AgentStep, SessionStarts, Prompts, UsesTool, Stops

\* The steps of a hook that fired, and their handler.
LEMMA HookSteps ==
  ASSUME TypeInv, NEW e \in Events, HookStep(e)
  PROVE  Steps
<1>1. e \in Fired /\ UNCHANGED <<file, turns>>
  BY DEF HookStep, DialRefused, Dial, AwaitClosed, AwaitLate, Recall, RecallFails, HookAt,
         Enqueue, EnqueueFails, Fired
<1>2. Extends
  BY <1>1 DEF Extends, TypeInv, Typed
<1>3. PICK phase \in {"await", "recall", "gone"} : HookTo(e, phase)
  BY DEF HookStep, DialRefused, Dial, AwaitClosed, AwaitLate, Recall, RecallFails,
         Enqueue, EnqueueFails
<1>4. /\ hook' \in [Events -> HookRow] /\ Fired' = Fired /\ Kept
      /\ hook'[e].phase = phase /\ \A d \in Events \ {e} : hook'[d] = hook[d]
  BY <1>1, <1>3, HookMoves
<1>5. Working' \/ handler' # handler
  BY <1>4 DEF TypeInv, Working, Kept
<1>6. CASE Dial(e)
  <2>1. phase = "await" /\ UNCHANGED <<outbox, unqueued>> /\ HandlerTo(e, "insert")
    <3>1. HookTo(e, "await") /\ UNCHANGED <<outbox, unqueued>> /\ HandlerTo(e, "insert")
      BY <1>6 DEF Dial, HandlerTo
    <3>2. hook'[e].phase = "await"
      BY <1>1, <3>1, HookMoves
    <3> QED BY <1>4, <3>1, <3>2
  <2>2. /\ handler' \in [Events -> HandlerRow] /\ handler'[e].phase = "insert"
        /\ \A d \in Events \ {e} : handler'[d] = handler[d]
    BY <2>1, HandlerMoves
  <2>3. Working'
    BY <1>1, <1>4, <2>2 DEF TypeInv, Working, Kept
  <2>4. TypeInv'
    BY <1>1, <1>4, <2>2, <2>3 DEF TypeInv, Typed
  <2>5. Accounted
    BY <1>4, <2>1 DEF Accounted
  <2>6. Imports
    BY <2>2 DEF Imports
  <2> QED BY <1>1, <1>2, <1>4, <2>4, <2>5, <2>6 DEF Steps, Quiet
<1>7. CASE ~ Dial(e)
  <2>1. handler' = handler
    BY <1>7 DEF HookStep, DialRefused, AwaitClosed, AwaitLate, Recall, RecallFails,
                Enqueue, EnqueueFails
  <2>2. /\ outbox \subseteq outbox' /\ unqueued \subseteq unqueued'
        /\ hook[e].phase = "recall" \/ e \in outbox' \cup unqueued'
    BY <1>7 DEF HookStep, DialRefused, AwaitClosed, AwaitLate, Recall, RecallFails,
                HookAt, Enqueue, EnqueueFails
  <2>3. Accounted
    BY <1>4, <2>2 DEF Accounted
  <2>4. TypeInv'
    BY <1>1, <1>4, <1>5, <2>1 DEF TypeInv, Typed
  <2>5. Imports
    BY <2>1 DEF Imports
  <2> QED BY <1>1, <1>2, <1>4, <2>3, <2>4, <2>5 DEF Steps, Quiet
<1> QED BY <1>6, <1>7

LEMMA HandlerSteps ==
  ASSUME TypeInv, NEW e \in Events, HandlerStep(e)
  PROVE  Steps
<1>1. UNCHANGED <<file, hook, outbox, unqueued>> /\ handler[e].phase # "none" /\ e \in Fired
  BY DEF HandlerStep, InsertEvent, InsertFails, PutFile, PutRow, PutFails, IngestLine, IngestEnd,
         IngestFails, HandlerAt, TypeInv, Working
<1>2. Extends /\ Kept /\ Accounted /\ Fired' = Fired
  BY <1>1 DEF Extends, Kept, Accounted, Fired, TypeInv, Typed
<1>3. ASSUME handler' \in [Events -> HandlerRow],
             turns' \in [Session -> [1 .. MaxLines -> Span]],
             \A d \in Events \ {e} : handler'[d] = handler[d],
             handler'[e].phase \in {"evidence", "row"} => handler'[e].todo # <<>>
      PROVE  TypeInv'
  BY <1>1, <1>2, <1>3 DEF TypeInv, Typed, Working
<1>4. CASE Captures(e)
  <2>1. TypeInv'
    BY <1>3, <1>4, CapturesTyped DEF TypeInv, Typed
  <2>2. Quiet
    BY <1>1, <1>2, <1>4, CapturesTyped DEF Quiet, Imports
  <2> QED BY <1>2, <2>1, <2>2 DEF Steps
<1>5. CASE IngestLine(e)
  <2>1. TypeInv'
    BY <1>3, <1>5, IngestTyped
  <2> QED BY <1>2, <1>5, <2>1 DEF Steps
<1>6. CASE InsertFails(e) \/ IngestEnd(e) \/ IngestFails(e)
  <2>1. PICK phase \in {"closed", "failed"} : HandlerTo(e, phase)
    BY <1>6 DEF InsertFails, IngestEnd, IngestFails
  <2>2. /\ handler' \in [Events -> HandlerRow] /\ handler'[e].phase = phase
        /\ \A d \in Events \ {e} : handler'[d] = handler[d]
    BY <2>1, HandlerMoves
  <2>3. turns' = turns
    BY <1>6 DEF InsertFails, IngestEnd, IngestFails
  <2>4. TypeInv'
    BY <1>3, <2>2, <2>3 DEF TypeInv, Typed
  <2>5. Quiet
    BY <1>2, <2>2, <2>3 DEF Quiet, Imports
  <2> QED BY <1>2, <2>4, <2>5 DEF Steps
<1> QED BY <1>4, <1>5, <1>6 DEF HandlerStep, Captures

LEMMA NextSteps == TypeInv /\ [Next]_vars => Steps
<1> SUFFICES ASSUME TypeInv, [Next]_vars PROVE Steps
  OBVIOUS
<1>1. ASSUME UNCHANGED <<file, hook, outbox, unqueued, turns>>,
             handler' \in [Events -> HandlerRow],
             \A e \in Events : handler'[e] = handler[e] \/ (Active(e) /\ handler'[e].phase = "lost")
      PROVE  Steps
  <2>1. Extends /\ Kept /\ Accounted /\ Imports /\ Fired' = Fired
    BY <1>1 DEF Extends, Kept, Accounted, Imports, Fired, TypeInv, Typed
  <2>2. \A e \in Events : handler'[e].phase # "none" => handler[e].phase # "none"
    BY <1>1 DEF Active
  <2>3. \A e \in Events : handler'[e].phase \in {"evidence", "row"} => handler'[e] = handler[e]
    BY <1>1
  <2>4. TypeInv'
    BY <1>1, <2>1, <2>2, <2>3 DEF TypeInv, Typed, Working
  <2> QED BY <1>1, <2>1, <2>4 DEF Steps, Quiet
<1>2. ASSUME UNCHANGED <<file, hook, outbox, unqueued, turns, handler>> PROVE Steps
  BY <1>1, <1>2 DEF TypeInv, Typed
<1>3. CASE DaemonStep
  <2>1. CASE DaemonStops \/ DaemonStarts
    BY <1>2, <2>1 DEF DaemonStops, DaemonStarts
  <2>2. CASE DaemonCrashes
    <3> DEFINE lost == [IdleHandler EXCEPT !.phase = "lost"]
    <3>1. lost \in HandlerRow /\ lost.phase = "lost"
      BY ConstantsTyped DEF HandlerRow
    <3>2. /\ UNCHANGED <<file, hook, outbox, unqueued, turns>>
          /\ handler' = [e \in Events |-> IF Active(e) THEN lost ELSE handler[e]]
      BY <2>2 DEF DaemonCrashes
    <3> HIDE DEF lost
    <3> QED BY <1>1, <3>1, <3>2 DEF TypeInv, Typed
  <2> QED BY <1>3, <2>1, <2>2 DEF DaemonStep
<1>4. ASSUME NEW s \in Session, Synthesize(s) PROVE Steps
  BY <1>2, <1>4 DEF Synthesize
<1>5. CASE UNCHANGED vars
  BY <1>2, <1>5 DEF vars
<1> QED BY <1>3, <1>4, <1>5, AgentSteps, HookSteps, HandlerSteps DEF Next

LEMMA TypeInit == Init => TypeInv
<1> SUFFICES ASSUME Init PROVE TypeInv
  OBVIOUS
<1>1. Fired = {} /\ Fired = 1 .. 0 /\ 0 \in 0 .. MaxEvents
  BY Bounds DEF Init, Fired
<1>2. \A s \in Session : file[s] = <<>> /\ Len(file[s]) = 0
  BY DEF Init
<1>3. /\ handler \in [Events -> HandlerRow] /\ turns \in [Session -> [1 .. MaxLines -> Span]]
      /\ \A e \in Events : handler[e].phase = "none"
  BY ConstantsTyped DEF Init, IdleHandler
<1>4. file \in [Session -> Seq({"turn", "note"})]
  <2>1. <<>> \in Seq({"turn", "note"})
    OBVIOUS
  <2> QED BY <2>1 DEF Init
<1>5. hook \in [Events -> HookRow]
  BY DEF Init, HookRow, Kind
<1>6. Working
  <2>1. \E k \in 0 .. MaxEvents : Fired = 1 .. k
    BY <1>1
  <2> QED BY <1>1, <1>3, <2>1 DEF Working
<1>7. Typed
  BY <1>2, <1>3, <1>4, <1>5, Bounds DEF Typed
<1> QED BY <1>6, <1>7 DEF TypeInv

LEMMA TypeAlways == Spec => []TypeInv
<1>1. TypeInv /\ [Next]_vars => TypeInv'
  BY NextSteps DEF Steps
<1> QED BY TypeInit, <1>1, PTL DEF Spec

(* --------------------------- what is forgotten ------------------------- *)

\* The hook writes to the outbox whether or not the daemon answered.
QueuedInv ==
  \A e \in Events : hook[e].phase \in {"recall", "gone"} => e \in outbox \cup unqueued

\* An event whose hook is through is in the outbox or its write there failed,
\* whatever the daemon did with it (Send, Enqueue).
THEOREM ForgottenCorrect == Spec => []NothingForgotten
<1>1. Init => QueuedInv
  BY DEF Init, QueuedInv
<1>2. TypeInv /\ QueuedInv /\ [Next]_vars => QueuedInv'
  BY NextSteps DEF Steps, Accounted, QueuedInv
<1>3. QueuedInv => NothingForgotten
  BY DEF QueuedInv, NothingForgotten, Fired
<1> QED BY <1>1, <1>2, <1>3, TypeAlways, PTL DEF Spec

(* ------------------------- the chain of turns -------------------------- *)

\* The turns before a line, and what the turn of that line hangs from.
Before(s, n) == {m \in 1 .. n - 1 : file[s][m] = "turn"}

IsParent(s, n, span) ==
  IF Before(s, n) = {}
    THEN \E e \in HooksOf(s) : hook[e].kind = "Stop" /\ span = EventSpan(e)
    ELSE \E m \in Before(s, n) : span = TurnSpan(m) /\ \A k \in Before(s, n) : k <= m

\* All turns before this line are stored, and this is what the next hangs from.
ImportedTo(s, n, span) ==
  /\ n - 1 <= Len(file[s]) /\ Before(s, n) \subseteq TurnsOf(s) /\ IsParent(s, n, span)

\* The chain as it is stored, and every import at its line.
ChainInv ==
  /\ \A s \in Session : \A n \in TurnsOf(s) :
       n <= Len(file[s]) /\ ImportedTo(s, n, turns[s][n])
  /\ \A e \in Events : handler[e].phase = "ingest" =>
       handler[e].next > 0 /\ ImportedTo(hook[e].session, handler[e].next, handler[e].prev)

\* What is a parent stays one while the transcript and the table grow.
LEMMA ImportedStays ==
  ASSUME TypeInv, TypeInv', Kept, Extends, NEW s \in Session, NEW n \in Nat, n > 0, NEW span,
         TurnsOf(s) \subseteq TurnsOf(s)', ImportedTo(s, n, span)
  PROVE  ImportedTo(s, n, span)'
<1>1. /\ Len(file[s]) \in Nat /\ Len(file'[s]) \in Nat
      /\ Len(file[s]) <= Len(file'[s]) /\ n - 1 <= Len(file[s])
      /\ \A m \in 1 .. Len(file[s]) : file'[s][m] = file[s][m]
  <2>1. file[s] \in Seq({"turn", "note"}) /\ file'[s] \in Seq({"turn", "note"})
    BY DEF TypeInv, Typed
  <2>2. Len(file[s]) \in Nat /\ Len(file'[s]) \in Nat
    BY <2>1
  <2> QED BY <2>2 DEF Extends, ImportedTo
<1>2. \A m \in 1 .. n - 1 : file'[s][m] = file[s][m]
  BY <1>1
<1>3. Before(s, n)' = Before(s, n)
  BY <1>2 DEF Before
<1>4. \A e \in HooksOf(s) : e \in HooksOf(s)' /\ hook'[e].kind = hook[e].kind
  BY DEF HooksOf, Kept
<1>5. IsParent(s, n, span)'
  BY <1>3, <1>4 DEF IsParent, ImportedTo
<1>6. n - 1 <= Len(file'[s])
  BY <1>1
<1> QED BY <1>3, <1>5, <1>6 DEF ImportedTo

LEMMA TurnsTyped ==
  ASSUME NEW s \in Session, NEW n \in TurnsOf(s)
  PROVE  n \in Nat /\ n > 0 /\ n <= MaxLines
  BY Bounds DEF TurnsOf

LEMMA ChainInit == Init => ChainInv
<1> SUFFICES ASSUME Init PROVE ChainInv
  OBVIOUS
<1>1. \A s \in Session : TurnsOf(s) = {}
  BY DEF Init, TurnsOf
<1>2. \A e \in Events : handler[e].phase = "none"
  BY DEF Init, IdleHandler
<1> QED BY <1>1, <1>2 DEF ChainInv

\* The handler of an import has a session and a line.
LEMMA ImportTyped ==
  ASSUME TypeInv, NEW e \in Events, handler[e].phase = "ingest"
  PROVE  hook[e].session \in Session /\ handler[e].next \in Nat /\ e \in Fired
<1>1. e \in Fired /\ handler[e] \in HandlerRow
  BY DEF TypeInv, Typed, Working
<1> QED BY <1>1 DEF TypeInv, Working, HandlerRow

LEMMA ChainQuiet ==
  ASSUME TypeInv, TypeInv', ChainInv, Kept, Quiet
  PROVE  ChainInv'
<1>1. \A s \in Session : TurnsOf(s)' = TurnsOf(s)
  BY DEF Quiet, TurnsOf
<1>2. ASSUME NEW s \in Session, NEW n \in TurnsOf(s)'
      PROVE  n <= Len(file'[s]) /\ ImportedTo(s, n, turns[s][n])'
  <2>1. n \in TurnsOf(s) /\ n \in Nat /\ n > 0
    BY <1>1, TurnsTyped
  <2>2. PICK span : span = turns[s][n]
    OBVIOUS
  <2>3. n <= Len(file[s]) /\ ImportedTo(s, n, span)
    BY <2>1, <2>2 DEF ChainInv
  <2>4. ImportedTo(s, n, span)'
    BY <1>1, <2>1, <2>3, ImportedStays DEF Quiet
  <2>5. n <= Len(file'[s])
    <3>1. file[s] \in Seq({"turn", "note"}) /\ file'[s] \in Seq({"turn", "note"})
      BY DEF TypeInv, Typed
    <3>2. Len(file[s]) \in Nat /\ Len(file'[s]) \in Nat /\ Len(file[s]) <= Len(file'[s])
      BY <3>1 DEF Quiet, Extends
    <3> QED BY <2>1, <2>3, <3>2
  <2> QED BY <2>2, <2>4, <2>5 DEF Quiet, ImportedTo, IsParent
<1>3. ASSUME NEW e \in Events, handler'[e].phase = "ingest"
      PROVE  /\ handler'[e].next > 0
             /\ ImportedTo(hook[e].session, handler[e].next, handler[e].prev)'
  <2>1. CASE handler'[e] = handler[e]
    <3>1. /\ hook[e].session \in Session /\ handler[e].next \in Nat /\ e \in Fired
          /\ handler[e].next > 0 /\ ImportedTo(hook[e].session, handler[e].next, handler[e].prev)
      BY <1>3, <2>1, ImportTyped DEF ChainInv
    <3>2. PICK s \in Session, n \in Nat, span \in {handler[e].prev} :
            s = hook[e].session /\ n = handler[e].next /\ span = handler[e].prev
      BY <3>1
    <3>3. ImportedTo(s, n, span)'
      BY <1>1, <3>1, <3>2, ImportedStays DEF Quiet
    <3>4. hook'[e].session = s /\ handler'[e].next = n /\ handler'[e].prev = span
      BY <2>1, <3>1, <3>2 DEF Kept
    <3> QED BY <3>1, <3>2, <3>3, <3>4 DEF ImportedTo, IsParent, Before, HooksOf
  <2>2. CASE /\ e \in Fired /\ hook[e].kind = "Stop"
             /\ handler'[e].next = 1 /\ handler'[e].prev = EventSpan(e)
    <3>1. PICK s \in Session : s = hook[e].session
      BY <2>2 DEF TypeInv, Working
    <3>2. e \in HooksOf(s)' /\ hook'[e].kind = "Stop" /\ hook'[e].session = s
      BY <2>2, <3>1 DEF Kept, HooksOf
    <3>3. Before(s, 1)' = {}
      BY DEF Before
    <3>4. IsParent(s, 1, EventSpan(e))'
      BY <3>2, <3>3 DEF IsParent, EventSpan
    <3>5. Len(file'[s]) \in Nat
      BY DEF TypeInv, Typed
    <3>6. ImportedTo(s, 1, EventSpan(e))'
      BY <3>3, <3>4, <3>5 DEF ImportedTo
    <3> QED BY <2>2, <3>2, <3>6 DEF ImportedTo, IsParent, Before, HooksOf
  <2> QED BY <1>3, <2>1, <2>2 DEF Quiet, Imports
<1> QED BY <1>2, <1>3 DEF ChainInv

\* A parent is a span of its own.
LEMMA ParentIsSpan ==
  ASSUME NEW s \in Session, NEW n \in Nat, NEW span, IsParent(s, n, span)
  PROVE  span # NoSpan
<1>1. CASE Before(s, n) = {}
  <2>1. PICK e \in HooksOf(s) : span = EventSpan(e)
    BY <1>1 DEF IsParent
  <2>2. e \in Nat /\ e > 0
    BY Bounds DEF HooksOf, Fired
  <2> QED BY <2>1, <2>2, SpansTyped
<1>2. CASE Before(s, n) # {}
  <2>1. PICK m \in Before(s, n) : span = TurnSpan(m)
    BY <1>2 DEF IsParent
  <2>2. m \in Nat /\ m > 0
    BY DEF Before
  <2> QED BY <2>1, <2>2, SpansTyped
<1> QED BY <1>1, <1>2

\* What the import of one line stores, and what the next line hangs from.
LEMMA LineStored ==
  ASSUME TypeInv, ChainInv, NEW e \in Events, IngestLine(e),
         NEW s \in Session, NEW n \in Nat, NEW span,
         s = hook[e].session, n = handler[e].next, span = handler[e].prev
  PROVE  /\ n > 0 /\ n <= Len(file[s]) /\ ImportedTo(s, n, span)
         /\ \A t \in Session : \A m \in TurnsOf(t) : m \in TurnsOf(t)' /\ turns'[t][m] = turns[t][m]
         /\ \A t \in Session : \A m \in TurnsOf(t)' :
              m \in TurnsOf(t) \/ (t = s /\ m = n /\ turns'[t][m] = span)
         /\ file[s][n] = "turn" => n \in TurnsOf(s)'
<1>1. /\ handler[e].phase = "ingest" /\ n <= Len(file[s]) /\ UNCHANGED <<file, hook>>
  BY IngestTyped
<1>2. n > 0 /\ ImportedTo(s, n, span) /\ span # NoSpan
  BY <1>1, ParentIsSpan DEF ChainInv, ImportedTo
<1>3. n \in 1 .. MaxLines
  <2>1. file[s] \in Seq({"turn", "note"}) /\ Len(file[s]) <= MaxLines
    BY DEF TypeInv, Typed
  <2>2. Len(file[s]) \in Nat
    BY <2>1
  <2> QED BY <1>1, <1>2, <2>1, <2>2, Bounds
<1>4. CASE file[s][n] = "turn" /\ turns[s][n] = NoSpan
  <2>1. turns' = [turns EXCEPT ![s][n] = span]
    BY <1>4 DEF IngestLine
  <2>2. turns'[s][n] = span /\ turns'[s] = [turns[s] EXCEPT ![n] = span]
        /\ \A t \in Session \ {s} : turns'[t] = turns[t]
    BY <1>3, <2>1 DEF TypeInv, Typed
  <2>3. \A m \in 1 .. MaxLines \ {n} : turns'[s][m] = turns[s][m]
    BY <2>2 DEF TypeInv, Typed
  <2>4. n \in TurnsOf(s)' /\ n \notin TurnsOf(s)
    BY <1>2, <1>3, <1>4, <2>2 DEF TurnsOf
  <2>5. \A t \in Session : \A m \in TurnsOf(t) : m \in TurnsOf(t)' /\ turns'[t][m] = turns[t][m]
    BY <2>2, <2>3, <2>4 DEF TurnsOf
  <2>6. \A t \in Session : \A m \in TurnsOf(t)' :
          m \in TurnsOf(t) \/ (t = s /\ m = n /\ turns'[t][m] = span)
    BY <2>2, <2>3 DEF TurnsOf
  <2> QED BY <1>1, <1>2, <2>4, <2>5, <2>6
<1>5. CASE ~ (file[s][n] = "turn" /\ turns[s][n] = NoSpan)
  <2>1. turns' = turns
    BY <1>5 DEF IngestLine
  <2> QED BY <1>1, <1>2, <1>3, <1>5, <2>1 DEF TurnsOf
<1> QED BY <1>4, <1>5

LEMMA NextParent ==
  ASSUME TypeInv, NEW s \in Session, NEW n \in Nat, n > 0, NEW span, IsParent(s, n, span)
  PROVE  /\ file[s][n] = "turn" =>
              Before(s, n + 1) = Before(s, n) \cup {n} /\ IsParent(s, n + 1, TurnSpan(n))
         /\ file[s][n] # "turn" => Before(s, n + 1) = Before(s, n) /\ IsParent(s, n + 1, span)
<1>1. CASE file[s][n] = "turn"
  <2>1. Before(s, n + 1) = Before(s, n) \cup {n}
    BY <1>1 DEF Before
  <2>2. \A k \in Before(s, n + 1) : k <= n
    BY DEF Before
  <2>3. IsParent(s, n + 1, TurnSpan(n))
    BY <2>1, <2>2 DEF IsParent
  <2> QED BY <1>1, <2>1, <2>3
<1>2. CASE file[s][n] # "turn"
  <2>1. Before(s, n + 1) = Before(s, n)
    BY <1>2 DEF Before
  <2> QED BY <1>2, <2>1 DEF IsParent
<1> QED BY <1>1, <1>2

LEMMA ChainImport ==
  ASSUME TypeInv, TypeInv', ChainInv, Kept, NEW e \in Events, IngestLine(e)
  PROVE  ChainInv'
<1>1. /\ handler[e].phase = "ingest" /\ UNCHANGED <<file, hook>>
      /\ hook[e].session \in Session /\ handler[e].next \in Nat
      /\ \A d \in Events \ {e} : handler'[d] = handler[d]
      /\ handler'[e].next = handler[e].next + 1
      /\ handler'[e].prev = IF file[hook[e].session][handler[e].next] = "turn"
                            THEN TurnSpan(handler[e].next) ELSE handler[e].prev
  BY IngestTyped
<1>2. PICK s \in Session, n \in Nat, span \in {handler[e].prev} :
        s = hook[e].session /\ n = handler[e].next /\ span = handler[e].prev
  BY <1>1
<1>3. /\ n > 0 /\ n <= Len(file[s]) /\ ImportedTo(s, n, span)
      /\ \A t \in Session : \A m \in TurnsOf(t) : m \in TurnsOf(t)' /\ turns'[t][m] = turns[t][m]
      /\ \A t \in Session : \A m \in TurnsOf(t)' :
           m \in TurnsOf(t) \/ (t = s /\ m = n /\ turns'[t][m] = span)
      /\ file[s][n] = "turn" => n \in TurnsOf(s)'
  BY <1>2, LineStored
<1>4. Extends /\ \A t \in Session : Len(file[t]) \in Nat
  <2>1. ASSUME NEW t \in Session PROVE Len(file[t]) \in Nat
    <3>1. file[t] \in Seq({"turn", "note"})
      BY DEF TypeInv, Typed
    <3> QED BY <3>1
  <2> QED BY <1>1, <2>1 DEF Extends
<1>5. \A t \in Session : TurnsOf(t) \subseteq TurnsOf(t)'
  BY <1>3
<1>6. ASSUME NEW t \in Session, NEW m \in TurnsOf(t)'
      PROVE  m <= Len(file'[t]) /\ ImportedTo(t, m, turns[t][m])'
  <2>1. PICK parent : parent = turns'[t][m]
    OBVIOUS
  <2>2. m \in Nat /\ m > 0 /\ m <= Len(file[t]) /\ ImportedTo(t, m, parent)
    <3>1. CASE m \in TurnsOf(t)
      BY <1>3, <2>1, <3>1, TurnsTyped DEF ChainInv
    <3>2. CASE t = s /\ m = n /\ turns'[t][m] = span
      BY <1>3, <2>1, <3>2
    <3> QED BY <1>3, <3>1, <3>2
  <2>3. ImportedTo(t, m, parent)'
    BY <1>4, <1>5, <2>2, ImportedStays
  <2> QED BY <1>1, <2>1, <2>2, <2>3 DEF ImportedTo, IsParent
<1>7. ASSUME NEW d \in Events \ {e}, handler'[d].phase = "ingest"
      PROVE  /\ handler'[d].next > 0
             /\ ImportedTo(hook[d].session, handler[d].next, handler[d].prev)'
  <2>1. handler'[d] = handler[d] /\ hook'[d] = hook[d]
    BY <1>1
  <2>2. PICK t \in Session, m \in Nat, parent \in {handler[d].prev} :
          t = hook[d].session /\ m = handler[d].next /\ parent = handler[d].prev
    BY <1>7, <2>1, ImportTyped
  <2>3. m > 0 /\ ImportedTo(t, m, parent)
    BY <1>7, <2>1, <2>2 DEF ChainInv
  <2>4. ImportedTo(t, m, parent)'
    BY <1>4, <1>5, <2>3, ImportedStays
  <2> QED BY <2>1, <2>2, <2>3, <2>4 DEF ImportedTo, IsParent, Before, HooksOf
<1>8. ImportedTo(hook[e].session, handler[e].next, handler[e].prev)' /\ handler'[e].next > 0
  <2>1. PICK parent : parent = IF file[s][n] = "turn" THEN TurnSpan(n) ELSE span
    OBVIOUS
  <2>2. IsParent(s, n + 1, parent)
    BY <1>3, <2>1, NextParent DEF ImportedTo
  <2>3. (Before(s, n + 1) \subseteq TurnsOf(s))'
    <3>1. Before(s, n + 1) \subseteq Before(s, n) \cup {m \in {n} : file[s][m] = "turn"}
      BY <1>3, NextParent DEF ImportedTo
    <3>2. Before(s, n + 1)' = Before(s, n + 1)
      BY <1>1 DEF Before
    <3> QED BY <1>3, <1>5, <3>1, <3>2 DEF ImportedTo
  <2>4. IsParent(s, n + 1, parent)'
    BY <1>1, <2>2 DEF IsParent, Before, HooksOf, Fired
  <2>5. ImportedTo(s, n + 1, parent)'
    BY <1>1, <1>3, <1>4, <2>3, <2>4 DEF ImportedTo
  <2>6. hook'[e].session = s /\ handler'[e].next = n + 1 /\ handler'[e].prev = parent
    BY <1>1, <1>2, <2>1
  <2> QED BY <1>3, <2>5, <2>6 DEF ImportedTo, IsParent, Before, HooksOf
<1> QED BY <1>6, <1>7, <1>8 DEF ChainInv

LEMMA ChainAlways == Spec => []ChainInv
<1>1. TypeInv /\ ChainInv /\ [Next]_vars => ChainInv'
  BY NextSteps, ChainQuiet, ChainImport DEF Steps
<1> QED BY ChainInit, <1>1, TypeAlways, PTL DEF Spec

\* The imported turns of a session form one chain, whichever handlers wrote it,
\* however often the daemon died and however the transcript grew (insertTranscriptTurn).
THEOREM ChainCorrect == Spec => []TurnsChained
<1>1. ChainInv => TurnsChained
  BY DEF ChainInv, ImportedTo, IsParent, Before, TurnsChained
<1> QED BY <1>1, ChainAlways, PTL

\* Only the end of the transcript closes an import.
LEMMA ImportEnds ==
  ASSUME TypeInv, [Next]_vars, NEW e \in Events,
         handler[e].phase = "ingest", handler'[e].phase = "closed"
  PROVE  IngestEnd(e)
<1>1. handler'[e] # handler[e]
  OBVIOUS
<1>2. ASSUME NEW s \in Session, AgentStep(s) \/ Synthesize(s) PROVE FALSE
  BY <1>1, <1>2 DEF AgentStep, SessionStarts, Prompts, UsesTool, Stops, WritesLine, Fire, Synthesize
<1>3. ASSUME NEW d \in Events, HookStep(d) PROVE FALSE
  <2>1. CASE Dial(d)
    <3>1. HandlerTo(d, "insert")
      BY <2>1 DEF Dial, HandlerTo
    <3>2. handler'[d].phase = "insert" /\ \A c \in Events \ {d} : handler'[c] = handler[c]
      BY <3>1, HandlerMoves
    <3> QED BY <1>1, <3>2
  <2>2. CASE ~ Dial(d)
    BY <1>1, <1>3, <2>2 DEF HookStep, DialRefused, AwaitClosed, AwaitLate, Recall, RecallFails,
                            Enqueue, EnqueueFails
  <2> QED BY <2>1, <2>2
<1>4. ASSUME NEW d \in Events, HandlerStep(d), ~ IngestEnd(e) PROVE FALSE
  <2>1. CASE Captures(d)
    <3>1. d = e
      BY <1>1, <2>1, CapturesTyped
    <3> QED BY <2>1, <3>1 DEF Captures, InsertEvent, PutFile, PutRow, PutFails, HandlerAt
  <2>2. CASE IngestLine(d)
    BY <1>1, <2>2, IngestTyped
  <2>3. CASE InsertFails(d) \/ IngestFails(d)
    <3>1. HandlerTo(d, "failed")
      BY <2>3 DEF InsertFails, IngestFails
    <3> QED BY <1>1, <3>1, HandlerMoves
  <2>4. CASE IngestEnd(d)
    <3>1. HandlerTo(d, "closed") /\ d # e
      BY <1>4, <2>4 DEF IngestEnd
    <3> QED BY <1>1, <3>1, HandlerMoves
  <2> QED BY <1>4, <2>1, <2>2, <2>3, <2>4 DEF HandlerStep, Captures
<1>5. ASSUME DaemonStep PROVE FALSE
  BY <1>1, <1>5 DEF DaemonStep, DaemonStops, DaemonCrashes, DaemonStarts, IdleHandler
<1>6. ~ UNCHANGED vars
  BY <1>1 DEF vars
<1> QED BY <1>2, <1>3, <1>4, <1>5, <1>6 DEF Next

\* The handler of a session's end that is through without an error has imported
\* every turn of the transcript as it is then (ingestTranscript).
THEOREM ImportCorrect == Spec => ImportComplete
<1>1. ASSUME TypeInv, ChainInv, [Next]_vars, NEW e \in Events,
             HandlerAt(e, "ingest"), handler'[e].phase = "closed"
      PROVE  {n \in DOMAIN file[hook[e].session] : file[hook[e].session][n] = "turn"}
               \subseteq TurnsOf(hook[e].session)
  <2>1. /\ hook[e].session \in Session /\ handler[e].next \in Nat /\ handler[e].phase = "ingest"
        /\ Before(hook[e].session, handler[e].next) \subseteq TurnsOf(hook[e].session)
    BY <1>1, ImportTyped DEF HandlerAt, ChainInv, ImportedTo
  <2>2. IngestEnd(e)
    BY <1>1, ImportEnds DEF HandlerAt
  <2>3. file[hook[e].session] \in Seq({"turn", "note"})
    BY <1>1, <2>1 DEF TypeInv, Typed
  <2>4. Len(file[hook[e].session]) \in Nat
        /\ DOMAIN file[hook[e].session] = 1 .. Len(file[hook[e].session])
    BY <2>3
  <2> QED BY <2>1, <2>2, <2>4 DEF IngestEnd, Before
<1>2. TypeInv /\ ChainInv /\ [Next]_vars =>
        [\A e \in Events :
           (HandlerAt(e, "ingest") /\ handler'[e].phase = "closed")
           => LET s == hook[e].session
              IN  {n \in DOMAIN file[s] : file[s][n] = "turn"} \subseteq TurnsOf(s)]_vars
  BY <1>1
<1> QED BY <1>2, TypeAlways, ChainAlways, PTL DEF Spec, ImportComplete

(* ----------------------- the prompt that is recalled -------------------- *)

Prompt(e) == hook[e].kind = "UserPromptSubmit"
PromptsOf(s) == {e \in HooksOf(s) : Prompt(e)}
Through(s) == \E e \in PromptsOf(s) : hook[e].phase = "gone"

\* A hook that goes on to the recall or is through has its event stored, and one
\* that waits has it stored or with a handler that is about to.
Answered(s) ==
  \A e \in HooksOf(s) :
    /\ hook[e].phase \in {"recall", "gone"} => e \in stored
    /\ hook[e].phase = "await" => e \in stored \/ handler[e].phase = "insert"
    /\ hook[e].phase = "recall" => Prompt(e)

\* Before its first prompt is through, a session has no other prompt, and no
\* event that only follows one.
Opening(s) ==
  /\ \A e \in HooksOf(s) : hook[e].kind \in {"SessionStart", "UserPromptSubmit"}
  /\ \A d, e \in PromptsOf(s) : d = e
  /\ agent[s] = "working" => PromptsOf(s) # {}

Undisturbed(s) ==
  /\ Answered(s)
  /\ Through(s) \/ Opening(s)
  /\ recalled[s] = IF Through(s) THEN 1 ELSE 0

RecallTyped ==
  /\ agent \in [Session -> {"off", "idle", "working"}]
  /\ recalled \in [Session -> Nat]
  /\ stored \subseteq Fired

\* Turns come from the import at a session's end.
TurnInv ==
  /\ \A e \in Events : handler[e].phase = "ingest" => hook[e].kind = "Stop"
  /\ \A s \in Session : TurnsOf(s) # {} => \E e \in HooksOf(s) : hook[e].kind = "Stop"

RecallInv ==
  /\ RecallTyped /\ TurnInv
  /\ \A s \in Session \ (disturbed \cup {Unknown}) : Undisturbed(s)

LEMMA RecallInit == Init => RecallInv
<1> SUFFICES ASSUME Init PROVE RecallInv
  OBVIOUS
<1>1. Fired = {} /\ \A s \in Session : HooksOf(s) = {}
  BY DEF Init, Fired, HooksOf
<1>2. RecallTyped
  BY DEF Init, RecallTyped
<1>3. TurnInv
  BY DEF Init, TurnInv, IdleHandler, TurnsOf
<1>4. ASSUME NEW s \in Session PROVE Undisturbed(s)
  <2>1. PromptsOf(s) = {} /\ agent[s] = "off" /\ recalled[s] = 0
    BY <1>1 DEF PromptsOf, Init
  <2> QED BY <1>1, <2>1 DEF Undisturbed, Answered, Opening, Through
<1> QED BY <1>2, <1>3, <1>4 DEF RecallInv

LEMMA TurnStays ==
  ASSUME TypeInv, ChainInv, TurnInv, [Next]_vars
  PROVE  TurnInv'
<1>1. Kept /\ (Quiet \/ \E e \in Events : IngestLine(e)) /\ TypeInv'
  BY NextSteps DEF Steps
<1>2. \A s \in Session : (\E e \in HooksOf(s) : hook[e].kind = "Stop")
                         => (\E e \in HooksOf(s) : hook[e].kind = "Stop")'
  BY <1>1 DEF HooksOf, Kept
<1>3. \A e \in Events : handler'[e].phase = "ingest" /\ handler'[e] = handler[e] => hook'[e].kind = "Stop"
  BY <1>1, ImportTyped DEF TurnInv, Kept
<1>4. CASE Quiet
  <2>1. \A e \in Events : handler'[e].phase = "ingest" => hook'[e].kind = "Stop"
    BY <1>1, <1>3, <1>4 DEF Quiet, Imports, Kept
  <2>2. \A s \in Session : TurnsOf(s)' = TurnsOf(s)
    BY <1>4 DEF Quiet, TurnsOf
  <2> QED BY <1>2, <2>1, <2>2 DEF TurnInv
<1>5. ASSUME NEW e \in Events, IngestLine(e) PROVE TurnInv'
  <2>1. /\ handler[e].phase = "ingest" /\ UNCHANGED hook
        /\ \A d \in Events \ {e} : handler'[d] = handler[d]
        /\ hook[e].session \in Session /\ handler[e].next \in Nat
    BY <1>5, IngestTyped
  <2>2. hook[e].kind = "Stop" /\ e \in HooksOf(hook[e].session)
    BY <2>1, ImportTyped DEF TurnInv, HooksOf
  <2>3. PICK s \in Session, n \in Nat, span \in {handler[e].prev} :
          s = hook[e].session /\ n = handler[e].next /\ span = handler[e].prev
    BY <2>1
  <2>4. \A t \in Session : \A m \in TurnsOf(t)' : m \in TurnsOf(t) \/ t = s
    BY <1>5, <2>3, LineStored
  <2>5. \A t \in Session : TurnsOf(t)' # {} => \E d \in HooksOf(t) : hook[d].kind = "Stop"
    BY <2>2, <2>3, <2>4 DEF TurnInv
  <2> QED BY <1>2, <2>1, <2>2, <2>5 DEF TurnInv
<1> QED BY <1>1, <1>4, <1>5

LEMMA RecallTypedStays ==
  ASSUME TypeInv, RecallTyped, [Next]_vars
  PROVE  RecallTyped'
<1>1. Kept
  BY NextSteps DEF Steps
<1>2. Fired \subseteq Fired'
  BY <1>1 DEF Kept
<1>3. stored' \subseteq Fired
  <2>1. CASE \E e \in Events : InsertEvent(e)
    BY <2>1 DEF InsertEvent, HandlerAt, RecallTyped, TypeInv, Working
  <2>2. CASE stored' = stored
    BY <2>2 DEF RecallTyped
  <2>3. (\E e \in Events : InsertEvent(e)) \/ stored' = stored
    BY DEF Next, vars, AgentStep, SessionStarts, Prompts, UsesTool, Stops, WritesLine, Fire, Synthesize,
           HookStep, DialRefused, Dial, AwaitClosed, AwaitLate, Recall, RecallFails, Enqueue, EnqueueFails,
           HandlerStep, InsertFails, PutFile, PutRow, PutFails, IngestLine, IngestEnd, IngestFails,
           DaemonStep, DaemonStops, DaemonCrashes, DaemonStarts
  <2> QED BY <2>1, <2>2, <2>3
<1>4. agent' \in [Session -> {"off", "idle", "working"}]
  <2>1. \/ agent' = agent
        \/ \E s \in Session : \E a \in {"idle", "working"} : agent' = [agent EXCEPT ![s] = a]
    BY DEF Next, vars, AgentStep, SessionStarts, Prompts, UsesTool, Stops, WritesLine, Synthesize,
           HookStep, DialRefused, Dial, AwaitClosed, AwaitLate, Recall, RecallFails, Enqueue, EnqueueFails,
           HandlerStep, InsertEvent, InsertFails, PutFile, PutRow, PutFails, IngestLine, IngestEnd,
           IngestFails, DaemonStep, DaemonStops, DaemonCrashes, DaemonStarts
  <2> QED BY <2>1 DEF RecallTyped
<1>5. recalled' \in [Session -> Nat]
  <2>1. \/ recalled' = recalled
        \/ \E e \in Events : Recall(e)
    BY DEF Next, vars, AgentStep, SessionStarts, Prompts, UsesTool, Stops, WritesLine, Fire, Synthesize,
           HookStep, DialRefused, Dial, AwaitClosed, AwaitLate, RecallFails, Enqueue, EnqueueFails,
           HandlerStep, InsertEvent, InsertFails, PutFile, PutRow, PutFails, IngestLine, IngestEnd,
           IngestFails, DaemonStep, DaemonStops, DaemonCrashes, DaemonStarts
  <2>2. ASSUME NEW e \in Events, Recall(e) PROVE recalled' \in [Session -> Nat]
    <3>1. recalled' = [recalled EXCEPT ![hook[e].session] =
                         IF IsFirstPrompt(hook[e].session) THEN @ + 1 ELSE @]
      BY <2>2 DEF Recall
    <3>2. CASE IsFirstPrompt(hook[e].session)
      <4>1. hook[e].session \in Session
        BY <2>2 DEF Recall, HookAt, Fired, TypeInv, Working
      <4>2. recalled[hook[e].session] + 1 \in Nat
        BY <4>1 DEF RecallTyped
      <4>3. recalled' = [recalled EXCEPT ![hook[e].session] = recalled[hook[e].session] + 1]
        BY <3>1, <3>2, <4>1 DEF RecallTyped
      <4> QED BY <4>2, <4>3 DEF RecallTyped
    <3>3. CASE ~ IsFirstPrompt(hook[e].session)
      BY <3>1, <3>3 DEF RecallTyped
    <3> QED BY <3>2, <3>3
  <2>3. CASE recalled' = recalled
    BY <2>3 DEF RecallTyped
  <2> QED BY <2>1, <2>2, <2>3
<1> QED BY <1>2, <1>3, <1>4, <1>5 DEF RecallTyped

\* A step of something else: the session's hooks, its agent and what was recalled
\* stay, and its events come into the table or stay with their handlers.
LEMMA OthersStep ==
  ASSUME TypeInv, NEW s \in Session, Undisturbed(s),
         HooksOf(s)' = HooksOf(s),
         \A e \in HooksOf(s) : hook'[e] = hook[e],
         agent'[s] = agent[s], recalled'[s] = recalled[s], stored \subseteq stored',
         \A e \in HooksOf(s) : handler[e].phase = "insert" => handler'[e].phase = "insert" \/ e \in stored'
  PROVE  Undisturbed(s)'
<1>1. PromptsOf(s)' = PromptsOf(s)
  BY DEF PromptsOf, Prompt
<1>2. Through(s)' <=> Through(s)
  BY <1>1 DEF Through, PromptsOf
<1>3. Answered(s)'
  BY DEF Undisturbed, Answered, Prompt
<1>4. Opening(s) => Opening(s)'
  BY <1>1 DEF Opening
<1> QED BY <1>2, <1>3, <1>4 DEF Undisturbed

\* The recall finds a first prompt exactly when no prompt is through.
LEMMA FirstPrompt ==
  ASSUME TypeInv, RecallTyped, TurnInv, NEW s \in Session \ {Unknown}, Undisturbed(s),
         NEW e \in HooksOf(s), hook[e].phase = "recall"
  PROVE  IsFirstPrompt(s) <=> ~ Through(s)
<1> DEFINE Asked == {d \in StoredOf(s) : hook[d].kind = "UserPromptSubmit"}
<1>1. StoredOf(s) \subseteq HooksOf(s) /\ Asked \subseteq PromptsOf(s)
  BY DEF StoredOf, HooksOf, PromptsOf, Prompt, RecallTyped
<1>2. e \in Asked /\ e \in PromptsOf(s)
  BY DEF Undisturbed, Answered, StoredOf, PromptsOf, Prompt, HooksOf
<1>3. IsFiniteSet(Asked)
  BY <1>1, FS_Interval, FS_Subset, Bounds DEF HooksOf, Fired
<1>4. ASSUME ~ Through(s) PROVE IsFirstPrompt(s)
  <2>1. Opening(s)
    BY <1>4 DEF Undisturbed
  <2>2. \A d \in StoredOf(s) : hook[d].kind \in {"SessionStart", "UserPromptSubmit"}
    BY <1>1, <2>1 DEF Opening
  <2>3. TurnsOf(s) = {}
    BY <2>1 DEF Opening, TurnInv
  <2>4. Asked = {e}
    BY <1>1, <1>2, <2>1 DEF Opening
  <2>5. Cardinality(Asked) <= 1
    <3>1. Cardinality({e}) = 1
      BY FS_Singleton
    <3> HIDE DEF Asked
    <3> QED BY <2>4, <3>1
  <2> QED BY <2>2, <2>3, <2>5 DEF IsFirstPrompt
<1>5. ASSUME Through(s) PROVE ~ IsFirstPrompt(s)
  <2>1. PICK d \in PromptsOf(s) : hook[d].phase = "gone"
    BY <1>5 DEF Through
  <2>2. d \in Asked /\ d # e
    BY <2>1 DEF PromptsOf, Prompt, Undisturbed, Answered, StoredOf, HooksOf
  <2>3. IsFiniteSet({e}) /\ Cardinality({e}) = 1
    BY FS_Singleton
  <2>4. IsFiniteSet({e} \cup {d}) /\ Cardinality({e} \cup {d}) = 2
    <3>1. d \notin {e}
      BY <2>2
    <3>2. Cardinality({e} \cup {d}) = Cardinality({e}) + 1 /\ IsFiniteSet({e} \cup {d})
      BY <2>3, <3>1, FS_AddElement
    <3> QED BY <2>3, <3>2
  <2>5. {e} \cup {d} \subseteq Asked
    BY <1>2, <2>2
  <2> HIDE DEF Asked
  <2>6. Cardinality({e} \cup {d}) <= Cardinality(Asked)
    BY <1>3, <2>5, FS_Subset
  <2>7. Cardinality(Asked) \in Nat
    BY <1>3, FS_CardinalityType
  <2>8. ~ (Cardinality(Asked) <= 1)
    BY <2>4, <2>6, <2>7
  <2> USE DEF Asked
  <2> QED BY <2>8 DEF IsFirstPrompt
<1> QED BY <1>4, <1>5

\* An event that fires is filtered out, or gets a hook of its own.
LEMMA FireMoves ==
  ASSUME TypeInv, NEW s \in Session, NEW kind, Fire(s, kind)
  PROVE  \/ UNCHANGED hook /\ (kind = "UserPromptSubmit" => s \in disturbed')
         \/ \E e \in Events \ Fired :
              /\ hook'[e] = [kind |-> kind, session |-> s, phase |-> "send"]
              /\ \A d \in Fired : hook'[d] = hook[d]
              /\ Fired' = Fired \cup {e}
<1>1. CASE UNCHANGED hook /\ (kind = "UserPromptSubmit" => s \in disturbed')
  BY <1>1
<1>2. CASE hook' = [hook EXCEPT ![Cardinality(Fired) + 1] = [kind |-> kind, session |-> s, phase |-> "send"]]
  <2>1. PICK k \in 0 .. MaxEvents : Fired = 1 .. k
    BY DEF TypeInv, Working
  <2>2. Cardinality(Fired) = k
    BY <2>1, FS_Interval, Bounds
  <2> DEFINE row == [kind |-> kind, session |-> s, phase |-> "send"]
  <2>3. k + 1 \in Events /\ k + 1 \notin Fired
    BY <2>1, <2>2, Bounds DEF Fire
  <2>4. row.phase = "send" /\ hook' = [hook EXCEPT ![k + 1] = row]
    BY <1>2, <2>2
  <2> HIDE DEF row
  <2>5. hook'[k + 1] = row /\ \A e \in Events \ {k + 1} : hook'[e] = hook[e]
    BY <2>3, <2>4 DEF TypeInv, Typed
  <2>6. Fired' = Fired \cup {k + 1} /\ \A d \in Fired : hook'[d] = hook[d]
    BY <2>3, <2>4, <2>5 DEF Fired
  <2> QED BY <2>3, <2>5, <2>6 DEF row
<1> QED BY <1>1, <1>2 DEF Fire

\* The agent waits for a session's hooks before its next prompt and before its
\* end, and for the prompt's hook before it uses a tool.
LEMMA AgentRecall ==
  ASSUME TypeInv, RecallTyped, NEW s \in Session, Undisturbed(s), s \notin disturbed',
         NEW t \in Session, AgentStep(t)
  PROVE  Undisturbed(s)'
<1>1. CASE WritesLine(t)
  <2>1. UNCHANGED <<hook, handler, agent, recalled, stored>>
    BY <1>1 DEF WritesLine
  <2> QED BY <2>1, OthersStep DEF HooksOf, Fired
<1>2. ASSUME NEW kind, Fire(t, kind),
             \A r \in Session \ {t} : agent'[r] = agent[r],
             kind = "UserPromptSubmit" => Running(t) = {},
             kind \notin {"SessionStart", "UserPromptSubmit"} =>
               agent[t] = "working" /\ \A e \in Running(t) : hook[e].kind \in ToolUse,
             agent'[t] = "working" => agent[t] = "working" \/ kind = "UserPromptSubmit"
      PROVE  Undisturbed(s)'
  <2>1. UNCHANGED <<handler, recalled, stored>>
    BY <1>2 DEF Fire
  <2>2. CASE UNCHANGED hook /\ (kind = "UserPromptSubmit" => t \in disturbed')
    <3>1. HooksOf(s)' = HooksOf(s) /\ PromptsOf(s)' = PromptsOf(s) /\ (Through(s)' <=> Through(s))
      BY <2>2 DEF HooksOf, Fired, PromptsOf, Prompt, Through
    <3>2. Answered(s)'
      BY <2>1, <2>2, <3>1 DEF Undisturbed, Answered, Prompt
    <3>3. agent'[s] = "working" => agent[s] = "working"
      BY <1>2, <2>2
    <3>4. Opening(s) => Opening(s)'
      BY <2>2, <3>1, <3>3 DEF Opening
    <3> QED BY <2>1, <3>1, <3>2, <3>4 DEF Undisturbed
  <2>3. ASSUME NEW e \in Events \ Fired,
               hook'[e] = [kind |-> kind, session |-> t, phase |-> "send"],
               \A d \in Fired : hook'[d] = hook[d],
               Fired' = Fired \cup {e}
        PROVE  Undisturbed(s)'
    <3>1. CASE t # s
      <4>1. HooksOf(s)' = HooksOf(s) /\ \A d \in HooksOf(s) : hook'[d] = hook[d]
        BY <2>3, <3>1 DEF HooksOf
      <4> QED BY <1>2, <2>1, <3>1, <4>1, OthersStep
    <3>2. CASE t = s
      <4>1. /\ HooksOf(s)' = HooksOf(s) \cup {e} /\ e \notin HooksOf(s)
            /\ \A d \in HooksOf(s) : hook'[d] = hook[d]
            /\ hook'[e].phase = "send" /\ hook'[e].kind = kind
        BY <2>3, <3>2 DEF HooksOf
      <4>2. PromptsOf(s)' = PromptsOf(s) \cup {d \in {e} : kind = "UserPromptSubmit"}
        BY <4>1 DEF PromptsOf, Prompt
      <4>3. Through(s)' <=> Through(s)
        BY <4>1, <4>2 DEF Through, PromptsOf
      <4>4. Answered(s)'
        BY <2>1, <4>1 DEF Undisturbed, Answered, Prompt
      <4>5. ASSUME ~ Through(s), Opening(s) PROVE Opening(s)'
        <5>1. PromptsOf(s) \subseteq Running(s)
          BY <4>5 DEF Through, PromptsOf, Running
        <5>2. kind \in {"SessionStart", "UserPromptSubmit"}
          <6>1. ASSUME kind \notin {"SessionStart", "UserPromptSubmit"} PROVE FALSE
            <7>1. PICK d \in PromptsOf(s) : TRUE
              BY <1>2, <3>2, <4>5, <6>1 DEF Opening
            <7>2. hook[d].kind = "UserPromptSubmit" /\ hook[d].kind \in ToolUse
              BY <1>2, <3>2, <5>1, <6>1, <7>1 DEF PromptsOf, Prompt
            <7> QED BY <7>2 DEF ToolUse
          <6> QED BY <6>1
        <5>3. CASE kind = "UserPromptSubmit"
          <6>1. PromptsOf(s)' = {e}
            BY <1>2, <3>2, <4>2, <5>1, <5>3
          <6> QED BY <4>1, <4>5, <5>3, <6>1 DEF Opening
        <5>4. CASE kind = "SessionStart"
          <6>1. PromptsOf(s)' = PromptsOf(s) /\ (agent'[s] = "working" => agent[s] = "working")
            BY <1>2, <3>2, <4>2, <5>4
          <6> QED BY <4>1, <4>5, <5>4, <6>1 DEF Opening
        <5> QED BY <5>2, <5>3, <5>4
      <4> QED BY <2>1, <4>3, <4>4, <4>5 DEF Undisturbed
    <3> QED BY <3>1, <3>2
  <2> QED BY <1>2, <2>2, <2>3, FireMoves
<1>3. CASE SessionStarts(t)
  <2>1. agent' = [agent EXCEPT ![t] = "idle"] /\ Fire(t, "SessionStart")
    BY <1>3 DEF SessionStarts
  <2> QED BY <1>2, <2>1 DEF RecallTyped
<1>4. CASE Prompts(t)
  <2>1. /\ agent' = [agent EXCEPT ![t] = "working"] /\ Fire(t, "UserPromptSubmit")
        /\ Running(t) = {}
    BY <1>4 DEF Prompts
  <2> QED BY <1>2, <2>1 DEF RecallTyped
<1>5. CASE UsesTool(t)
  <2>1. PICK kind \in ToolUse : Fire(t, kind)
    BY <1>5 DEF UsesTool
  <2>2. /\ UNCHANGED agent /\ agent[t] = "working" /\ kind # "UserPromptSubmit"
        /\ \A e \in Running(t) : hook[e].kind \in ToolUse
    BY <1>5, <2>1 DEF UsesTool, ToolUse
  <2> QED BY <1>2, <2>1, <2>2
<1>6. CASE Stops(t)
  <2>1. /\ agent' = [agent EXCEPT ![t] = "idle"] /\ Fire(t, "Stop")
        /\ agent[t] = "working" /\ Running(t) = {}
    BY <1>6 DEF Stops
  <2> QED BY <1>2, <2>1 DEF RecallTyped
<1> QED BY <1>1, <1>3, <1>4, <1>5, <1>6 DEF AgentStep

\* A hook goes on to the recall with its event stored, unless it gave up.
LEMMA HookRecall ==
  ASSUME TypeInv, RecallTyped, TurnInv, NEW s \in Session \ {Unknown}, Undisturbed(s), s \notin disturbed',
         NEW e \in Events, HookStep(e)
  PROVE  Undisturbed(s)'
<1>1. e \in Fired /\ UNCHANGED <<agent, stored>>
  BY DEF HookStep, DialRefused, Dial, AwaitClosed, AwaitLate, Recall, RecallFails, HookAt,
         Enqueue, EnqueueFails, Fired
<1>2. PICK phase \in {"await", "recall", "gone"} : HookTo(e, phase)
  BY DEF HookStep, DialRefused, Dial, AwaitClosed, AwaitLate, Recall, RecallFails,
         Enqueue, EnqueueFails
<1>3. /\ hook' \in [Events -> HookRow] /\ Fired' = Fired /\ Kept
      /\ hook'[e].phase = phase /\ \A d \in Events \ {e} : hook'[d] = hook[d]
  BY <1>1, <1>2, HookMoves
<1>4. HooksOf(s)' = HooksOf(s) /\ PromptsOf(s)' = PromptsOf(s)
  BY <1>3 DEF HooksOf, PromptsOf, Prompt, Kept
<1>5. Opening(s) => Opening(s)'
  BY <1>1, <1>3, <1>4 DEF Opening, Kept, HooksOf
<1>6. ~ Dial(e) => handler' = handler
  BY DEF HookStep, DialRefused, AwaitClosed, AwaitLate, Recall, RecallFails, Enqueue, EnqueueFails
<1>7. CASE hook[e].session # s
  <2>1. e \notin HooksOf(s)
    BY <1>7 DEF HooksOf
  <2>2. \A d \in HooksOf(s) : hook'[d] = hook[d] /\ d \in Events \ {e}
    BY <1>3, <2>1 DEF HooksOf, Fired
  <2>3. recalled'[s] = recalled[s]
    BY <1>7 DEF HookStep, DialRefused, Dial, AwaitClosed, AwaitLate, Recall, RecallFails,
                Enqueue, EnqueueFails, RecallTyped
  <2>4. \A d \in HooksOf(s) : handler'[d] = handler[d]
    BY <1>6, <2>2, HandlerMoves DEF Dial, TypeInv, Typed
  <2> QED BY <1>1, <1>4, <2>2, <2>3, <2>4, OthersStep
<1>8. CASE hook[e].session = s
  <2>1. e \in HooksOf(s) /\ \A d \in HooksOf(s) \ {e} : hook'[d] = hook[d] /\ d \in Events \ {e}
    BY <1>1, <1>3, <1>8 DEF HooksOf, Fired
  <2>2. hook'[e].kind = hook[e].kind
    BY <1>1, <1>3 DEF Kept
  <2>3. CASE Dial(e)
    <3>1. HookTo(e, "await") /\ HandlerTo(e, "insert") /\ UNCHANGED recalled /\ hook[e].phase = "send"
      BY <2>3 DEF Dial, HookAt, HandlerTo
    <3>2. hook'[e].phase = "await"
      BY <1>1, <3>1, HookMoves
    <3>3. handler'[e].phase = "insert" /\ \A d \in Events \ {e} : handler'[d] = handler[d]
      BY <3>1, HandlerMoves
    <3>4. Through(s)' <=> Through(s)
      BY <1>4, <2>1, <3>1, <3>2 DEF Through, PromptsOf
    <3>5. Answered(s)'
      BY <1>1, <1>4, <2>1, <3>2, <3>3 DEF Undisturbed, Answered, Prompt
    <3> QED BY <1>5, <3>1, <3>4, <3>5 DEF Undisturbed
  <2>4. CASE AwaitClosed(e)
    <3>1. /\ HookTo(e, IF Prompt(e) THEN "recall" ELSE "gone") /\ UNCHANGED <<recalled, handler>>
          /\ hook[e].phase = "await" /\ ~ Active(e)
      BY <2>4 DEF AwaitClosed, HookAt, Enqueue, EnqueueFails, Prompt
    <3>2. hook'[e].phase = IF Prompt(e) THEN "recall" ELSE "gone"
      <4>1. CASE Prompt(e)
        BY <1>1, <3>1, <4>1, HookMoves
      <4>2. CASE ~ Prompt(e)
        BY <1>1, <3>1, <4>2, HookMoves
      <4> QED BY <4>1, <4>2
    <3>3. e \in stored
      BY <2>1, <3>1 DEF Undisturbed, Answered, Active
    <3>4. Through(s)' <=> Through(s)
      BY <1>4, <2>1, <3>1, <3>2 DEF Through, PromptsOf
    <3>5. Answered(s)'
      BY <1>1, <1>4, <2>1, <2>2, <3>1, <3>2, <3>3 DEF Undisturbed, Answered, Prompt
    <3> QED BY <1>5, <3>1, <3>4, <3>5 DEF Undisturbed
  <2>5. CASE Recall(e)
    <3>1. /\ HookTo(e, "gone") /\ UNCHANGED handler /\ hook[e].phase = "recall"
          /\ recalled' = [recalled EXCEPT ![s] = IF IsFirstPrompt(s) THEN @ + 1 ELSE @]
      BY <1>8, <2>5 DEF Recall, HookAt
    <3>2. hook'[e].phase = "gone"
      BY <1>1, <3>1, HookMoves
    <3>3. e \in stored /\ e \in PromptsOf(s)
      BY <2>1, <3>1 DEF Undisturbed, Answered, PromptsOf
    <3>4. Through(s)'
      BY <1>4, <3>2, <3>3 DEF Through
    <3>5. IsFirstPrompt(s) <=> ~ Through(s)
      BY <2>1, <3>1, FirstPrompt
    <3>6. recalled'[s] = 1
      <4>1. CASE IsFirstPrompt(s)
        BY <3>1, <3>5, <4>1 DEF RecallTyped, Undisturbed
      <4>2. CASE ~ IsFirstPrompt(s)
        BY <3>1, <3>5, <4>2 DEF RecallTyped, Undisturbed
      <4> QED BY <4>1, <4>2
    <3>7. Answered(s)'
      BY <1>1, <1>4, <2>1, <3>1, <3>2, <3>3 DEF Undisturbed, Answered, Prompt
    <3> QED BY <3>4, <3>6, <3>7 DEF Undisturbed
  <2>6. CASE DialRefused(e) \/ AwaitLate(e) \/ RecallFails(e)
    BY <1>8, <2>6 DEF DialRefused, AwaitLate, RecallFails
  <2> QED BY <2>3, <2>4, <2>5, <2>6 DEF HookStep
<1> QED BY <1>7, <1>8

\* A handler stores its event, or the session has failed or died with it.
LEMMA HandlerRecall ==
  ASSUME TypeInv, NEW s \in Session, Undisturbed(s), s \notin disturbed',
         NEW e \in Events, HandlerStep(e)
  PROVE  Undisturbed(s)'
<1>1. UNCHANGED <<hook, agent, recalled>>
  BY DEF HandlerStep, InsertEvent, InsertFails, PutFile, PutRow, PutFails, IngestLine, IngestEnd,
         IngestFails
<1>2. stored \subseteq stored'
  BY DEF HandlerStep, InsertEvent, InsertFails, PutFile, PutRow, PutFails, IngestLine, IngestEnd,
         IngestFails
<1>3. HooksOf(s)' = HooksOf(s) /\ \A d \in HooksOf(s) : d \in Events
  BY <1>1 DEF HooksOf, Fired
<1>4. \A d \in Events \ {e} : handler'[d] = handler[d]
  <2>1. CASE InsertFails(e) \/ IngestEnd(e) \/ IngestFails(e)
    <3>1. PICK phase \in {"closed", "failed"} : HandlerTo(e, phase)
      BY <2>1 DEF InsertFails, IngestEnd, IngestFails
    <3> QED BY <3>1, HandlerMoves
  <2> QED BY <2>1, CapturesTyped, IngestTyped DEF HandlerStep, Captures
<1>5. e \in HooksOf(s) /\ handler[e].phase = "insert" => e \in stored'
  BY DEF HandlerStep, InsertEvent, InsertFails, PutFile, PutRow, PutFails, IngestLine, IngestEnd,
         IngestFails, HandlerAt, HooksOf
<1> QED BY <1>1, <1>2, <1>3, <1>4, <1>5, OthersStep

LEMMA RecallStays ==
  ASSUME TypeInv, ChainInv, RecallInv, [Next]_vars
  PROVE  RecallInv'
<1>1. RecallTyped' /\ TurnInv'
  BY RecallTypedStays, TurnStays DEF RecallInv
<1>2. ASSUME NEW s \in Session \ (disturbed' \cup {Unknown}) PROVE Undisturbed(s)'
  <2>1. disturbed \subseteq disturbed'
    BY DEF Next, vars, AgentStep, SessionStarts, Prompts, UsesTool, Stops, WritesLine, Fire, Synthesize,
           HookStep, DialRefused, Dial, AwaitClosed, AwaitLate, Recall, RecallFails, Enqueue, EnqueueFails,
           HandlerStep, InsertEvent, InsertFails, PutFile, PutRow, PutFails, IngestLine, IngestEnd,
           IngestFails, DaemonStep, DaemonStops, DaemonCrashes, DaemonStarts
  <2>2. s \in Session \ {Unknown} /\ Undisturbed(s) /\ s \notin disturbed' /\ RecallTyped /\ TurnInv
    BY <1>2, <2>1 DEF RecallInv
  <2>3. ASSUME UNCHANGED <<hook, agent, recalled, stored>>,
               \A e \in HooksOf(s) : handler[e].phase = "insert" => handler'[e].phase = "insert"
        PROVE  Undisturbed(s)'
    <3>1. HooksOf(s)' = HooksOf(s)
      BY <2>3 DEF HooksOf, Fired
    <3> QED BY <2>2, <2>3, <3>1, OthersStep
  <2>4. CASE DaemonCrashes
    <3>1. /\ UNCHANGED <<hook, agent, recalled, stored>>
          /\ disturbed' = disturbed \cup {hook[e].session : e \in Handling}
      BY <2>4 DEF DaemonCrashes
    <3>2. \A e \in HooksOf(s) : handler[e].phase # "insert"
      BY <2>2, <3>1 DEF Handling, Active, HooksOf, Fired
    <3> QED BY <2>3, <3>1, <3>2
  <2>5. CASE DaemonStops \/ DaemonStarts \/ UNCHANGED vars \/ \E t \in Session : Synthesize(t)
    BY <2>3, <2>5 DEF DaemonStops, DaemonStarts, vars, Synthesize
  <2>6. ASSUME NEW t \in Session, AgentStep(t) PROVE Undisturbed(s)'
    BY <2>2, <2>6, AgentRecall
  <2>7. ASSUME NEW e \in Events, HookStep(e) \/ HandlerStep(e) PROVE Undisturbed(s)'
    BY <2>2, <2>7, HookRecall, HandlerRecall
  <2> QED BY <2>4, <2>5, <2>6, <2>7 DEF Next, DaemonStep
<1> QED BY <1>1, <1>2 DEF RecallInv

\* As long as the daemon answers a session's hooks in time and nothing fails,
\* context goes into exactly one of its prompts, the first: the prompt's own event
\* is stored when its hook asks, and no later prompt is taken for the first one
\* (isFirstPromptOfSession, handleSessionRecall).
THEOREM RecalledCorrect == Spec => []RecalledOnce
<1>1. RecallInv => RecalledOnce
  BY DEF RecallInv, Undisturbed, Through, PromptsOf, Prompt, RecalledOnce
<1> QED BY <1>1, RecallInit, RecallStays, TypeAlways, ChainAlways, PTL DEF Spec

(* --------------------- the evidence and its files ----------------------- *)

\* What a handler is about to index has its file.
HeldInv ==
  /\ rows \subseteq files
  /\ \A e \in Events : handler[e].phase = "row" => handler[e].held \subseteq files

\* Only a handler that has just written the file goes on to the row.
LEMMA RowAfterFile ==
  ASSUME TypeInv, [Next]_vars, NEW e \in Events, handler'[e].phase = "row"
  PROVE  handler'[e] = handler[e] \/ (PutFile(e) /\ handler'[e].held \subseteq files')
<1> SUFFICES ASSUME handler'[e] # handler[e] PROVE PutFile(e) /\ handler'[e].held \subseteq files'
  OBVIOUS
<1>1. ASSUME NEW s \in Session, AgentStep(s) \/ Synthesize(s) PROVE FALSE
  BY <1>1 DEF AgentStep, SessionStarts, Prompts, UsesTool, Stops, WritesLine, Fire, Synthesize
<1>2. ASSUME NEW d \in Events, HookStep(d) PROVE FALSE
  <2>1. CASE Dial(d)
    <3>1. HandlerTo(d, "insert")
      BY <2>1 DEF Dial, HandlerTo
    <3>2. handler'[d].phase = "insert" /\ \A c \in Events \ {d} : handler'[c] = handler[c]
      BY <3>1, HandlerMoves
    <3> QED BY <3>2
  <2>2. CASE ~ Dial(d)
    BY <1>2, <2>2 DEF HookStep, DialRefused, AwaitClosed, AwaitLate, Recall, RecallFails,
                      Enqueue, EnqueueFails
  <2> QED BY <2>1, <2>2
<1>3. ASSUME NEW d \in Events, HandlerStep(d) PROVE PutFile(e) /\ handler'[e].held \subseteq files'
  <2>1. CASE InsertFails(d) \/ IngestEnd(d) \/ IngestFails(d)
    <3>1. PICK phase \in {"closed", "failed"} : HandlerTo(d, phase)
      BY <2>1 DEF InsertFails, IngestEnd, IngestFails
    <3> QED BY <3>1, HandlerMoves
  <2>2. CASE IngestLine(d)
    BY <2>2, IngestTyped
  <2>3. CASE Captures(d)
    <3>1. d = e
      BY <2>3, CapturesTyped
    <3>2. handler[e] \in HandlerRow /\ handler[e].todo \in Seq(Piece)
      BY DEF TypeInv, Typed, HandlerRow
    <3>3. ASSUME NEW todo \in Seq(Piece), Continue(e, todo) PROVE FALSE
      BY <3>3, ContinueTyped
    <3>4. ~ InsertEvent(e)
      BY <3>3, EvidenceTyped DEF InsertEvent
    <3>5. handler[e].phase \in {"evidence", "row"} => Tail(handler[e].todo) \in Seq(Piece)
      BY <3>2 DEF TypeInv, Working
    <3>6. ~ PutRow(e) /\ ~ PutFails(e)
      BY <3>3, <3>5 DEF PutRow, PutFails, HandlerAt
    <3>7. PutFile(e)
      BY <2>3, <3>1, <3>4, <3>6 DEF Captures
    <3> DEFINE c == <<Head(handler[e].todo), e>>
    <3>8. handler' = [handler EXCEPT ![e].phase = "row", ![e].held = {c}] /\ files' = files \cup {c}
      BY <3>3, <3>5, <3>7 DEF PutFile, HandlerAt
    <3> HIDE DEF c
    <3>9. handler'[e].held = {c}
      BY <3>2, <3>8 DEF TypeInv, Typed, HandlerRow
    <3> QED BY <3>7, <3>8, <3>9
  <2> QED BY <1>3, <2>1, <2>2, <2>3 DEF HandlerStep, Captures
<1>4. ASSUME DaemonStep PROVE FALSE
  BY <1>4 DEF DaemonStep, DaemonStops, DaemonCrashes, DaemonStarts, IdleHandler
<1>5. ~ UNCHANGED vars
  BY DEF vars
<1> QED BY <1>1, <1>2, <1>3, <1>4, <1>5 DEF Next

LEMMA HeldStays ==
  ASSUME TypeInv, HeldInv, [Next]_vars
  PROVE  HeldInv'
<1>1. files \subseteq files'
  BY DEF Next, vars, AgentStep, SessionStarts, Prompts, UsesTool, Stops, WritesLine, Fire, Synthesize,
         HookStep, DialRefused, Dial, AwaitClosed, AwaitLate, Recall, RecallFails, Enqueue, EnqueueFails,
         HandlerStep, InsertEvent, InsertFails, PutFile, PutRow, PutFails, IngestLine, IngestEnd,
         IngestFails, DaemonStep, DaemonStops, DaemonCrashes, DaemonStarts
<1>2. rows' = rows \/ \E e \in Events : handler[e].phase = "row" /\ rows' = rows \cup handler[e].held
  BY DEF Next, vars, AgentStep, SessionStarts, Prompts, UsesTool, Stops, WritesLine, Fire, Synthesize,
         HookStep, DialRefused, Dial, AwaitClosed, AwaitLate, Recall, RecallFails, Enqueue, EnqueueFails,
         HandlerStep, InsertEvent, InsertFails, PutFile, PutRow, PutFails, IngestLine, IngestEnd,
         IngestFails, DaemonStep, DaemonStops, DaemonCrashes, DaemonStarts, HandlerAt
<1>3. rows' \subseteq files'
  BY <1>1, <1>2 DEF HeldInv
<1>4. \A e \in Events : handler'[e].phase = "row" => handler'[e].held \subseteq files'
  BY <1>1, RowAfterFile DEF HeldInv
<1> QED BY <1>3, <1>4 DEF HeldInv

LEMMA HeldAlways == Spec => []HeldInv
<1>1. Init => HeldInv
  BY DEF Init, HeldInv, IdleHandler
<1> QED BY <1>1, HeldStays, TypeAlways, PTL DEF Spec

\* Every row of evaluation_artifacts names a file that exists, wherever the daemon
\* died between the file and the row (Put, InsertEvaluationArtifact).
THEOREM EvidenceCorrect == Spec => []EvidenceHasFile
<1>1. HeldInv => EvidenceHasFile
  BY DEF HeldInv, EvidenceHasFile
<1> QED BY <1>1, HeldAlways, PTL

(* --------------------------- all the types ------------------------------ *)

SynthRow == [phase : {"none", "spawned", "done"}, saw : BOOLEAN]
GoneOf(s) == {e \in HooksOf(s) : hook[e].phase = "gone"}

\* Context goes into a prompt at most once, when its hook is done.
Bounded ==
  /\ outbox \subseteq Events /\ unqueued \subseteq Events
  /\ daemon \in {"up", "down"}
  /\ files \subseteq Content
  /\ synth \in [Session -> SynthRow]
  /\ mishaps \in 0 .. MaxMishaps
  /\ disturbed \subseteq Session
  /\ \A s \in Session : recalled[s] <= Cardinality(GoneOf(s))

LEMMA BoundedInit == Init => Bounded
<1> SUFFICES ASSUME Init PROVE Bounded
  OBVIOUS
<1>1. \A s \in Session : GoneOf(s) = {}
  BY DEF Init, GoneOf, HooksOf, Fired
<1>2. \A s \in Session : Cardinality(GoneOf(s)) = 0 /\ recalled[s] = 0
  BY <1>1, FS_EmptySet DEF Init
<1>3. 0 \in 0 .. MaxMishaps
  BY DeliveryAssumption
<1> QED BY <1>2, <1>3 DEF Init, Bounded, SynthRow

\* A hook that fired is of a session.
LEMMA SessionTyped ==
  ASSUME TypeInv, NEW e \in Events, hook[e].phase # "none" \/ handler[e].phase # "none"
  PROVE  hook[e].session \in Session
BY DEF TypeInv, Working, Fired

LEMMA SynthTyped ==
  ASSUME TypeInv, Bounded, [Next]_vars
  PROVE  synth' \in [Session -> SynthRow]
<1>1. ASSUME NEW s \in Session, NEW kind, Fire(s, kind) PROVE synth' \in [Session -> SynthRow]
  <2> DEFINE spawns == IsSessionEnd(kind) /\ s # Unknown /\ synth[s].phase = "none"
             row == [synth[s] EXCEPT !.phase = "spawned"]
  <2>1. synth[s] \in SynthRow /\ row \in SynthRow
    BY DEF Bounded, SynthRow
  <2>2. synth' = synth \/ synth' = [synth EXCEPT ![s].phase = IF spawns THEN "spawned" ELSE @]
    BY <1>1 DEF Fire
  <2> HIDE DEF spawns
  <2>3. CASE spawns /\ synth' # synth
    <3>1. synth' = [synth EXCEPT ![s] = row]
      BY <2>2, <2>3 DEF Bounded
    <3> HIDE DEF row
    <3> QED BY <2>1, <3>1 DEF Bounded
  <2>4. CASE ~ spawns /\ synth' # synth
    <3>1. synth' = [synth EXCEPT ![s].phase = @]
      BY <2>2, <2>4
    <3> QED BY <3>1 DEF Bounded, SynthRow
  <2> QED BY <2>3, <2>4 DEF Bounded
<1>2. ASSUME NEW s \in Session, Synthesize(s) PROVE synth' \in [Session -> SynthRow]
  <2> DEFINE saw == \E e \in StoredOf(s) : IsSessionEnd(hook[e].kind)
             none == [synth[s] EXCEPT !.phase = "none"]
             done == [phase |-> "done", saw |-> saw]
  <2>1. saw \in BOOLEAN
    OBVIOUS
  <2>2. \/ synth' = [synth EXCEPT ![s] = none]
        \/ synth' = [synth EXCEPT ![s] = done]
    BY <1>2 DEF Synthesize, Bounded
  <2> HIDE DEF saw
  <2>3. none \in SynthRow /\ done \in SynthRow
    BY <2>1 DEF Bounded, SynthRow
  <2> HIDE DEF none, done
  <2> QED BY <2>2, <2>3 DEF Bounded
<1>3. \/ synth' = synth
      \/ \E s \in Session : Synthesize(s) \/ \E kind : Fire(s, kind)
  BY DEF Next, vars, AgentStep, SessionStarts, Prompts, UsesTool, Stops, WritesLine,
         HookStep, DialRefused, Dial, AwaitClosed, AwaitLate, Recall, RecallFails, Enqueue, EnqueueFails,
         HandlerStep, InsertEvent, InsertFails, PutFile, PutRow, PutFails, IngestLine, IngestEnd,
         IngestFails, DaemonStep, DaemonStops, DaemonCrashes, DaemonStarts
<1> QED BY <1>1, <1>2, <1>3 DEF Bounded

LEMMA FilesTyped ==
  ASSUME TypeInv, Bounded, [Next]_vars
  PROVE  files' \subseteq Content
<1>1. ASSUME NEW e \in Events, PutFile(e) PROVE files' \subseteq Content
  <2>1. handler[e].todo \in Seq(Piece) /\ handler[e].todo # <<>>
    BY <1>1 DEF PutFile, HandlerAt, TypeInv, Typed, Working, HandlerRow
  <2>2. Head(handler[e].todo) \in Piece
    BY <2>1
  <2>3. <<Head(handler[e].todo), e>> \in Content
    BY <2>2 DEF Content, Piece
  <2>4. files' = files \/ files' = files \cup {<<Head(handler[e].todo), e>>}
    BY <1>1 DEF PutFile
  <2> QED BY <2>3, <2>4 DEF Bounded
<1>2. files' = files \/ \E e \in Events : PutFile(e)
  BY DEF Next, vars, AgentStep, SessionStarts, Prompts, UsesTool, Stops, WritesLine, Fire, Synthesize,
         HookStep, DialRefused, Dial, AwaitClosed, AwaitLate, Recall, RecallFails, Enqueue, EnqueueFails,
         HandlerStep, InsertEvent, InsertFails, PutRow, PutFails, IngestLine, IngestEnd,
         IngestFails, DaemonStep, DaemonStops, DaemonCrashes, DaemonStarts
<1> QED BY <1>1, <1>2 DEF Bounded

\* A hook that is through stays so, and the one that recalls is then through.
LEMMA GoneStays ==
  ASSUME TypeInv, RecallTyped, Bounded, [Next]_vars, NEW s \in Session
  PROVE  recalled'[s] <= Cardinality(GoneOf(s)')
<1>1. TypeInv' /\ Kept
  BY NextSteps DEF Steps
<1>2. IsFiniteSet(GoneOf(s)) /\ IsFiniteSet(GoneOf(s)')
  <2>1. IsFiniteSet(Events)
    BY FS_Interval, Bounds
  <2>2. GoneOf(s) \subseteq Events /\ GoneOf(s)' \subseteq Events
    BY DEF GoneOf, HooksOf, Fired, Events
  <2> QED BY <2>1, <2>2, FS_Subset
<1>3. Cardinality(GoneOf(s)) \in Nat /\ Cardinality(GoneOf(s)') \in Nat
  BY <1>2, FS_CardinalityType
<1>4. ASSUME NEW e \in Events, HookStep(e)
      PROVE  e \in Fired /\ hook[e].phase # "gone" /\ \A d \in Events \ {e} : hook'[d] = hook[d]
  <2>1. e \in Fired /\ hook[e].phase # "gone"
    BY <1>4 DEF HookStep, DialRefused, Dial, AwaitClosed, AwaitLate, Recall, RecallFails, HookAt, Fired
  <2>2. PICK phase \in {"await", "recall", "gone"} : HookTo(e, phase)
    BY <1>4 DEF HookStep, DialRefused, Dial, AwaitClosed, AwaitLate, Recall, RecallFails,
                Enqueue, EnqueueFails
  <2> QED BY <2>1, <2>2, HookMoves
<1>5. \A d \in Fired : hook[d].phase = "gone" => hook'[d].phase = "gone"
  <2>1. ASSUME NEW t \in Session, NEW kind, Fire(t, kind), NEW d \in Fired
        PROVE  hook'[d] = hook[d]
    BY <2>1, FireMoves
  <2>2. CASE \E t \in Session : \E kind : Fire(t, kind)
    BY <2>1, <2>2
  <2>3. CASE \E e \in Events : HookStep(e)
    BY <1>4, <2>3 DEF Fired
  <2>4. CASE UNCHANGED hook
    BY <2>4
  <2>5. \/ UNCHANGED hook \/ \E e \in Events : HookStep(e)
        \/ \E t \in Session : \E kind : Fire(t, kind)
    BY DEF Next, vars, AgentStep, SessionStarts, Prompts, UsesTool, Stops, WritesLine, Synthesize,
           HandlerStep, InsertEvent, InsertFails, PutFile, PutRow, PutFails, IngestLine, IngestEnd,
           IngestFails, DaemonStep, DaemonStops, DaemonCrashes, DaemonStarts
  <2> QED BY <2>2, <2>3, <2>4, <2>5
<1>6. GoneOf(s) \subseteq GoneOf(s)'
  BY <1>1, <1>5 DEF GoneOf, HooksOf, Kept
<1>7. Cardinality(GoneOf(s)) <= Cardinality(GoneOf(s)')
  BY <1>2, <1>6, FS_Subset
<1>8. CASE recalled'[s] = recalled[s]
  BY <1>3, <1>7, <1>8 DEF Bounded, RecallTyped
<1>9. ASSUME NEW e \in Events, Recall(e), hook[e].session = s
      PROVE  recalled'[s] <= Cardinality(GoneOf(s)')
  <2>1. hook[e].phase = "recall" /\ HookTo(e, "gone") /\ e \in Fired
    BY <1>9 DEF Recall, HookAt, Fired
  <2>2. hook'[e].phase = "gone"
    BY <2>1, HookMoves
  <2>3. e \notin GoneOf(s) /\ GoneOf(s) \cup {e} \subseteq GoneOf(s)'
    BY <1>1, <1>6, <1>9, <2>1, <2>2 DEF GoneOf, HooksOf, Kept
  <2>4. Cardinality(GoneOf(s) \cup {e}) = Cardinality(GoneOf(s)) + 1
    BY <1>2, <2>3, FS_AddElement
  <2>5. Cardinality(GoneOf(s) \cup {e}) <= Cardinality(GoneOf(s)')
    BY <1>2, <2>3, FS_Subset
  <2>6. recalled' = [recalled EXCEPT ![s] = IF IsFirstPrompt(s) THEN @ + 1 ELSE @]
    BY <1>9 DEF Recall
  <2>7. recalled'[s] = recalled[s] + 1 \/ recalled'[s] = recalled[s]
    <3>1. CASE IsFirstPrompt(s)
      BY <2>6, <3>1 DEF RecallTyped
    <3>2. CASE ~ IsFirstPrompt(s)
      BY <2>6, <3>2 DEF RecallTyped
    <3> QED BY <3>1, <3>2
  <2>8. recalled[s] \in Nat /\ recalled[s] <= Cardinality(GoneOf(s))
    BY DEF Bounded, RecallTyped
  <2> QED BY <1>3, <2>4, <2>5, <2>7, <2>8
<1>10. recalled'[s] = recalled[s] \/ \E e \in Events : Recall(e) /\ hook[e].session = s
  <2>1. recalled' = recalled \/ \E e \in Events : Recall(e)
    BY DEF Next, vars, AgentStep, SessionStarts, Prompts, UsesTool, Stops, WritesLine, Fire, Synthesize,
           HookStep, DialRefused, Dial, AwaitClosed, AwaitLate, RecallFails, Enqueue, EnqueueFails,
           HandlerStep, InsertEvent, InsertFails, PutFile, PutRow, PutFails, IngestLine, IngestEnd,
           IngestFails, DaemonStep, DaemonStops, DaemonCrashes, DaemonStarts
  <2>2. ASSUME NEW e \in Events, Recall(e), hook[e].session # s
        PROVE  recalled'[s] = recalled[s]
    BY <2>2 DEF Recall, RecallTyped
  <2> QED BY <2>1, <2>2
<1> QED BY <1>8, <1>9, <1>10

LEMMA BoundedStays ==
  ASSUME TypeInv, RecallTyped, Bounded, [Next]_vars
  PROVE  Bounded'
<1>1. outbox' \subseteq Events /\ unqueued' \subseteq Events /\ daemon' \in {"up", "down"}
  BY DEF Bounded, Next, vars, AgentStep, SessionStarts, Prompts, UsesTool, Stops, WritesLine, Fire, Synthesize,
         HookStep, DialRefused, Dial, AwaitClosed, AwaitLate, Recall, RecallFails, Enqueue, EnqueueFails,
         HandlerStep, InsertEvent, InsertFails, PutFile, PutRow, PutFails, IngestLine, IngestEnd,
         IngestFails, DaemonStep, DaemonStops, DaemonCrashes, DaemonStarts
<1>2. mishaps' \in 0 .. MaxMishaps
  <2>1. mishaps' = mishaps \/ Mishap
    BY DEF Next, vars, AgentStep, SessionStarts, Prompts, UsesTool, Stops, WritesLine, Fire, Synthesize,
           HookStep, DialRefused, Dial, AwaitClosed, AwaitLate, Recall, RecallFails, Enqueue, EnqueueFails,
           HandlerStep, InsertEvent, InsertFails, PutFile, PutRow, PutFails, IngestLine, IngestEnd,
           IngestFails, DaemonStep, DaemonStops, DaemonCrashes, DaemonStarts
  <2>2. MaxMishaps \in Nat /\ mishaps \in 0 .. MaxMishaps
    BY DeliveryAssumption DEF Bounded
  <2>3. CASE Mishap
    BY <2>2, <2>3 DEF Mishap
  <2> QED BY <2>1, <2>2, <2>3
<1>3. disturbed' \subseteq Session
  <2>1. CASE DaemonCrashes
    <3>1. disturbed' = disturbed \cup {hook[e].session : e \in Handling}
      BY <2>1 DEF DaemonCrashes
    <3>2. \A e \in Handling : hook[e].session \in Session
      BY SessionTyped DEF Handling, Active
    <3> QED BY <3>1, <3>2 DEF Bounded
  <2>2. CASE disturbed' = disturbed
    BY <2>2 DEF Bounded
  <2>3. CASE \E s \in Session : disturbed' = disturbed \cup {s}
    BY <2>3 DEF Bounded
  <2>4. ASSUME NEW e \in Events,
               DialRefused(e) \/ AwaitLate(e) \/ RecallFails(e) \/ InsertFails(e) \/ IngestFails(e)
        PROVE  disturbed' \subseteq Session
    <3>1. hook[e].phase # "none" \/ handler[e].phase # "none"
      BY <2>4 DEF DialRefused, AwaitLate, RecallFails, InsertFails, IngestFails, HookAt, HandlerAt
    <3>2. disturbed' = disturbed \cup {hook[e].session}
      BY <2>4 DEF DialRefused, AwaitLate, RecallFails, InsertFails, IngestFails
    <3>3. hook[e].session \in Session
      BY <3>1, SessionTyped
    <3> QED BY <3>2, <3>3 DEF Bounded
  <2>5. \/ DaemonCrashes \/ disturbed' = disturbed \/ \E s \in Session : disturbed' = disturbed \cup {s}
        \/ \E e \in Events :
             DialRefused(e) \/ AwaitLate(e) \/ RecallFails(e) \/ InsertFails(e) \/ IngestFails(e)
    BY DEF Next, vars, AgentStep, SessionStarts, Prompts, UsesTool, Stops, WritesLine, Fire, Synthesize,
           HookStep, Dial, AwaitClosed, Recall, HandlerStep, InsertEvent, PutFile, PutRow, PutFails,
           IngestLine, IngestEnd, DaemonStep, DaemonStops, DaemonStarts
  <2> QED BY <2>1, <2>2, <2>3, <2>4, <2>5
<1>4. \A s \in Session : (recalled[s] <= Cardinality(GoneOf(s)))'
  BY GoneStays
<1> QED BY <1>1, <1>2, <1>3, <1>4, SynthTyped, FilesTyped DEF Bounded

\* The values the variables take.
THEOREM TypeCorrect == Spec => []TypeOK
<1>1. Spec => []RecallTyped
  <2>1. Init => RecallTyped
    BY RecallInit DEF RecallInv
  <2> QED BY <2>1, RecallTypedStays, TypeAlways, PTL DEF Spec
<1>2. Spec => []Bounded
  BY <1>1, BoundedInit, BoundedStays, TypeAlways, PTL DEF Spec
<1>3. TypeInv /\ RecallTyped /\ HeldInv /\ Bounded => TypeOK
  <2> SUFFICES ASSUME TypeInv, RecallTyped, HeldInv, Bounded PROVE TypeOK
    OBVIOUS
  <2>1. ASSUME NEW s \in Session PROVE recalled[s] \in 0 .. MaxEvents
    <3>1. IsFiniteSet(Events) /\ Cardinality(Events) = MaxEvents
      BY FS_Interval, Bounds
    <3>2. GoneOf(s) \subseteq Events
      BY DEF GoneOf, HooksOf, Fired
    <3>3. /\ Cardinality(GoneOf(s)) <= MaxEvents /\ Cardinality(GoneOf(s)) \in Nat
      BY <3>1, <3>2, FS_Subset, FS_CardinalityType
    <3> QED BY <3>3, Bounds DEF RecallTyped, Bounded
  <2>2. recalled \in [Session -> 0 .. MaxEvents]
    BY <2>1 DEF RecallTyped
  <2>3. stored \subseteq Events /\ rows \subseteq Content
    BY DEF RecallTyped, Fired, HeldInv, Bounded
  <2>4. synth \in [Session -> [phase : {"none", "spawned", "done"}, saw : BOOLEAN]]
    BY DEF Bounded, SynthRow
  <2> QED BY <2>2, <2>3, <2>4 DEF TypeOK, TypeInv, Typed, HookRow, HandlerRow, Piece, RecallTyped, Bounded
<1> QED BY <1>1, <1>2, <1>3, TypeAlways, HeldAlways, PTL
=============================================================================
