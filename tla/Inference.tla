------------------------------ MODULE Inference ------------------------------
(***************************************************************************)
(* One batch of forge distill and its provider: the call with its retries, *)
(* what counts as an answer and what as which error, how the principles    *)
(* are found in the answer's text, and what becomes of the batch's events. *)
(*                                                                         *)
(* A reply is what the transport gave: an answer, an HTTP status, no       *)
(* connection ("refused", a timeout included), another failure ("broken"), *)
(* or a response that breaks off, is no JSON or lacks the array that       *)
(* should hold the answer ("garbled"): it has no text.  A text is a        *)
(* sequence of pieces: "array", a JSON array of objects; "wrapped", an     *)
(* object that holds one; "object", one that holds none; "words"; and      *)
(* "bracket", words with a bracket among them.                             *)
(***************************************************************************)
EXTENDS Integers, Sequences, FiniteSets, SequencesExt, Lists

\* A batch, with a reply to every attempt that may be made.
IsBatch(x) ==
  /\ x.size \in Nat /\ x.retries \in Nat /\ 1 .. x.retries + 1 \subseteq DOMAIN x.replies
  /\ \A i \in DOMAIN x.replies :
       /\ IsList(x.replies[i].text)
       /\ x.replies[i].kind = "garbled" => x.replies[i].text = <<>>

OpenAILike == {"openai", "groq", "nvidia", "openrouter"}

Says(text, n) == [ok |-> TRUE, text |-> text, attempts |-> n]
Fails(error, n) == [ok |-> FALSE, error |-> error, attempts |-> n]

(* ------------------------------ the call ------------------------------ *)

\* isProviderUnreachableError, and the errors the callers wrap.
Unreachable(provider, reply) ==
  \/ reply.kind = "refused"
  \/ reply.kind = "status" /\ provider \in OpenAILike /\ reply.status \in {404, 429}
ErrorOf(provider, reply) ==
  CASE Unreachable(provider, reply) -> "unreachable"
    [] reply.kind = "status" -> "invalid"
    [] OTHER -> "other"

\* A mutant: an answer cut off at the token limit is taken as it is.
AnswersUncut(provider, reply) ==
  \/ reply.kind = "answer" /\ (provider = "codex" => reply.text # <<>>)
  \/ reply.kind = "garbled" /\ provider = "ollama"

\* Only callCodex refuses an empty text and only callOpenAI one that was cut off.
\* callOpenAI and callAnthropic refuse a response without choices or content, which
\* is also what they make of one they cannot read; callOllama, which ignores these
\* errors, takes that for an empty answer.
Answers(provider, reply) ==
  \/ /\ reply.kind = "answer"
     /\ provider = "codex" => reply.text # <<>>
     /\ ~(reply.cut /\ provider \in OpenAILike)
  \/ reply.kind = "garbled" /\ provider = "ollama"

\* callOllama: once and again for each retry, while the server is away or busy.
ShouldRetryOllama(reply) ==
  reply.kind = "refused" \/ (reply.kind = "status" /\ reply.status = 503)
Attempts(input) ==
  LET Ends(n) == n = input.retries + 1 \/ ~ShouldRetryOllama(input.replies[n])
  IN IF input.provider # "ollama" THEN 1
     ELSE CHOOSE n \in 1 .. input.retries + 1 : Ends(n) /\ \A k \in 1 .. n - 1 : ~Ends(k)

\* pollAntigravityTranscript: the first poll that shows a finished or failed
\* step of the model decides, by the first such step; none before the deadline
\* is a timeout.  callAntigravity classifies no error.
Decisive(steps) == SelectInSeq(steps, LAMBDA s : s \in {"done", "error"})
Polled(reply) ==
  LET poll == SelectInSeq(reply.polls, LAMBDA steps : Decisive(steps) # 0)
  IN reply.kind = "answer" /\ poll # 0 /\ reply.polls[poll][Decisive(reply.polls[poll])] = "done"

CallLLM(input) ==
  LET n == Attempts(input)
      reply == input.replies[n]
  IN IF input.provider = "antigravity"
     THEN IF Polled(reply) THEN Says(reply.text, n) ELSE Fails("other", n)
     ELSE IF Answers(input.provider, reply) THEN Says(reply.text, n)
     ELSE Fails(ErrorOf(input.provider, reply), n)

(* ------------------------- reading an answer -------------------------- *)

Bracketed(text) == {i \in DOMAIN text : text[i] \in {"array", "wrapped", "bracket"}}

\* From the first opening to the last closing bracket: JSON when they belong
\* to one array.
Extracts(text) == \E i \in DOMAIN text : Bracketed(text) = {i} /\ text[i] # "bracket"

\* parsePrinciples leaves a text that begins with a bracket as it is; what does
\* not parse is no principle and no error.  shouldKeepPrinciple.
Readable(text) ==
  IF text # <<>> /\ Head(text) \in {"array", "bracket"} THEN text = <<"array">> ELSE Extracts(text)
ParsePrinciples(reply) ==
  IF Readable(reply.text) /\ ~reply.cut THEN {d \in reply.drafts : d # "generic"} ELSE {}

\* parseConflictPairs: an object alone says that there are none; what the pairs
\* name is not looked at, and what does not parse is skipped.
ParseConflictPairs(reply) == IF Extracts(reply.text) /\ ~reply.cut THEN reply.pairs ELSE {}

(* ------------------------------ the batch ----------------------------- *)

Batch(retired, stored, marked, error) ==
  [retired |-> retired, stored |-> stored, marked |-> marked, error |-> error]
Untouched(error) == Batch(FALSE, {}, {}, error)

\* detectAndMarkConflicts asks when there is an old principle to compare with;
\* a call that fails is reported and does not fail the batch.
MarkConflicts(input, stored) ==
  LET call == CallLLM(input.second)
  IN IF stored = {} \/ ~input.old \/ ~call.ok THEN {}
     ELSE ParseConflictPairs(input.second.replies[call.attempts])

\* distillBatch: a short batch is retired by a drain and left by anyone else; a
\* failed call leaves it; an answer retires it, whatever it holds.
DistillBatch(input) ==
  LET call == CallLLM(input)
      stored == ParsePrinciples(input.replies[call.attempts])
  IN IF input.size < 3 THEN Batch(input.drain /\ input.size > 0, {}, {}, "none")
     ELSE IF ~call.ok THEN Untouched(call.error)
     ELSE Batch(TRUE, stored, MarkConflicts(input, stored), "none")

\* shouldSkipDistillForMissingProvider: without a provider of its own, an
\* Ollama that is not there is no failure of forge distill.
SkipsForMissingProvider(input, batch) ==
  batch.error = "unreachable" /\ ~input.explicit /\ input.provider = "ollama"
ExitStatus(input, batch) ==
  IF batch.error = "none" \/ SkipsForMissingProvider(input, batch) THEN 0 ELSE 1

(* ------------------------------ property ------------------------------ *)

\* The form the prompt asks for, and around it what providers add: a fence, a
\* sentence, an object (the json_object mode of OpenAI).  Not among them: an
\* array with a sentence after it, and a sentence with a bracket.
AsAsked(text) ==
  /\ Cardinality({i \in DOMAIN text : text[i] \in {"array", "wrapped"}}) = 1
  /\ ~Contains(text, "bracket")
  /\ text[1] = "array" => Len(text) = 1

\* A principle that was in the reply is lost with the events of its batch: Ollama's
\* response could not be read, the answer was cut off where nothing looks for that, or
\* it has not the form the prompt asks for.
MayBeLost(provider, reply) ==
  \/ reply.kind = "garbled" /\ provider = "ollama"
  \/ reply.kind = "answer" /\ ((reply.cut /\ provider \notin OpenAILike) \/ ~AsAsked(reply.text))

\* A batch of three events or more is retired with a principle of its reply missing
\* only in the cases above, and never when the provider failed, after whatever retries,
\* or a provider of the OpenAI family was cut off, and however the second call goes; a
\* batch that is not retired makes the command fail, unless there is no provider at all
\* (distillBatch, callLLM, parsePrinciples, runDistill).
NotLost(input, batch) ==
  LET reply == input.replies[Attempts(input)]
  IN input.size >= 3 =>
       /\ batch.retired => \/ batch.stored = reply.drafts \ {"generic"}
                          \/ MayBeLost(input.provider, reply)
       /\ ~batch.retired => \/ ExitStatus(input, batch) = 1
                            \/ reply.kind = "refused" /\ ~input.explicit
==============================================================================
