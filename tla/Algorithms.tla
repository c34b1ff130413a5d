----------------------------- MODULE Algorithms -----------------------------
(***************************************************************************)
(* The parts of forge that compute an answer from what they are given, one *)
(* action each: the input is any of a set, the step is the whole           *)
(* computation.  The algorithms themselves are in the modules named here.  *)
(***************************************************************************)
EXTENDS Naturals, Sequences

CONSTANTS
  Sessions,        \* what DetectVerification reads of a session
  Commands,        \* settings files, environments and flags of `forge config`
  Prompts,         \* prompts and tool calls, with the memories there are
  Scripts,         \* what a Context7 server writes during a fetch
  Batches,         \* batches of forge distill, and what the provider replies
  Libraries, NoLibrary, NoText, None

V == INSTANCE Verification
S == INSTANCE Settings
R == INSTANCE Recall
C == INSTANCE Context7
I == INSTANCE Inference

ASSUME SessionsAssumption == \A x \in Sessions : V!IsSession(x)
ASSUME CommandsAssumption == \A x \in Commands : S!IsCommand(x)
ASSUME PromptsAssumption == \A x \in Prompts : R!IsPrompt(x)
ASSUME ScriptsAssumption == \A x \in Scripts : C!IsScript(x)
ASSUME BatchesAssumption == \A x \in Batches : I!IsBatch(x)

VARIABLES task, input, output
vars == <<task, input, output>>

Init == task = "idle" /\ input = None /\ output = None

Compute(what, x, y) == task' = what /\ input' = x /\ output' = y

DetectVerification ==
  task = "idle" /\ \E x \in Sessions : Compute("verify", x, V!DetectVerification(x))
RunConfig ==
  task = "idle" /\ \E x \in Commands : Compute("config", x, S!RunConfig(x.files, x.env, x.flags))
SessionRecall == task = "idle" /\ \E x \in Prompts : Compute("recall", x, R!SessionRecall(x))
GetPrinciples == task = "idle" /\ \E x \in Prompts : Compute("tool", x, R!GetPrinciples(x))
InjectPrinciples == task = "idle" /\ \E x \in Prompts : Compute("inject", x, R!InjectPrinciples(x))
FetchContext7MCP ==
  task = "idle" /\ \E x \in Scripts : Compute("fetch", x, C!Fetch(x.job, x.lines))
DistillBatch ==
  task = "idle" /\ \E x \in Batches : Compute("distill", x, I!DistillBatch(x))

Return == task # "idle" /\ task' = "idle" /\ input' = None /\ output' = None

Next == \/ DetectVerification \/ RunConfig \/ SessionRecall \/ GetPrinciples
        \/ InjectPrinciples \/ FetchContext7MCP \/ DistillBatch \/ Return
Spec == Init /\ [][Next]_vars

(* ----------------------------- properties ----------------------------- *)

\* DetectVerification gives the same drafts whatever the order of the events.
VerificationOrderFree == task = "verify" => V!OrderFree(input)

\* `forge config`: a provider is later called with the settings that were
\* tested, and with a key of its own (runConfig, LoadConfig).
ConfiguredIsUsed ==
  task = "config" => /\ S!TestedIsUsed(input.files, input.env, input.flags)
                     /\ S!KeyIsProviders(input.files, input.env, input.flags)

\* An agent is shown global principles and those of its repository, of which only the
\* name counts where a key is missing; and a memory of another project only when its
\* own has none of that kind to show.
RecallInScope ==
  task \in {"recall", "tool", "inject"} => /\ R!StaysInScope(input, output)
                                           /\ R!OwnProjectFirst(input, output)

\* A fetch stores only the server's answer to its own request for the docs, unless
\* the server sent a request of the same number.
FetchStoresOwnAnswer == task = "fetch" => C!StoresOwnAnswer(input.job, input.lines)

\* A principle of a reply is lost with its batch only where an answer could not be
\* read, was cut off unseen or has not the form asked for; a batch that is left makes
\* the command fail.
BatchNotLost == task = "distill" => I!NotLost(input, output)
=============================================================================
