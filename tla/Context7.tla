------------------------------ MODULE Context7 ------------------------------
(***************************************************************************)
(* fetchContext7MCP: one retrieval job against a Context7 server that runs *)
(* as a child process and speaks JSON-RPC over its standard output.        *)
(*                                                                         *)
(* What the server writes is a sequence of lines.  A line carries, beside  *)
(* its content, the ghost field `to`: the request it truly answers, or 0.  *)
(* A text is the sequence of what looks like a library in it, and a body   *)
(* is either the tools, or the values found under a library key and the    *)
(* texts; the docs are parts made of sentences, and a sentence has a score *)
(* and the number of words of the query in it.  The whole message is       *)
(* walked for these, in the order Go takes the keys of a map: a request of *)
(* the server's own ("call") has a body too, of its method and parameters. *)
(***************************************************************************)
EXTENDS Integers, Sequences, FiniteSets, SequencesExt, Lists

CONSTANTS Libraries,  \* library identifiers, /owner/name
          NoLibrary, NoText

First(s, Test(_)) == SelectInSeq(s, Test)

\* What a server writes for a job: a result answers the request it names.
IsScript(x) ==
  /\ IsList(x.lines)
  /\ \A i \in DOMAIN x.lines : x.lines[i].kind = "result" => x.lines[i].to = x.lines[i].id

(* -------------------------- reading messages -------------------------- *)

\* readMessage returns an error for a line, a header or a body that is not
\* JSON or passes its limit, and when the output ends; blank lines are
\* skipped.  request also skips what has no identifier or another one.
Broken(line) == line.kind \in {"garbage", "oversized"}
Answers(id, line) == line.kind \in {"result", "error", "call"} /\ line.id = id

\* A mutant: whatever comes next is the answer.
TakeNext(id, lines) ==
  LET i == First(lines, LAMBDA l : l.kind # "blank")
  IN IF i = 0 \/ Broken(lines[i]) \/ lines[i].kind = "error"
     THEN [ok |-> FALSE, rest |-> <<>>]
     ELSE [ok |-> TRUE, line |-> lines[i], rest |-> SubSeq(lines, i + 1, Len(lines))]

\* request: the first message that has the identifier; an error object, or a
\* line that cannot be read before it, ends the fetch.
Request(id, lines) ==
  LET i == First(lines, LAMBDA l : Broken(l) \/ Answers(id, l))
  IN IF i = 0 \/ Broken(lines[i]) \/ lines[i].kind = "error"
     THEN [ok |-> FALSE, rest |-> <<>>]
     ELSE [ok |-> TRUE, line |-> lines[i], rest |-> SubSeq(lines, i + 1, Len(lines))]

(* ------------------------------ libraries ----------------------------- *)

\* normalizeContext7LibraryID looks at the first match of a text only,
\* context7LibraryIDFromQuery at every one.
NormalizeLibraryID(text) ==
  IF text # <<>> /\ Head(text) \in Libraries THEN Head(text) ELSE NoLibrary
LibraryIDFromQuery(text) ==
  LET i == First(text, LAMBDA m : m \in Libraries) IN IF i = 0 THEN NoLibrary ELSE text[i]

FirstLibrary(texts, IdOf(_)) ==
  LET i == First(texts, LAMBDA t : IdOf(t) # NoLibrary)
  IN IF i = 0 THEN NoLibrary ELSE IdOf(texts[i])

\* directContext7LibraryID: the query is looked at only when no name is given.
DirectLibraryID(job) ==
  LET named == FirstLibrary(<<job.version, job.name>>, NormalizeLibraryID)
  IN IF named = NoLibrary /\ ~job.hasName THEN LibraryIDFromQuery(job.query) ELSE named

\* extractContext7LibraryID: the values under a library key, the texts as they
\* are, then every match in them.
ExtractLibraryID(body) ==
  LET found == FirstLibrary(body.keyed \o body.texts, NormalizeLibraryID)
  IN IF found = NoLibrary THEN FirstLibrary(body.texts, LibraryIDFromQuery) ELSE found

\* context7ToolName: the first candidate the server offers.
ToolName(names, candidates) ==
  LET i == First(candidates, LAMBDA c : c \in names) IN IF i = 0 THEN NoText ELSE candidates[i]
ResolveTool(names) == ToolName(names, <<"resolve-library-id", "resolveLibraryId">>)
DocsTool(names) ==
  ToolName(names, <<"query-docs", "queryDocs", "get-library-docs", "getLibraryDocs">>)

(* ------------------------------ summaries ----------------------------- *)

\* cleanContext7Sentence: not boilerplate, and five words of three letters.
\* context7SentenceCandidates keeps the clean sentences, each once.
Clean(s) == s.words >= 5 /\ ~s.boilerplate
Candidates(parts) ==
  LET all == FlattenSeq([i \in DOMAIN parts |-> parts[i].sentences])
      New(i) == Clean(all[i]) /\ \A k \in 1 .. i - 1 : all[k].id # all[i].id
  IN Keep(all, {i \in DOMAIN all : New(i)})

\* bestContext7Sentence: the first of the highest, if that is above -1.
BestSentence(candidates) ==
  LET Score(s) == s.score + s.hits
      i == First(candidates, LAMBDA s : /\ Score(s) > -1
                                        /\ \A k \in DOMAIN candidates :
                                             Score(candidates[k]) <= Score(s))
  IN IF i = 0 THEN NoText ELSE candidates[i].id

\* compactContext7Narrative: the three with the highest scores, whatever the
\* query, in their order when equal.
Narrative(candidates) ==
  LET Above(i) == {k \in DOMAIN candidates :
                     \/ candidates[k].score > candidates[i].score
                     \/ candidates[k].score = candidates[i].score /\ k < i}
  IN {candidates[i].id : i \in {k \in DOMAIN candidates : Cardinality(Above(k)) < 3}}

\* summarizeContext7DocsResponse: without a best sentence, the first part that
\* is clean as a whole; it is then the narrative too, if there is none.
Hint(parts) ==
  LET best == BestSentence(Candidates(parts))
      i == First(parts, LAMBDA part : Clean(part.whole))
  IN IF best # NoText THEN best ELSE IF i = 0 THEN NoText ELSE parts[i].whole.id
Summary(parts) ==
  LET narrative == Narrative(Candidates(parts))
  IN IF narrative = {} THEN {Hint(parts)} \ {NoText} ELSE narrative

\* maybeRefineContext7Hint: for a failure, the provider of the distiller, when
\* there is one that answers, may replace the hint by a clean sentence.
Refined(job, hint) ==
  LET decision == job.decision
  IN IF /\ hint # NoText /\ job.failure /\ decision # NoText
        /\ decision.relevant /\ decision.confidence >= 75 /\ Clean(decision.sentence)
     THEN decision.sentence.id ELSE hint

(* -------------------------------- fetch ------------------------------- *)

Failed == [ok |-> FALSE]
HasTools(line) == line.kind = "result" /\ line.body.tools # {}

\* The last call, and what is stored of its answer.
QueryDocs(job, id, library, from, lines) ==
  LET docs == Request(id, lines)
      parts == docs.line.body.parts
  IN IF ~docs.ok \/ Summary(parts) = {} THEN Failed
     ELSE [ok |-> TRUE, library |-> library, resolved |-> from,
           hint |-> Refined(job, Hint(parts)), narrative |-> Summary(parts),
           source |-> docs.line.to, asked |-> id]

\* initialize, tools/list, the library unless the job names it, the docs; the
\* thirty seconds the child may live end its output.
Fetch(job, lines) ==
  LET initialize == Request(1, lines)
      list == Request(2, initialize.rest)
      tools == list.line.body.tools
      direct == DirectLibraryID(job)
      resolve == Request(3, list.rest)
      library == ExtractLibraryID(resolve.line.body)
  IN IF ~initialize.ok \/ ~list.ok THEN Failed
     ELSE IF ~HasTools(list.line) \/ DocsTool(tools) = NoText THEN Failed
     ELSE IF direct # NoLibrary THEN QueryDocs(job, 3, direct, 0, list.rest)
     ELSE IF ResolveTool(tools) = NoText \/ ~resolve.ok \/ library = NoLibrary THEN Failed
     ELSE QueryDocs(job, 4, library, resolve.line.to, resolve.rest)

(* ----------------------------- properties ----------------------------- *)

\* request does not tell an answer from a request of the server's own that bears
\* the same number.
Called(lines, id) == \E i \in DOMAIN lines : lines[i].kind = "call" /\ lines[i].id = id

\* A fetch stores only what the server sent in answer to its own request for
\* the docs, of the library that the job names or that the server gave in
\* answer to its own question, unless the server sent a request of that number:
\* a late, repeated or misplaced answer, or a notification, never passes for
\* the one that is awaited (request in context7_mcp.go).
StoresOwnAnswer(job, lines) ==
  LET fetch == Fetch(job, lines)
      direct == DirectLibraryID(job)
  IN fetch.ok => /\ fetch.source = fetch.asked \/ Called(lines, fetch.asked)
                 /\ fetch.library \in Libraries
                 /\ IF direct # NoLibrary THEN fetch.library = direct
                    ELSE fetch.resolved = 3 \/ Called(lines, 3)
==============================================================================
