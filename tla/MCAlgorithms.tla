---------------------------- MODULE MCAlgorithms ----------------------------
\* The inputs the algorithms are checked on.
EXTENDS Algorithms, Integers, FiniteSets, TLC, SequencesExt

CONSTANTS
  lib1, lib2,  \* identifiers of libraries
  root1        \* what looks like one but starts at a root directory

MCLibraries == {lib1, lib2}

(* Sessions: three tool events out of a list, perhaps a failure signature. *)
File == <<"src", "a.go">>
Event(id, at, tool, of, path, family, args, exit, text) ==
  [id |-> id, at |-> at, tool |-> tool, of |-> of, path |-> path, family |-> family,
   args |-> args, exit |-> exit, text |-> text]
Edit(id, at, of) == Event(id, at, "edit", of, File, "other", "none", -1, {})
Test(id, at, family, args, path, exit, text) ==
  Event(id, at, "bash", "none", path, family, args, exit, text)
Happened ==
  {Edit(1, 0, "code"), Edit(2, 4, "code"), Edit(3, 0, "prose"), Edit(4, 0, "unnamed"),
   Test(5, 4, "go", "path", <<"src">>, 0, {}), Test(6, 4, "go", "path", <<"src">>, 0, {}),
   Test(7, 4, "go", "none", <<>>, 1, {}), Test(8, 8, "npm", "all", <<>>, -1, {"pass"}),
   Test(9, 8, "go", "path", <<"lib">>, -1, {"fail", "pass"}),
   Test(10, 40, "go", "none", <<>>, 1, {}), Test(11, 20, "npm", "other", <<>>, 0, {}),
   Test(12, 20, "go", "none", <<>>, 2, {})}
Failures ==
  {<<>>} \cup {<<[id |-> 14, at |-> at, family |-> "go", resolved |-> r, repeats |-> n]>> :
               at \in {4, 20}, r \in BOOLEAN, n \in {1, 2}}
Commits == {<<>>, <<[id |-> 13, at |-> 1, lines |-> 3]>>}
MCSessions ==
  {[events |-> e, commits |-> c, failures |-> f] :
     e \in {s \in [1 .. 3 -> Happened] : s[1].id < s[2].id /\ s[2].id < s[3].id},
     c \in Commits, f \in Failures}

(* Commands: the global file an accepted command left, perhaps a project   *)
(* file, and an environment with variables of the old days.                *)
Unset == S!Unset
Flag(provider, key, model, base, timeout, ollama, retries) ==
  [provider |-> provider, key |-> IF key THEN provider ELSE Unset, model |-> model, base |-> base,
   timeout |-> timeout, ollamaTimeout |-> ollama, retries |-> retries]
Chosen == {"openai", "groq", "ollama", "codex", "antigravity"}
Flags ==
  {Flag(p, k, m, b, t, o, n) :
     p \in Chosen, k \in BOOLEAN, m \in {Unset, "gpt"}, b \in {Unset, "custom"},
     t \in {Unset, "60s", "negative"}, o \in {Unset, "300s"}, n \in {-1, 5}}
NoFiles == [global |-> S!Blank, project |-> S!Blank, private |-> S!Blank]
Env(provider, key, own, timeout) ==
  [f \in S!Texts |-> CASE f = "provider" -> provider [] f = "key" -> key
                       [] f = "timeout" -> timeout [] OTHER -> Unset]
    @@ [retries |-> 0, ownKey |-> own]
Before ==
  {NoFiles} \cup
  {S!RunConfig(NoFiles, Env(Unset, Unset, Unset, Unset), Flag(p, TRUE, Unset, b, t, Unset, -1)).files :
     p \in Chosen, b \in {Unset, "custom"}, t \in {Unset, "10s"}}
Layered == {[f EXCEPT !.project = [S!Blank EXCEPT !.provider = "ollama"]] : f \in Before}
MCCommands ==
  [files : Before \cup Layered, flags : Flags,
   env : {Env(p, k, own, t) : p \in {Unset, "openai"}, k \in {Unset, "openai"},
                              own \in {Unset, "groq"}, t \in {Unset, "5s"}}]

(* Prompts: up to two principles, up to two summaries, newest first.       *)
Place(project, key) == [project |-> project, key |-> key]
Principle(id, place, global, titled, hint, hits, impact, age, idle) ==
  place @@
  [id |-> id, of |-> id, global |-> global, active |-> TRUE, titled |-> titled, hint |-> hint,
   hits |-> hits, long |-> TRUE, impact |-> impact, age |-> age, idle |-> idle, files |-> 0]
Places == {Place("own", None), Place("own", "mine"), Place("own", "theirs"), Place("other", "else")}
Kinds ==
  {Principle("p", l, g, t, h, n, i, a, a) :
     l \in Places, g \in BOOLEAN, t \in BOOLEAN, h \in BOOLEAN, n \in 0 .. 2,
     i \in {40, 90}, a \in {3, 200}}
Few == {p \in Kinds : (p.titled <=> p.hits = 2) /\ (p.impact = 90 <=> p.hint)}
Older(p) == [p EXCEPT !.id = "q", !.of = "q", !.age = 250, !.idle = 400]
Summaries ==
  {[id |-> "s", of |-> "s", project |-> j, hits |-> n, long |-> TRUE, has |-> h, age |-> 3] :
     j \in {"own", "other"}, n \in {1, 2}, h \in {"learnings", "request"}}
Other(s) == [s EXCEPT !.id = "t", !.project = "other"]
Table == {<<p>> : p \in Kinds} \cup {<<p, Older(q)>> : p \in Few, q \in {x \in Few : x.age = 3}}
Prompted(place, table, summaries, external, fetched, failing, pending, events) ==
  place @@
  [principles |-> table, summaries |-> summaries, words |-> 3, limit |-> 2,
   external |-> external, fetched |-> fetched, failing |-> failing, pending |-> pending,
   events |-> events]
First == <<"SessionStart", "UserPromptSubmit">>
MCPrompts ==
  {Prompted(l, t, s, <<>>, <<>>, FALSE, FALSE, First) :
     l \in {Place(None, None), Place("own", None), Place("own", "mine")}, t \in Table,
     s \in {<<>>} \cup {<<x>> : x \in Summaries} \cup {<<x, Other(x)>> : x \in Summaries}}
  \cup
  {Prompted(Place("own", "mine"), <<>>, <<>>, e, g, f, p, v) :
     e \in {<<>>, <<"insight">>, <<"official">>, <<"insight", "official">>},
     g \in {<<>>, <<"official">>, <<"insight", "official">>}, f \in BOOLEAN, p \in BOOLEAN,
     v \in {<<>>, First, First \o <<"UserPromptSubmit">>, First \o <<"PostToolUse">>}}

(* Scripts: five lines the server may write, for a job that names its      *)
(* library and for one that does not.                                      *)
NoBody == [tools |-> {}, keyed |-> <<>>, texts |-> <<>>, parts |-> <<>>]
Sentence(id, words, boilerplate, score, hits) ==
  [id |-> id, words |-> words, boilerplate |-> boilerplate, score |-> score, hits |-> hits]
Part(whole, sentences) == [whole |-> whole, sentences |-> sentences]
Docs ==
  <<Part(Sentence("w", 9, TRUE, 0, 0),
         <<Sentence("a", 6, FALSE, -1, 0), Sentence("b", 7, FALSE, 2, 0),
           Sentence("c", 5, FALSE, 1, 2), Sentence("d", 3, FALSE, 4, 0)>>),
    Part(Sentence("v", 8, FALSE, 0, 0), <<Sentence("e", 6, FALSE, 0, 0), Sentence("b", 7, FALSE, 2, 0)>>)>>
Thin == <<Part(Sentence("w", 6, FALSE, 0, 0), <<Sentence("a", 3, FALSE, 0, 0)>>)>>
Line(kind, id, to, body) == [kind |-> kind, id |-> id, to |-> to, body |-> body]
Result(id, body) == Line("result", id, id, body)
Tools == [NoBody EXCEPT !.tools = {"resolve-library-id", "get-library-docs"}]
Resolved == [NoBody EXCEPT !.texts = <<<<root1, lib2>>, <<lib1>>>>, !.parts = Thin]
DocsBody(parts) == [NoBody EXCEPT !.texts = <<<<lib2>>>>, !.parts = parts]
Asking == [NoBody EXCEPT !.texts = <<<<lib1>>>>, !.parts = Docs]
Skipped == {Line("note", 0, 0, NoBody), Line("call", 3, 0, Asking)}
Ends == {Line("blank", 0, 0, NoBody), Line("garbage", 0, 0, NoBody), Line("error", 3, 3, NoBody)}
Job(version, name, hasName, query, failure, decision) ==
  [version |-> version, name |-> name, hasName |-> hasName, query |-> query,
   failure |-> failure, decision |-> decision]
Decision(confidence) ==
  [relevant |-> TRUE, confidence |-> confidence, sentence |-> Sentence("r", 6, FALSE, 0, 0)]
Named == Job(<<>>, <<lib1>>, TRUE, <<lib2>>, TRUE, Decision(80))
InQuery == Job(<<root1>>, <<>>, FALSE, <<root1, lib2>>, TRUE, Decision(70))
Plain == Job(<<>>, <<>>, TRUE, <<lib2>>, FALSE, NoText)
Lines(job) ==
  Skipped \cup {Result(1, NoBody), Result(2, Tools)}
    \cup IF job = Plain THEN {Result(3, Resolved), Result(4, DocsBody(Docs))}
         ELSE Ends \cup {Result(3, DocsBody(Docs)), Result(3, DocsBody(Thin))}
MCScripts ==
  [job : {Named, InQuery}, lines : [1 .. 4 -> Lines(Named)]]
    \cup [job : {Plain}, lines : [1 .. 5 -> Lines(Plain) \cup Ends]]

(* Batches: every text of up to two pieces, or a wrapped array among words. *)
Texts == {<<>>, <<"words", "array", "words">>, <<"words", "wrapped", "words">>}
           \cup UNION {[1 .. n -> {"array", "wrapped", "object", "words", "bracket"}] : n \in 1 .. 2}
Reply(kind, status, text, cut, polls) ==
  [kind |-> kind, status |-> status, text |-> text, cut |-> cut, polls |-> polls,
   drafts |-> {"p", "generic"}, pairs |-> {<<"old", "p">>}]
Failing == {Reply(kind, 0, <<>>, FALSE, <<>>) : kind \in {"refused", "broken", "garbled"}}
  \cup {Reply("status", n, <<>>, FALSE, <<>>) : n \in {401, 404, 429, 503}}
Polls == {<<>>, <<<<>>, <<"thought", "done">>>>, <<<<"thought">>, <<"error", "done">>>>}
Replies == Failing \cup {Reply("answer", 0, t, c, p) : t \in Texts, c \in BOOLEAN, p \in Polls}
Plainly == {r \in Replies : r.polls = <<>>}
Call(provider, retries, replies) ==
  [provider |-> provider, retries |-> retries, replies |-> replies]
Second == {Call("openai", 0, <<Reply("broken", 0, <<>>, FALSE, <<>>)>>),
           Call("openai", 0, <<Reply("answer", 0, <<"wrapped">>, FALSE, <<>>)>>)}
Asked(call, size, drain, explicit, old, second) ==
  call @@ [size |-> size, drain |-> drain, explicit |-> explicit, old |-> old, second |-> second]
MCBatches ==
  {Asked(Call(c[1], 0, <<c[2]>>), n, d, TRUE, o, s) :
     c \in ({"openai", "anthropic", "codex"} \X Plainly) \cup ({"antigravity"} \X Replies),
     n \in {2, 3}, d \in BOOLEAN, o \in BOOLEAN, s \in Second}
  \cup
  {Asked(Call("ollama", 1, <<r, q>>), 3, TRUE, e, FALSE, CHOOSE s \in Second : TRUE) :
     r \in Plainly, q \in Plainly, e \in BOOLEAN}
==============================================================================
