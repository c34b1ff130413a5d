------------------------------- MODULE Recall -------------------------------
(***************************************************************************)
(* What forge hands back to an agent: the hook on the first prompt of a    *)
(* session, the context tools of the MCP server, and the injection of      *)
(* principles in a prompt.                                                 *)
(*                                                                         *)
(* A project has a name, the base name of its id, and a key made of the    *)
(* directory of its repository, None where that is not known: in a call    *)
(* that names its project, and in old rows.  Summaries have no key.        *)
(*                                                                         *)
(* A table is a sequence, newest row first.  A row knows how many words of *)
(* the prompt or query it holds; scores are in 1/12000 and 1/1000, the     *)
(* common denominators of the code's weights.                              *)
(***************************************************************************)
EXTENDS Integers, Sequences, FiniteSets, SequencesExt, Lists

CONSTANT None  \* no row, no project and no key

\* What a prompt or a call of a tool finds: two tables; ids are primary keys.
IsPrompt(x) ==
  /\ IsList(x.principles) /\ IsList(x.summaries) /\ x.limit \in Int
  /\ \A i, k \in DOMAIN x.principles : x.principles[i].id = x.principles[k].id => i = k

Latest(rows, n) == SubSeq(rows, 1, IF Len(rows) < n THEN Len(rows) ELSE n)
Ids(rows) == {rows[i].id : i \in DOMAIN rows}

(* ------------------------------ queries ------------------------------- *)

\* A mutant: a project is known by its name.
OfNamed(input, p) == p.project = input.project

\* projectScopePredicate: with a key, the rows that have it, and those without any
\* by their name; without one, all by their name, whatever repository they are of.
OfProject(input, p) ==
  \/ input.key # None /\ p.key = input.key
  \/ p.project = input.project /\ None \in {input.key, p.key}

\* RecentPrinciplesForProject, RecentGlobalPrinciples, RecentPrinciplesVisibleTo;
\* without a project the first and the last return every active principle.
ForProject(input, n) ==
  Latest(Having(input.principles,
                LAMBDA p : p.active /\ (input.project = None \/ OfProject(input, p))), n)

Global(input, n) == Latest(Having(input.principles, LAMBDA p : p.active /\ p.global), n)

VisibleTo(input, n) ==
  Latest(Having(input.principles,
                LAMBDA p : p.active /\ (p.global \/ input.project = None \/ OfProject(input, p))), n)

\* The n rows with the highest score; of equals the newest.
Top(rows, Score(_), n) ==
  Keep(rows, {i \in DOMAIN rows :
                Cardinality({k \in DOMAIN rows : \/ Score(rows[k]) > Score(rows[i])
                                                 \/ Score(rows[k]) = Score(rows[i]) /\ k < i}) < n})

\* SearchPrinciplesVisibleTo, within ninety days, by impact; without a project it
\* returns global rows only.
SearchVisibleTo(input, n) ==
  Top(Having(input.principles,
             LAMBDA p : /\ p.active /\ p.hits > 0 /\ p.age <= 90
                        /\ p.global \/ (input.project # None /\ OfProject(input, p))),
      LAMBDA p : p.impact, n)

(* -------------------------- scoring a memory -------------------------- *)

RecentnessScore(age) ==
  CASE age <= 7 -> 35 [] age <= 30 -> 20 [] age <= 180 -> 10 [] OTHER -> 0

\* scorePromptMatch: one word is enough only when it is long and the memory
\* good; 0 when the memory does not match.
Focus(words) == IF words > 4 THEN 4 ELSE words
ScorePromptMatch(m, words, quality, weight, threshold) ==
  LET score == weight * (12 \div Focus(words)) * 10 * m.hits + 108 * quality
                 + 120 * RecentnessScore(m.age)
      enough == m.hits > 1 \/ (m.hits = 1 /\ m.long /\ quality >= 75)
  IN IF enough /\ score >= 120 * threshold THEN score ELSE 0

Match(m, score, kind) ==
  [id |-> m.id, of |-> m.of, kind |-> kind, project |-> m.project, age |-> m.age,
   hint |-> kind = "principle" /\ m.hint, score |-> score]
PrincipleMatch(p, words) ==
  Match(p, ScorePromptMatch(p, words, p.impact, 180, 120), "principle")
SummaryQuality(s) == CASE s.has = "learnings" -> 78 [] s.has = "investigation" -> 68 [] OTHER -> 55
SummaryMatch(s, words) ==
  Match(s, IF s.has = "nothing" THEN 0
           ELSE ScorePromptMatch(s, words, SummaryQuality(s), 155, 115), "summary")

Matches(rows, words, Score(_, _)) ==
  Having([i \in DOMAIN rows |-> Score(rows[i], words)], LAMBDA m : m.score > 0)

\* One match for a fingerprint or a session: the first, not the best.
Once(matches) ==
  Keep(matches, {i \in DOMAIN matches : \A k \in 1 .. i - 1 : matches[k].of # matches[i].of})

\* promptMatchShown, and the same threshold again where the scan of the own
\* project is enough.
PromptMatchShown(m) == m.score >= (IF m.hint THEN 18000 ELSE 24000)
HighConfidence(matches) ==
  \E i \in DOMAIN matches : matches[i].score >= (IF matches[i].hint THEN 18000 ELSE 24000)

\* findPromptRelevantPrinciples and findPromptRelevantSessionSummaries: other
\* projects only when the own one holds no sure match; a global principle and
\* any summary of a project of another name may then match.
Foreign(project, rows) ==
  Having(rows, LAMBDA r : project = None \/ r.project # project)
Scan(project, own, others, words, Score(_, _)) ==
  LET same == IF project = None THEN <<>> ELSE Once(Matches(own, words, Score))
  IN IF HighConfidence(same) THEN same
     ELSE Once(same \o Matches(Foreign(project, others), words, Score))
RelevantPrinciples(input) ==
  Scan(input.project, ForProject(input, 50), Global(input, 100), input.words, PrincipleMatch)
OwnSummaries(input) ==
  Latest(Having(input.summaries, LAMBDA s : s.project = input.project), 20)
RelevantSummaries(input) ==
  Scan(input.project, OwnSummaries(input), Latest(input.summaries, 80), input.words, SummaryMatch)

\* findBestPromptRecall: the highest score; of equals the newest, a principle
\* before a summary.
BestPromptRecall(input) ==
  LET all == RelevantPrinciples(input) \o RelevantSummaries(input)
      Better(a, b) == a.score > b.score \/ (a.score = b.score /\ a.age < b.age)
      i == SelectInSeq(all, LAMBDA m : ~\E k \in DOMAIN all : Better(all[k], m))
  IN IF input.words < 2 \/ i = 0 THEN None ELSE all[i]

(* ------------------------- the hook's context ------------------------- *)

\* isFirstPromptOfSession: the prompt at hand is stored already.
IsFirstPrompt(events) ==
  LET rest == Having(events, LAMBDA e : e # "SessionStart")
  IN Len(rest) <= 1 /\ \A i \in DOMAIN rest : rest[i] = "UserPromptSubmit"

\* shouldWaitForOfficialHint and waitForOfficialHint: a repeated failure whose
\* documentation is being fetched holds the prompt back, for a while.
Official(external) == \E i \in DOMAIN external : external[i] = "official"
Waits(input) == input.failing /\ ~Official(input.external) /\ input.pending
External(input) == IF Waits(input) THEN input.fetched ELSE input.external

\* loadSessionRecallContext: without a principle or a summary of its own the
\* project sees global principles.
Lessons(input) ==
  LET own == ForProject(input, 2)
      bare == input.project # None /\ own = <<>>
                /\ ~\E i \in DOMAIN input.summaries : input.summaries[i].project = input.project
  IN Having(IF bare THEN Global(input, 2) ELSE own, LAMBDA p : p.titled)

Silent == [shown |-> {}, match |-> None, docs |-> None]

\* buildSessionRecallOutput shows the first external summary and no other, and
\* the failure unless that summary is official.
SessionRecall(input) ==
  LET best == BestPromptRecall(input)
      match == IF best # None /\ PromptMatchShown(best) THEN best ELSE None
      external == External(input)
      matched == IF match # None /\ match.kind = "principle" THEN {match.id} ELSE {}
  IN IF ~IsFirstPrompt(input.events) THEN Silent
     ELSE [shown |-> Ids(Lessons(input)) \cup matched, match |-> match,
           docs |-> IF external # <<>> /\ Head(external) = "official" THEN "official"
                    ELSE IF input.failing THEN "failure" ELSE None]

(* ------------------------ tools and injection ------------------------- *)

\* intFromArgs keeps a limit within 1 .. 100.
Limit(n) == IF n < 1 THEN 1 ELSE IF n > 100 THEN 100 ELSE n

Shows(ids) == [Silent EXCEPT !.shown = ids]

\* getPrinciples, and getRecentContext for its principles: the whole list.
GetPrinciples(input) == Shows(Ids(VisibleTo(input, Limit(input.limit))))

\* GetRelevantPrinciples: the impact falls by a tenth for every thirty days
\* without use, files at hand raise it, and what is below a tenth is left out.
Decayed(p) ==
  LET tenths == IF p.idle > 300 THEN 0 ELSE 10 - p.idle \div 30
  IN p.impact * tenths + 3 * p.files
GetRelevantPrinciples(input) ==
  LET found == IF input.words = 0 THEN <<>> ELSE SearchVisibleTo(input, 30)
      candidates == Ids(ForProject(input, 15)) \cup Ids(found)
  IN Ids(Top(Having(input.principles, LAMBDA p : p.id \in candidates /\ Decayed(p) >= 100),
             Decayed, 5))

\* InjectPrinciplesForPrompt: nothing without a project.
InjectPrinciples(input) ==
  IF input.project = None THEN Silent ELSE Shows(GetRelevantPrinciples(input))

(* ----------------------------- properties ----------------------------- *)

\* What an answer for a project shows is active, and global or the project's own: a
\* row of another repository is not its own, even of the same name, when both keys
\* are known; only without one does the name decide (the scans of hook_recall.go, the
\* queries of principles.go).
StaysInScope(input, answer) ==
  input.project # None =>
    \A i \in DOMAIN input.principles :
      LET p == input.principles[i]
          own == IF None \in {input.key, p.key} THEN p.project = input.project
                 ELSE p.key = input.key
      IN p.id \in answer.shown => p.active /\ (p.global \/ own)

\* A memory of another project is put before the agent only when no memory of
\* the same kind from its own project would have been.
OwnProjectFirst(input, answer) ==
  LET own == IF answer.match.kind = "principle"
             THEN Matches(ForProject(input, 50), input.words, PrincipleMatch)
             ELSE Matches(OwnSummaries(input), input.words, SummaryMatch)
      kept == Once(own)
  IN answer.match # None /\ input.project # None
       /\ (\A i \in DOMAIN kept : kept[i] # answer.match)
     => ~\E i \in DOMAIN kept : PromptMatchShown(kept[i])
==============================================================================
