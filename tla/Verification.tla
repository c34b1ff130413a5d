---------------------------- MODULE Verification ----------------------------
(***************************************************************************)
(* DetectVerification: what a session's tool events, commits and failure   *)
(* signatures say about whether each code change was tested.               *)
(*                                                                         *)
(* Time is in minutes, confidence in hundredths.  A path and a test target *)
(* are sequences of names; a command is its family (its first word) and    *)
(* its arguments, classified.                                              *)
(***************************************************************************)
EXTENDS Integers, Sequences, FiniteSets, SequencesExt, Lists

Window == 30      \* delayedTestWindow
Delay == 5        \* minutes after which a test is a delayed one

SourcesOf(runs) == {runs[i].id : i \in DOMAIN runs}

\* What is read of a session: rows of the event table, each with an id of its own.
IsSession(x) ==
  /\ DOMAIN x = {"events", "commits", "failures"}
  /\ IsList(x.events)
  /\ \A i \in DOMAIN x.events : x.events[i].id \in Int /\ x.events[i].at \in Int
  /\ \A i, j \in DOMAIN x.events : x.events[i].id = x.events[j].id => i = j

(* ------------------------------ changes ------------------------------- *)

\* isWriteEvent, isMeaningfulCodePath, isFormattingEvent and
\* isWhitespaceOnlyEdit: how a tool event counts as a change.
IsWriteEvent(e) == e.tool = "edit"
IsCode(e) == e.of = "code"

\* sortChanges, and the order of collectTestRuns: by time, then by source.
Earlier(a, b) == a.at < b.at \/ (a.at = b.at /\ a.id < b.id)

\* A commit stands for the changes only when no event wrote a file.
Change(e) == [id |-> e.id, at |-> e.at, path |-> e.path, known |-> TRUE]
CommitChange(c) == [id |-> c.id, at |-> c.at, path |-> <<>>, known |-> FALSE]
CollectChanges(input) ==
  LET writes == Having(input.events, LAMBDA e : IsWriteEvent(e) /\ e.of # "unnamed")
      edits == Having(writes, IsCode)
      commits == Having(input.commits, LAMBDA c : c.lines > 0)
  IN Sorted(IF writes # <<>> THEN [i \in DOMAIN edits |-> Change(edits[i])]
            ELSE [i \in DOMAIN commits |-> CommitChange(commits[i])], Earlier)

(* -------------------------------- tests ------------------------------- *)

\* classifyScope of the arguments: none, or "./...", "--all" or "-a", is the
\* whole suite; a path is a target; anything else says nothing.
Scope(args) ==
  CASE args = "none" \/ args = "all" -> "broad"
    [] args = "path" -> "targeted"
    [] OTHER -> "unknown"

\* commandSucceeded: the exit code if there is one (-1 is none), else what the
\* text says, a failure before a success.
HasExit(e) == e.exit >= 0
Succeeded(e) ==
  CASE HasExit(e) -> e.exit = 0
    [] "fail" \in e.text -> FALSE
    [] OTHER -> TRUE
OutcomeKnown(e) == HasExit(e) \/ e.text # {}

IsTest(e) == e.tool = "bash" /\ e.family # "other" /\ OutcomeKnown(e)
TestRun(e) == [id |-> e.id, at |-> e.at, family |-> e.family, scope |-> Scope(e.args),
               target |-> e.path, success |-> Succeeded(e)]

\* A mutant: the runs are left in the order of the events.
CollectUnsorted(input) ==
  LET tests == Having(input.events, IsTest) IN [i \in DOMAIN tests |-> TestRun(tests[i])]

CollectTestRuns(input) ==
  LET tests == Having(input.events, IsTest)
  IN Sorted([i \in DOMAIN tests |-> TestRun(tests[i])], Earlier)

\* failedRunForSignature: the only failed run of the family at that time.
FailedRuns(sig, runs) ==
  Having(runs, LAMBDA r : ~r.success /\ r.family = sig.family /\ r.at = sig.at)

CollectFailures(input, runs) ==
  LET repeated == Having(input.failures, LAMBDA f : ~f.resolved /\ f.repeats >= 2
                                                    /\ Len(FailedRuns(f, runs)) = 1)
  IN Sorted([i \in DOMAIN repeated |->
               LET run == FailedRuns(repeated[i], runs)[1]
               IN [id |-> repeated[i].id, at |-> repeated[i].at, family |-> run.family,
                   scope |-> run.scope, target |-> run.target]],
            LAMBDA a, b : a.at < b.at)

(* ------------------------------ matching ------------------------------ *)

\* isRelevantScope: a targeted test bears on the file, on its directory or on
\* one above it.
IsRelevant(changed, scope, target) ==
  \/ scope = "broad"
  \/ /\ scope = "targeted" /\ changed.known
     /\ \/ target = changed.path
        \/ target = Front(changed.path)
        \/ target # <<>> /\ IsPrefix(target, changed.path)

InWindow(changed, at) == at > changed.at /\ at - changed.at <= Window
Bears(changed, run) == InWindow(changed, run.at) /\ IsRelevant(changed, run.scope, run.target)

VerificationConfidence(run, changed) ==
  (IF run.scope = "targeted" THEN 75 ELSE 65) - (IF run.at - changed.at > Delay THEN 15 ELSE 0)

\* matchTests: the most confident success first, the earliest of equals.
MatchTests(changed, runs) ==
  Sorted(Having(runs, LAMBDA r : r.success /\ Bears(changed, r)),
         LAMBDA a, b : LET x == VerificationConfidence(a, changed)
                           y == VerificationConfidence(b, changed)
                       IN x > y \/ (x = y /\ a.at < b.at))

\* contradictingTests: relevant runs in the window that did not succeed.
ContradictingTests(changed, runs) == Having(runs, LAMBDA r : ~r.success /\ Bears(changed, r))
FailuresAfter(changed, failures) == Having(failures, LAMBDA f : Bears(changed, f))

(* ------------------------------- drafts ------------------------------- *)

Draft(kind, confidence, changed, source, counter) ==
  [kind |-> kind, confidence |-> confidence, change |-> changed.id,
   supporting |-> {changed.id} \cup source, counter |-> counter]

Verified(changed, successes, runs, failures) ==
  LET best == Head(successes)
      later == Having(failures, LAMBDA f : f.at > best.at /\ f.family = best.family)
      counter == SourcesOf(ContradictingTests(changed, runs)) \cup SourcesOf(later)
      base == VerificationConfidence(best, changed)
  IN Draft("verification_detected", IF counter = {} THEN base ELSE base - 15,
           changed, {best.id}, counter)

\* One change: the success found, the failures repeated after it, or, when
\* its file is known and there is neither, the missing test.
DraftsFor(changed, runs, failures) ==
  LET successes == MatchTests(changed, runs)
      failed == FailuresAfter(changed, failures)
      Before(f) == Having(successes, LAMBDA r : r.at < f.at)
      Story(f) == IF Before(f) # <<>>
                  THEN Draft("repeated_regression", 95, changed, {f.id}, SourcesOf(Before(f)))
                  ELSE Draft("unresolved_failure_after_change", 90, changed, {f.id}, {})
  IN (IF successes # <<>> THEN {Verified(changed, successes, runs, failed)} ELSE {})
       \cup {Story(failed[i]) : i \in DOMAIN failed}
       \cup (IF failed = <<>> /\ successes = <<>> /\ changed.known
             THEN {Draft("code_change_without_relevant_test", 70, changed, {}, SourcesOf(runs))}
             ELSE {})

DetectVerification(input) ==
  LET changes == CollectChanges(input)
      runs == CollectTestRuns(input)
      failures == CollectFailures(input, runs)
  IN UNION {DraftsFor(changes[i], runs, failures) : i \in DOMAIN changes}

(* ------------------------------ property ------------------------------ *)

\* The drafts depend on what happened and when, not on the order in which the
\* events are read: the times of rows are whole seconds, hooks run concurrently,
\* and rows of the same second come in any order (DetectVerification; the
\* evidence of a coaching item would otherwise change from one run to the next).
OrderFree(input) ==
  \A p \in Bijection(DOMAIN input.events, DOMAIN input.events) :
    DetectVerification([input EXCEPT !.events = [i \in DOMAIN input.events |-> input.events[p[i]]]])
      = DetectVerification(input)
==============================================================================
