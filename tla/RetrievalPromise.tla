-------------------------- MODULE RetrievalPromise --------------------------
(***************************************************************************)
(* What the external retrieval promises about one job per distinct         *)
(* question: a request never disturbs the job that is being worked on, one *)
(* job is worked on at a time, the most important one first, and a job is  *)
(* only called done when its answer was stored.  RetrievalQueue implements *)
(* it.                                                                     *)
(***************************************************************************)
CONSTANTS
    Job,            \* the jobs
    Outranks(_, _), \* which job is to be taken first
    None            \* no job

VARIABLES
    status,     \* the state of every job
    held,       \* the job being worked on, or None
    answered    \* the jobs with a stored answer

promised == <<status, held, answered>>

Init ==
    /\ status = [j \in Job |-> "none"]
    /\ held = None /\ answered = {}

Ask(j) ==
    /\ status' = [status EXCEPT ![j] = IF @ = "running" THEN "running" ELSE "queued"]
    /\ UNCHANGED <<held, answered>>

Take(j) ==
    /\ held = None /\ status[j] = "queued"
    /\ \A other \in Job : status[other] = "queued" => ~ Outranks(other, j)
    /\ status' = [status EXCEPT ![j] = "running"]
    /\ held' = j
    /\ UNCHANGED answered

Learn ==
    /\ held # None
    /\ answered' = answered \cup {held}
    /\ UNCHANGED <<status, held>>

Close(outcome) ==
    /\ held # None /\ (outcome = "done" => held \in answered)
    /\ status' = [status EXCEPT ![held] = outcome]
    /\ held' = None
    /\ UNCHANGED answered

(* The worker is gone, and the job stays running. *)
Abandon ==
    /\ held # None /\ held' = None
    /\ UNCHANGED <<status, answered>>

Next ==
    \/ \E j \in Job : Ask(j) \/ Take(j)
    \/ Learn \/ Abandon
    \/ \E outcome \in {"done", "failed"} : Close(outcome)

Spec == Init /\ [][Next]_promised
=============================================================================
