------------------------------ MODULE JobGraph -------------------------------
(***************************************************************************)
(* What cff's scheduler promises to its caller, without goroutines,         *)
(* channels, counters or queues: jobs with prerequisites are submitted one  *)
(* by one, each is settled at most once, and Wait tells how it went.        *)
(* Scheduler implements this specification (SchedulerRefinement), and the   *)
(* code cff generates for a flow or a parallel relies on nothing else.      *)
(***************************************************************************)
EXTENDS FiniteSets

CONSTANT Job    \* the jobs that may be submitted

VARIABLES
    continueOnError,    \* whether failures leave unrelated jobs running
    status,     \* what became of each job so far
    prereqs,    \* the jobs each job needs to succeed first
    waitState,  \* "open" until Wait is called, "waiting", "returned"
    answer,     \* what Wait returned
    cancelled   \* whether the context was cancelled

graphVars == <<continueOnError, status, prereqs, waitState, answer, cancelled>>

Status == {"unknown", "submitted", "running", "succeeded", "failed", "skipped"}

GraphInit ==
    /\ continueOnError \in BOOLEAN
    /\ status = [j \in Job |-> "unknown"]
    /\ prereqs = [j \in Job |-> {}]
    /\ waitState = "open" /\ answer = "none"
    /\ cancelled = FALSE

Submitted == {j \in Job : status[j] # "unknown"}

Settled(j) == status[j] \in {"succeeded", "failed", "skipped"}

(* A job may only depend on jobs submitted before it.                       *)
Submit(j, ps) ==
    /\ waitState = "open"
    /\ j \notin Submitted
    /\ ps \subseteq Submitted
    /\ status' = [status EXCEPT ![j] = "submitted"]
    /\ prereqs' = [prereqs EXCEPT ![j] = ps]
    /\ UNCHANGED <<waitState, answer, cancelled>>

(* A job starts only when everything it needs has succeeded ...             *)
Start(j) ==
    /\ status[j] = "submitted"
    /\ ~cancelled
    /\ \A p \in prereqs[j] : status[p] = "succeeded"
    /\ status' = [status EXCEPT ![j] = "running"]
    /\ UNCHANGED <<prereqs, waitState, answer, cancelled>>

Finish(j) ==
    /\ status[j] = "running"
    /\ \E s \in {"succeeded", "failed"} : status' = [status EXCEPT ![j] = s]
    /\ UNCHANGED <<prereqs, waitState, answer, cancelled>>

(* ... and is skipped, never run, for a cancelled context or a prerequisite *)
(* that did not succeed, once all of them are settled.                      *)
Skip(j) ==
    /\ status[j] = "submitted"
    /\ \A p \in prereqs[j] : Settled(p)
    /\ cancelled \/ \E p \in prereqs[j] : status[p] # "succeeded"
    /\ status' = [status EXCEPT ![j] = "skipped"]
    /\ UNCHANGED <<prereqs, waitState, answer, cancelled>>

Cancel ==
    /\ ~cancelled
    /\ cancelled' = TRUE
    /\ UNCHANGED <<status, prereqs, waitState, answer>>

AwaitJobs ==
    /\ waitState = "open"
    /\ waitState' = "waiting"
    /\ UNCHANGED <<status, prereqs, answer, cancelled>>

(* nil promises that every job succeeded; an error that some job did not,   *)
(* and with ContinueOnError that every job was seen to; "ctx" is the error  *)
(* of the context, and promises nothing about the jobs.                     *)
Answer(r) ==
    /\ waitState = "waiting"
    /\ \/ r = "nil" /\ \A j \in Submitted : status[j] = "succeeded"
       \/ /\ r = "err"
          /\ \E j \in Submitted : status[j] \in {"failed", "skipped"}
          /\ continueOnError => \A j \in Submitted : Settled(j)
       \/ r = "ctx" /\ cancelled
    /\ waitState' = "returned" /\ answer' = r
    /\ UNCHANGED <<status, prereqs, cancelled>>

GraphNext ==
    /\ \/ \E j \in Job : \/ \E ps \in SUBSET Job : Submit(j, ps)
                         \/ Start(j) \/ Finish(j) \/ Skip(j)
       \/ Cancel \/ AwaitJobs
       \/ \E r \in {"nil", "err", "ctx"} : Answer(r)
    /\ UNCHANGED continueOnError

GraphSpec == GraphInit /\ [][GraphNext]_graphVars
=============================================================================
