------------------------- MODULE SchedulerRefinement -------------------------
(***************************************************************************)
(* The scheduler implements JobGraph. A job's abstract status is decided by *)
(* the worker that holds it: it is settled when its outcome is known to the *)
(* worker, long before the loop hears of it.                                *)
(***************************************************************************)
EXTENDS Scheduler

(* The status of a job whose jobResult.Err is e.                            *)
Verdict(e) ==
    CASE e = "none"              -> "succeeded"
      [] e \in {"fail", "exit"}   -> "failed"
      [] e \in {"ctx", "invalid"} -> "skipped"

Holder(j) == {w \in Worker : current[w] = j}

Results(j) == {donec[i] : i \in {k \in DOMAIN donec : donec[k].job = j}}

StatusOf(j) ==
    IF j \notin enqueued THEN "unknown"
    ELSE IF done[j] THEN Verdict(err[j])
    ELSE IF \E r \in Results(j) : TRUE
         THEN Verdict((CHOOSE r \in Results(j) : TRUE).err)
    ELSE IF \E w \in Holder(j) : phase[w] = "posting"
         THEN Verdict(outcome[CHOOSE w \in Holder(j) : phase[w] = "posting"])
    ELSE IF \E w \in Holder(j) : phase[w] = "running" THEN "running"
    ELSE "submitted"

Graph == INSTANCE JobGraph WITH
    continueOnError <- ContinueOnError,
    status    <- [j \in Job |-> StatusOf(j)],
    prereqs   <- [j \in Job |-> Members(deps[j])],
    waitState <- IF caller = "enqueueing" THEN "open" ELSE caller,
    answer    <- result,
    cancelled <- ctxDone

(* Every behaviour of the scheduler is one JobGraph allows: jobs start only *)
(* after what they need succeeded, are settled once, and Wait does not lie. *)
ImplementsJobGraph == Graph!GraphSpec
=============================================================================
