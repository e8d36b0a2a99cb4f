------------------------------ MODULE Scheduler ------------------------------
(***************************************************************************)
(* The runtime scheduler of cff: scheduler/scheduler.go.                    *)
(*                                                                         *)
(* Three kinds of goroutine share four channels.                           *)
(*                                                                         *)
(*   caller   Config.New, Enqueue ..., Enqueue, Wait                        *)
(*   loop     Scheduler.run, the only owner of the job graph                *)
(*   workers  the function worker, one per unit of Concurrency              *)
(*                                                                         *)
(*   enqueuec  caller -> loop     buffered, capacity 1                      *)
(*   readyc    loop   -> worker   unbuffered: a send is a rendezvous        *)
(*   donec     worker -> loop     buffered, capacity Concurrency            *)
(*   finishedc loop   -> caller   only ever closed                          *)
(*                                                                         *)
(* One action stands for the code a goroutine runs from one channel        *)
(* operation to the next; a branch of the select in the loop is one action, *)
(* together with the exit test that follows the select.                     *)
(***************************************************************************)
EXTENDS Integers, Sequences, FiniteSets

CONSTANTS
    Job,              \* the jobs the caller may enqueue
    Worker,           \* worker goroutines; Concurrency is how many there are
    NoJob,            \* currentJob = nil
    ContinueOnError,  \* Config.ContinueOnError
    HasEmitter,       \* Config.Emitter # nil
    MaxDeps           \* bound: the longest Dependencies list of a job

ASSUME WorkerAssumption == IsFiniteSet(Worker) /\ Worker # {}
ASSUME JobAssumption    == IsFiniteSet(Job) /\ NoJob \notin Job
ASSUME ConfigAssumption == ContinueOnError \in BOOLEAN /\ HasEmitter \in BOOLEAN
ASSUME BoundAssumption  == MaxDeps \in Nat

VARIABLES
    \* the caller
    caller,     \* "enqueueing" until Wait closes enqueuec, "waiting", "returned"
    result,     \* what Wait returned: "none" until it did, "nil", "ctx" or "err"
    enqueued,   \* the ScheduledJobs that Enqueue has created
    deps,       \* ScheduledJob.deps
    ctxDone,    \* ctx.Err() # nil, for the one context of jobs and Wait
    \* the channels
    enqueuec, donec,
    \* the locals of the loop
    loop,       \* "select", then "draining" (its defers), then "exited"
    accepting,  \* the local enqueuec is not nil yet
    ready, ongoing, pending, waiting,
    schedErr,   \* Scheduler.err: the jobs whose errors it combines
    emitted,    \* the last State the emitter was given
    \* the ScheduledJob fields owned by the loop
    remaining, consumers, done, err, invalid,
    \* the workers
    phase,      \* where the goroutine is
    current,    \* the job it holds
    outcome     \* jobResult.Err for that job

callerVars == <<caller, result, enqueued, deps>>
loopVars   == <<loop, accepting, ready, ongoing, pending, waiting, schedErr>>
jobVars    == <<remaining, consumers, done, err, invalid>>
workerVars == <<phase, current, outcome>>
vars == <<callerVars, ctxDone, enqueuec, donec, loopVars, emitted, jobVars,
          workerVars>>

Concurrency == Cardinality(Worker)

(* make(chan jobResult, c.Concurrency)                                     *)
DonecOneLarger == Concurrency + 1                                 \* mutant
DonecCapacity  == Concurrency

(***************************************************************************)
(* jobResult.Err. "fail" is an error the job returned, "exit" the error a  *)
(* worker reports for a job that ended its goroutine, "ctx" the error of   *)
(* the context, "invalid" the sentinel errJobInvalid.                       *)
(***************************************************************************)
Err == {"none", "fail", "exit", "ctx", "invalid"}

Result == [job : Job, err : Err]

StateReport == [Pending : Int, Ready : Int, Waiting : Int, IdleWorkers : Int,
                Concurrency : Int]

Occurrences(x, s) == {i \in DOMAIN s : s[i] = x}

Count(x, s) == Cardinality(Occurrences(x, s))

Members(s) == {s[i] : i \in DOMAIN s}

(***************************************************************************)
(* The order in which the consumers R reach remaining = 0 while the list s  *)
(* of consumers, which names a job once per dependency it has on the        *)
(* finished job, is walked from its front: that of their last occurrences.  *)
(***************************************************************************)
ReleaseOrders(R, s) ==
    {q \in [1..Cardinality(R) -> R] :
        /\ Members(q) = R
        /\ \A a, b \in DOMAIN q : a < b =>
              \E i \in Occurrences(q[b], s) :
                  \A k \in Occurrences(q[a], s) : k < i}

-----------------------------------------------------------------------------
Init ==
    /\ caller = "enqueueing" /\ result = "none"
    /\ enqueued = {} /\ deps = [j \in Job |-> <<>>]
    /\ ctxDone = FALSE
    /\ enqueuec = <<>> /\ donec = <<>>
    /\ loop = "select" /\ accepting = TRUE
    /\ ready = <<>> /\ ongoing = 0 /\ pending = 0 /\ waiting = 0
    /\ schedErr = {}
    /\ emitted = [Pending |-> 0, Ready |-> 0, Waiting |-> 0, IdleWorkers |-> 0,
                  Concurrency |-> 0]
    /\ remaining = [j \in Job |-> 0]
    /\ consumers = [j \in Job |-> <<>>]
    /\ done = [j \in Job |-> FALSE]
    /\ err = [j \in Job |-> "none"]
    /\ invalid = [j \in Job |-> FALSE]
    /\ phase = [w \in Worker |-> "idle"]
    /\ current = [w \in Worker |-> NoJob]
    /\ outcome = [w \in Worker |-> "none"]

-----------------------------------------------------------------------------
(* The caller                                                              *)

(* The Dependencies a caller can hold: jobs Enqueue already returned, in    *)
(* any order and possibly repeated (generated code repeats a task that      *)
(* provides two of the types another one consumes).                         *)
DependencyLists == UNION {[1..n -> enqueued] : n \in 0..MaxDeps}

Enqueue(j) ==
    /\ caller = "enqueueing"
    /\ j \notin enqueued
    /\ Len(enqueuec) < 1
    /\ \E ds \in DependencyLists : deps' = [deps EXCEPT ![j] = ds]
    /\ enqueued' = enqueued \union {j}
    /\ enqueuec' = Append(enqueuec, j)
    /\ UNCHANGED <<caller, result, ctxDone, donec, loopVars, emitted, jobVars,
                   workerVars>>

(* Wait closes enqueuec before it blocks.                                   *)
CallWait ==
    /\ caller = "enqueueing"
    /\ caller' = "waiting"
    /\ UNCHANGED <<result, enqueued, deps, ctxDone, enqueuec, donec, loopVars,
                   emitted, jobVars, workerVars>>

Closed == caller # "enqueueing"

(* What Wait returns once finishedc is closed.                              *)
ResultOfCtx == IF ctxDone THEN "ctx" ELSE "nil"                   \* mutant
FinalResult ==
    IF schedErr # {} THEN "err" ELSE IF ctxDone THEN "ctx" ELSE "nil"

ReturnFinished ==
    /\ caller = "waiting"
    /\ loop = "exited"
    /\ caller' = "returned"
    /\ result' = FinalResult
    /\ UNCHANGED <<enqueued, deps, ctxDone, enqueuec, donec, loopVars, emitted,
                   jobVars, workerVars>>

ReturnCtx ==
    /\ caller = "waiting"
    /\ ctxDone
    /\ caller' = "returned"
    /\ result' = "ctx"
    /\ UNCHANGED <<enqueued, deps, ctxDone, enqueuec, donec, loopVars, emitted,
                   jobVars, workerVars>>

(* The environment cancels the context, or its deadline passes.             *)
CancelCtx ==
    /\ ~ctxDone
    /\ ctxDone' = TRUE
    /\ UNCHANGED <<callerVars, enqueuec, donec, loopVars, emitted, jobVars,
                   workerVars>>

-----------------------------------------------------------------------------
(* The loop                                                                *)

(* The test after the select: all jobs finished and no more to come.        *)
WhenNonePending(pend, accept) ==                                  \* mutant
    IF pend = 0 THEN "draining" ELSE "select"
AfterSelect(pend, accept) ==
    IF pend = 0 /\ ~accept THEN "draining" ELSE "select"

(* ready.Remove(nextEl)                                                    *)
NotRemoved   == ready                                             \* mutant
WithoutFront == Tail(ready)

(* readyc <- next                                                          *)
Dispatch(w) ==
    /\ loop = "select"
    /\ ready # <<>>
    /\ phase[w] = "idle"
    /\ phase' = [phase EXCEPT ![w] = "got"]
    /\ current' = [current EXCEPT ![w] = Head(ready)]
    /\ ready' = WithoutFront
    /\ ongoing' = ongoing + 1
    /\ loop' = AfterSelect(pending, accepting)
    /\ UNCHANGED <<callerVars, ctxDone, enqueuec, donec, accepting, pending,
                   waiting, schedErr, emitted, jobVars, outcome>>

(* The positions of a dependency list whose job has not finished.           *)
EveryPosition(ds) == DOMAIN ds                                    \* mutant
Outstanding(ds) == {i \in DOMAIN ds : ~done[ds[i]]}

(* A job is born invalid if one of its dependencies has already failed.     *)
BornValid(ds) == FALSE                                            \* mutant
BornInvalid(ds) == \E i \in DOMAIN ds : done[ds[i]] /\ err[ds[i]] # "none"

(* job is appended to the consumers of each unfinished dependency, once for *)
(* every time the dependency is listed.                                     *)
SubscribeOnce(job, ds) ==                                         \* mutant
    [d \in Job |-> IF d \in Members(ds) /\ ~done[d]
                    THEN Append(consumers[d], job) ELSE consumers[d]]
Subscribe(job, ds) ==
    [d \in Job |->
        IF done[d] THEN consumers[d]
        ELSE consumers[d] \o [i \in 1..Count(d, ds) |-> job]]

(* job, ok := <-enqueuec, with ok                                          *)
Admit ==
    /\ loop = "select"
    /\ accepting
    /\ enqueuec # <<>>
    /\ LET job == Head(enqueuec)
           ds  == deps[job]
       IN  /\ consumers' = Subscribe(job, ds)
           /\ remaining' = [remaining EXCEPT ![job] = Cardinality(Outstanding(ds))]
           /\ invalid' = [invalid EXCEPT ![job] = BornInvalid(ds)]
           /\ IF Outstanding(ds) = {}
              THEN ready' = Append(ready, job) /\ UNCHANGED waiting
              ELSE waiting' = waiting + 1 /\ UNCHANGED ready
    /\ enqueuec' = Tail(enqueuec)
    /\ pending' = pending + 1
    /\ loop' = AfterSelect(pending', accepting)
    /\ UNCHANGED <<callerVars, ctxDone, donec, accepting, ongoing, schedErr,
                   emitted, done, err, workerVars>>

(* job, ok := <-enqueuec, with ~ok: closed and drained                     *)
StopWithoutTest ==                                                \* mutant
    /\ loop = "select" /\ accepting /\ Closed /\ enqueuec = <<>>
    /\ accepting' = FALSE
    /\ UNCHANGED <<callerVars, ctxDone, enqueuec, donec, loop, ready, ongoing,
                   pending, waiting, schedErr, emitted, jobVars, workerVars>>
StopAccepting ==
    /\ loop = "select"
    /\ accepting
    /\ Closed /\ enqueuec = <<>>
    /\ accepting' = FALSE
    /\ loop' = AfterSelect(pending, FALSE)
    /\ UNCHANGED <<callerVars, ctxDone, enqueuec, donec, ready, ongoing,
                   pending, waiting, schedErr, emitted, jobVars, workerVars>>

(* The part of the res := <-donec branch that every result goes through.    *)
TakeStillOngoing(res) ==                                          \* mutant
    /\ donec' = Tail(donec)
    /\ done' = [done EXCEPT ![res.job] = TRUE]
    /\ err' = [err EXCEPT ![res.job] = res.err]
    /\ pending' = pending - 1
    /\ UNCHANGED ongoing
TakeResult(res) ==
    /\ donec' = Tail(donec)
    /\ done' = [done EXCEPT ![res.job] = TRUE]
    /\ err' = [err EXCEPT ![res.job] = res.err]
    /\ pending' = pending - 1
    /\ ongoing' = ongoing - 1

(* Whether the loop returns early on res.                                   *)
Quits(res) == res.err # "none" /\ ~ContinueOnError

(* res := <-donec for a failure without ContinueOnError: return at once.    *)
CollectAndQuit ==
    /\ loop = "select"
    /\ donec # <<>>
    /\ Quits(Head(donec))
    /\ TakeResult(Head(donec))
    /\ schedErr' = {Head(donec).job}
    /\ loop' = "draining"
    /\ UNCHANGED <<callerVars, ctxDone, enqueuec, accepting, ready, waiting,
                   emitted, remaining, consumers, invalid, workerVars>>

(* The errors Scheduler.err combines after res: the sentinel is left out.   *)
Combine(res) ==
    IF res.err \in {"none", "invalid"} THEN schedErr
    ELSE schedErr \union {res.job}

(* invalid after res: a failed job invalidates its direct consumers.        *)
InvalidateOfFailed(res) ==                                        \* mutant
    [c \in Job |-> \/ invalid[c]
                   \/ /\ res.err \notin {"none", "invalid"}
                      /\ c \in Members(consumers[res.job])]
Invalidate(res) ==
    [c \in Job |-> \/ invalid[c]
                   \/ res.err # "none" /\ c \in Members(consumers[res.job])]

(* remaining after the consumers of job have been notified.                 *)
Notified(job) ==
    [c \in Job |-> remaining[c] - Count(c, consumers[job])]

(* The consumers of job for which it was the last outstanding dependency.   *)
ReleasedEarly(job) ==                                             \* mutant
    {c \in Members(consumers[job]) : Notified(job)[c] \in {0, 1}}
Released(job) == {c \in Members(consumers[job]) : Notified(job)[c] = 0}

(* res := <-donec otherwise: record, invalidate, notify the consumers.      *)
Collect ==
    /\ loop = "select"
    /\ donec # <<>>
    /\ ~Quits(Head(donec))
    /\ TakeResult(Head(donec))
    /\ schedErr' = Combine(Head(donec))
    /\ invalid' = Invalidate(Head(donec))
    /\ remaining' = Notified(Head(donec).job)
    /\ LET job == Head(donec).job
       IN  /\ \E q \in ReleaseOrders(Released(job), consumers[job]) :
                ready' = ready \o q
           /\ waiting' = waiting - Cardinality(Released(job))
    /\ loop' = AfterSelect(pending', accepting)
    /\ UNCHANGED <<callerVars, ctxDone, enqueuec, accepting, emitted,
                   consumers, workerVars>>

(* idleWorkers                                                             *)
IdleUnclamped(concurrency, busy) == concurrency - busy            \* mutant
IdleWorkers(concurrency, busy) ==
    IF concurrency - busy < 0 THEN 0 ELSE concurrency - busy

(* <-tickerC                                                               *)
Emit ==
    /\ HasEmitter
    /\ loop = "select"
    /\ emitted' = [Pending |-> pending, Ready |-> Len(ready),
                   Waiting |-> waiting,
                   IdleWorkers |-> IdleWorkers(Concurrency, ongoing),
                   Concurrency |-> Concurrency]
    /\ loop' = AfterSelect(pending, accepting)
    /\ UNCHANGED <<callerVars, ctxDone, enqueuec, donec, accepting, ready,
                   ongoing, pending, waiting, schedErr, jobVars, workerVars>>

(* The deferred drain of s.enqueuec.                                        *)
Drain ==
    /\ loop = "draining"
    /\ enqueuec # <<>>
    /\ enqueuec' = Tail(enqueuec)
    /\ UNCHANGED <<callerVars, ctxDone, donec, loopVars, emitted, jobVars,
                   workerVars>>

(* The drain ends when enqueuec is closed; close(readyc), close(finishedc). *)
ExitUndrained ==                                                  \* mutant
    /\ loop = "draining"
    /\ loop' = "exited"
    /\ UNCHANGED <<callerVars, ctxDone, enqueuec, donec, accepting, ready,
                   ongoing, pending, waiting, schedErr, emitted, jobVars,
                   workerVars>>
ExitLoop ==
    /\ loop = "draining"
    /\ Closed /\ enqueuec = <<>>
    /\ loop' = "exited"
    /\ UNCHANGED <<callerVars, ctxDone, enqueuec, donec, accepting, ready,
                   ongoing, pending, waiting, schedErr, emitted, jobVars,
                   workerVars>>

-----------------------------------------------------------------------------
(* The workers. "idle": receiving from readyc (or not spawned yet); "got":  *)
(* holds a job; "running": in job.run; "posting": sending on donec;         *)
(* "exited": readyc was closed.                                             *)

(* The worker reads ctx.Err() and job.invalid and runs the job or not.      *)
Begin(w) ==
    /\ phase[w] = "got"
    /\ \/ /\ ctxDone
          /\ phase' = [phase EXCEPT ![w] = "posting"]
          /\ outcome' = [outcome EXCEPT ![w] = "ctx"]
       \/ /\ ~ctxDone
          /\ invalid[current[w]]
          /\ phase' = [phase EXCEPT ![w] = "posting"]
          /\ outcome' = [outcome EXCEPT ![w] = "invalid"]
       \/ /\ ~ctxDone
          /\ ~invalid[current[w]]
          /\ phase' = [phase EXCEPT ![w] = "running"]
          /\ UNCHANGED outcome
    /\ UNCHANGED <<callerVars, ctxDone, enqueuec, donec, loopVars, emitted,
                   jobVars, current>>

(* job.run returns nil or an error, or ends the goroutine with Goexit, for  *)
(* which the deferred function posts an error of its own.                   *)
Finish(w) ==
    /\ phase[w] = "running"
    /\ \E e \in {"none", "fail", "exit"} : outcome' = [outcome EXCEPT ![w] = e]
    /\ phase' = [phase EXCEPT ![w] = "posting"]
    /\ UNCHANGED <<callerVars, ctxDone, enqueuec, donec, loopVars, emitted,
                   jobVars, current>>

(* donec <- res, blocking while donec is full. A goroutine that ended with  *)
(* Goexit spawns its replacement here, which takes its name.                *)
Post(w) ==
    /\ phase[w] = "posting"
    /\ Len(donec) < DonecCapacity
    /\ donec' = Append(donec, [job |-> current[w], err |-> outcome[w]])
    /\ phase' = [phase EXCEPT ![w] = "idle"]
    /\ current' = [current EXCEPT ![w] = NoJob]
    /\ outcome' = [outcome EXCEPT ![w] = "none"]
    /\ UNCHANGED <<callerVars, ctxDone, enqueuec, loopVars, emitted, jobVars>>

(* range readyc ends: the loop has closed it.                               *)
ExitWorker(w) ==
    /\ phase[w] = "idle"
    /\ loop = "exited"
    /\ phase' = [phase EXCEPT ![w] = "exited"]
    /\ UNCHANGED <<callerVars, ctxDone, enqueuec, donec, loopVars, emitted,
                   jobVars, current, outcome>>

-----------------------------------------------------------------------------
(* Nothing is left to do: Wait returned, the loop is gone, and every worker *)
(* has exited or is blocked for good on a donec nobody receives from.       *)
Terminated ==
    /\ caller = "returned" /\ loop = "exited"
    /\ \A w \in Worker : \/ phase[w] = "exited"
                         \/ phase[w] = "posting" /\ Len(donec) = DonecCapacity
    /\ UNCHANGED vars

Caller == (\E j \in Job : Enqueue(j)) \/ CallWait \/ ReturnFinished \/ ReturnCtx

Loop == \/ \E w \in Worker : Dispatch(w)
        \/ Admit \/ StopAccepting \/ CollectAndQuit \/ Collect \/ Emit
        \/ Drain \/ ExitLoop

WorkerStep(w) == Begin(w) \/ Finish(w) \/ Post(w) \/ ExitWorker(w)

Next == \/ Caller \/ CancelCtx \/ Loop
        \/ \E w \in Worker : WorkerStep(w)
        \/ Terminated

Spec == Init /\ [][Next]_vars

(***************************************************************************)
(* Fairness. Go runs every goroutine that can run, so the deferred drain,  *)
(* the workers and Wait get weak fairness; a running job is assumed to     *)
(* end. The select of the loop picks at random among the branches that can *)
(* proceed, so no branch that stays possible is passed over forever, the   *)
(* ticker's included: weak fairness of each branch on its own. The caller  *)
(* is assumed to call Wait once, as the generated code does; that it        *)
(* enqueues anything, and that the context is ever cancelled, is not.       *)
(***************************************************************************)
Fairness ==
    /\ WF_vars(CallWait) /\ WF_vars(ReturnFinished \/ ReturnCtx)
    /\ WF_vars(\E w \in Worker : Dispatch(w))
    /\ WF_vars(Admit) /\ WF_vars(StopAccepting)
    /\ WF_vars(Collect \/ CollectAndQuit)
    /\ WF_vars(Drain) /\ WF_vars(ExitLoop)
    /\ \A w \in Worker : WF_vars(WorkerStep(w))

FairSpec == Spec /\ Fairness

-----------------------------------------------------------------------------
(* Safety                                                                  *)

CallerType ==
    /\ caller \in {"enqueueing", "waiting", "returned"}
    /\ result \in {"none", "nil", "ctx", "err"}
    /\ enqueued \subseteq Job
    /\ deps \in [Job -> Seq(Job)]
    /\ ctxDone \in BOOLEAN

ChannelType ==
    /\ enqueuec \in Seq(Job) /\ Len(enqueuec) <= 1
    /\ donec \in Seq(Result) /\ Len(donec) <= Concurrency

LoopType ==
    /\ loop \in {"select", "draining", "exited"}
    /\ accepting \in BOOLEAN
    /\ ready \in Seq(Job)
    /\ ongoing \in Int /\ pending \in Int /\ waiting \in Int
    /\ schedErr \subseteq Job
    /\ emitted \in StateReport

JobType ==
    /\ remaining \in [Job -> Int]
    /\ consumers \in [Job -> Seq(Job)]
    /\ done \in [Job -> BOOLEAN]
    /\ err \in [Job -> Err]
    /\ invalid \in [Job -> BOOLEAN]

WorkerType ==
    /\ phase \in [Worker -> {"idle", "got", "running", "posting", "exited"}]
    /\ current \in [Worker -> Job \union {NoJob}]
    /\ outcome \in [Worker -> Err]

(* Every variable has its type and no channel holds more than its capacity. *)
TypeOK == CallerType /\ ChannelType /\ LoopType /\ JobType /\ WorkerType

(* The jobs the loop has taken out of enqueuec, while it has not quit.      *)
Admitted == enqueued \ Members(enqueuec)

(* The jobs handed to a worker whose results the loop has not seen yet.     *)
Held == {current[w] : w \in Worker} \ {NoJob}

Reported == {donec[i].job : i \in DOMAIN donec}

Busy == {w \in Worker : phase[w] \in {"got", "running", "posting"}}

(* A job is in one place at a time, and once: in enqueuec, waiting for      *)
(* dependencies, in the ready list, with one worker, in donec, or done. So  *)
(* no job is ever handed out, run or counted twice.                         *)
OnePlace ==
    /\ \A a, b \in DOMAIN ready : ready[a] = ready[b] => a = b
    /\ \A a, b \in DOMAIN donec : donec[a].job = donec[b].job => a = b
    /\ \A v, w \in Busy : current[v] = current[w] => v = w
    /\ \A j \in Members(enqueuec) :
          j \notin Members(ready) \union Held \union Reported /\ ~done[j]
    /\ \A j \in Members(ready) : j \notin Held \union Reported /\ ~done[j]
    /\ \A j \in Held : j \notin Reported /\ ~done[j]
    /\ \A j \in Reported : ~done[j]

(* A job runs only after every job it depends on has finished successfully: *)
(* "j3 will not be run until j1 and j2 have finished successfully."         *)
DependenciesFirst ==
    \A w \in Worker : phase[w] = "running" =>
        \A i \in DOMAIN deps[current[w]] :
            LET d == deps[current[w]][i] IN done[d] /\ err[d] = "none"

(* The three counters of the loop are what their comments say, in spite of  *)
(* jobs that change hands without the loop noticing.                        *)
CountersAgree ==
    loop = "select" =>
        /\ ongoing = Cardinality(Busy) + Len(donec)
        /\ waiting = Cardinality({j \in Admitted : remaining[j] > 0})
        /\ pending = Len(ready) + waiting + ongoing
        /\ pending = Cardinality({j \in Admitted : ~done[j]})

(* remaining is the number of times a job will still be notified: for every *)
(* unfinished dependency, as often as it is listed, duplicates included.    *)
RemainingExact ==
    loop = "select" => \A j \in Admitted :
        /\ remaining[j] = Cardinality(Outstanding(deps[j]))
        /\ \A d \in Job :
              ~done[d] => Count(j, consumers[d]) = Count(d, deps[j])

(* The verdict a worker reads in job.invalid is right when the job becomes  *)
(* ready: all dependencies are finished, and it is set iff one of them did  *)
(* not succeed, whether that was known before or after the job was admitted.*)
SettledVerdict ==
    \A j \in Members(ready) \union Held :
        /\ \A i \in DOMAIN deps[j] : done[deps[j][i]]
        /\ invalid[j] <=> \E i \in DOMAIN deps[j] : err[deps[j][i]] # "none"

(* The result of Wait is the truth about the jobs. nil: each of them ran    *)
(* and succeeded. An error, with ContinueOnError: each of them finished and *)
(* the error combines exactly the failures that are not the sentinel;       *)
(* without: it is the error of one job, which did fail.                     *)
WaitOutcome ==
    /\ result = "nil" => \A j \in enqueued : done[j] /\ err[j] = "none"
    /\ result = "err" =>
         /\ schedErr # {}
         /\ \A j \in schedErr : done[j] /\ err[j] \in {"fail", "exit", "ctx"}
         /\ IF ContinueOnError
            THEN \A j \in enqueued :
                    done[j] /\ (err[j] \notin {"none", "invalid"} => j \in schedErr)
            ELSE Cardinality(schedErr) = 1

(* The loop never writes a field of a job that a worker may be reading:     *)
(* "The scheduler loop is the only goroutine permitted to modify            *)
(* ScheduledJob", and workers read invalid without a lock.                  *)
NoRacyWrite ==
    [][\A j \in Held : invalid'[j] = invalid[j] /\ deps'[j] = deps[j]]_vars

(* What the emitter is told is consistent: the State's parts add up, and no *)
(* worker is reported idle that holds a job.                                *)
HonestReport ==
    [][emitted' # emitted =>
        /\ emitted'.Pending = emitted'.Ready + emitted'.Waiting
                                + Cardinality(Held) + Len(donec)
        /\ emitted'.IdleWorkers <= Concurrency - Cardinality(Busy)
        /\ emitted'.IdleWorkers >= 0]_vars

-----------------------------------------------------------------------------
(* Liveness                                                                *)

(* Once called, Wait returns, provided jobs do.                             *)
WaitReturns == caller = "waiting" ~> caller = "returned"

(* Enqueue never blocks the caller for good, even after the loop has quit:  *)
(* that is what the deferred drain is for.                                  *)
EnqueueUnblocks == enqueuec # <<>> ~> enqueuec = <<>>

(* All worker goroutines end after Wait was called: none is leaked.         *)
WorkersExit ==
    caller = "waiting" ~> \A w \in Worker : phase[w] = "exited"

-----------------------------------------------------------------------------
(* A claim of the comments                                                 *)

(* Config.New, of donec: "Workers should always be able to post their       *)
(* results, even if the Scheduler Loop is busy." Once the loop has left its *)
(* select nobody receives from donec, so a worker that finds it full then   *)
(* blocks for ever.                                                        *)
NeverStranded ==
    loop # "select" =>
        \A w \in Worker : phase[w] = "posting" => Len(donec) < DonecCapacity
=============================================================================
