----------------------------- MODULE FlowRuntime -----------------------------
(***************************************************************************)
(* The code cff generates for a cff.Flow (internal/templates/flow), running *)
(* on a scheduler that keeps the promises of JobGraph.                      *)
(*                                                                         *)
(* The function that replaces the cff.Flow call enqueues one job per task   *)
(* and per predicate, waits, copies the results and reports. A task's       *)
(* closure consults its predicate, calls the user's function, falls back    *)
(* and reports; it shares with the function the variables of the results    *)
(* and the flag ran, and it may well outlive the function.                  *)
(*                                                                         *)
(* A task stands for the types it provides. The flow is a variable that     *)
(* never changes: all flows over Task are checked at once.                  *)
(***************************************************************************)
EXTENDS Naturals, Sequences, FiniteSets

CONSTANTS
    Task,           \* the tasks, numbered in the order of TopoFuncs
    MaxSpecial,     \* bound: tasks that have a predicate or a FallbackWith
    MaxSources      \* bound: tasks that need no other task

ASSUME TaskAssumption == Task \subseteq Nat /\ IsFiniteSet(Task)
ASSUME FlowBounds == MaxSpecial \in Nat /\ MaxSources \in Nat

VARIABLES
    \* the flow
    needs,      \* the tasks that provide the inputs of a task
    predNeeds,  \* and those of its predicate
    guarded,    \* the tasks that have a predicate
    fallback,   \* the tasks that have a FallbackWith
    \* the scheduler
    status, prereqs, waitState, answer, cancelled,
    \* the function that replaces the call of cff.Flow
    main,       \* "enqueueing", "waiting", "returning", "finished"
    tasks,      \* the tasks enqueued and not yet visited by the deferred scan
    results,    \* the variables given to cff.Results
    flowEvents, \* what the FlowEmitter was told
    \* the variables the jobs share with it and with each other
    predicate,  \* p<n> and p<n>PanicRecover
    value,      \* v<n>
    ran,        \* task<n>.ran
    \* the closures
    step,       \* where the closure of a task is
    ended,      \* how the user's function ended
    events      \* what the TaskEmitter was told

flowVars  == <<needs, predNeeds, guarded, fallback>>
graphVars == <<status, prereqs, waitState, answer, cancelled>>
mainVars  == <<main, tasks, results, flowEvents>>
taskVars  == <<predicate, value, ran, step, ended, events>>
vars == <<flowVars, graphVars, mainVars, taskVars>>

TaskJob(t) == <<"task", t>>
PredJob(t) == <<"predicate", t>>

Graph == INSTANCE JobGraph WITH
    Job <- {"task", "predicate"} \X Task, continueOnError <- FALSE

(* What a TaskEmitter can be told of the end of a task.                     *)
Verdict == {"TaskSuccess", "TaskError", "TaskErrorRecovered", "TaskPanic",
            "TaskPanicRecovered"}
TaskEvent == Verdict \union {"TaskSkipped", "TaskDone"}
FlowEvent == {"FlowSuccess", "FlowError", "FlowDone"}

Told(t) == {events[t][i] : i \in DOMAIN events[t]}

-----------------------------------------------------------------------------
Earlier(t) == {s \in Task : s < t}

(* Any flow the compiler accepts: acyclic, hence sortable.                  *)
Init ==
    /\ needs \in [Task -> SUBSET Task] /\ \A t \in Task : needs[t] \subseteq Earlier(t)
    /\ Cardinality({t \in Task : needs[t] = {}}) <= MaxSources
    /\ guarded \in SUBSET Task /\ fallback \in SUBSET Task
    /\ Cardinality(guarded \union fallback) <= MaxSpecial
    /\ predNeeds \in [Task -> SUBSET Task]
    /\ \A t \in Task : predNeeds[t] \subseteq IF t \in guarded THEN Earlier(t) ELSE {}
    /\ Graph!GraphInit
    /\ main = "enqueueing" /\ tasks = <<>> /\ flowEvents = <<>>
    /\ results = [t \in Task |-> "unset"]
    /\ predicate = [t \in Task |-> "unset"]
    /\ value = [t \in Task |-> "zero"]
    /\ ran = [t \in Task |-> FALSE]
    /\ step = [t \in Task |-> "idle"]
    /\ ended = [t \in Task |-> "no"]
    /\ events = [t \in Task |-> <<>>]

-----------------------------------------------------------------------------
(* The function                                                            *)

(* Tasks are numbered in the order of TopoFuncs, which is topological and    *)
(* puts a predicate somewhere before its task.                              *)
EnqueuePredicate(t) ==
    /\ main = "enqueueing"
    /\ t \in guarded
    /\ Graph!Submit(PredJob(t), {TaskJob(d) : d \in predNeeds[t]})
    /\ UNCHANGED <<flowVars, mainVars, taskVars>>

TaskWithoutPredicate(t) == {TaskJob(d) : d \in needs[t]}          \* mutant
Dependencies(t) ==
    {TaskJob(d) : d \in needs[t]}
        \union (IF t \in guarded THEN {PredJob(t)} ELSE {})

EnqueueTask(t) ==
    /\ main = "enqueueing"
    /\ \A s \in Earlier(t) : TaskJob(s) \in Graph!Submitted
    /\ Graph!Submit(TaskJob(t), Dependencies(t))
    /\ tasks' = Append(tasks, t)
    /\ UNCHANGED <<flowVars, main, results, flowEvents, taskVars>>

Await ==
    /\ main = "enqueueing"
    /\ \A t \in Task : TaskJob(t) \in Graph!Submitted
    /\ main' = "waiting"
    /\ Graph!AwaitJobs
    /\ UNCHANGED <<flowVars, tasks, results, flowEvents, taskVars>>

(* sched.Wait returns r; only if it is nil are the results copied.          *)
Succeed ==
    /\ main = "waiting"
    /\ Graph!Answer("nil")
    /\ results' = value
    /\ flowEvents' = Append(flowEvents, "FlowSuccess")
    /\ main' = "returning"
    /\ UNCHANGED <<flowVars, tasks, taskVars>>

CopyAnyway ==                                                     \* mutant
    /\ main = "waiting"
    /\ \E r \in {"err", "ctx"} : Graph!Answer(r)
    /\ results' = value
    /\ flowEvents' = Append(flowEvents, "FlowError")
    /\ main' = "returning"
    /\ UNCHANGED <<flowVars, tasks, taskVars>>
Fail ==
    /\ main = "waiting"
    /\ \E r \in {"err", "ctx"} : Graph!Answer(r)
    /\ flowEvents' = Append(flowEvents, "FlowError")
    /\ main' = "returning"
    /\ UNCHANGED <<flowVars, tasks, results, taskVars>>

(* The deferred scan for tasks that did not run, one at a time ...          *)
ReportSkipped ==
    /\ main = "returning"
    /\ tasks # <<>>
    /\ LET t == Head(tasks)
       IN  events' = IF ran[t] THEN events
                     ELSE [events EXCEPT ![t] = Append(@, "TaskSkipped")]
    /\ tasks' = Tail(tasks)
    /\ UNCHANGED <<flowVars, graphVars, main, results, flowEvents, predicate,
                   value, ran, step, ended>>

(* ... and after it FlowDone.                                               *)
ReturnAgain ==                                                    \* mutant
    /\ main = "returning"
    /\ tasks = <<>>
    /\ flowEvents' = Append(flowEvents, "FlowDone")
    /\ UNCHANGED <<flowVars, graphVars, main, tasks, results, taskVars>>
Return ==
    /\ main = "returning"
    /\ tasks = <<>>
    /\ flowEvents' = Append(flowEvents, "FlowDone")
    /\ main' = "finished"
    /\ UNCHANGED <<flowVars, graphVars, tasks, results, taskVars>>

-----------------------------------------------------------------------------
(* The predicates                                                          *)

StartPredicate(t) ==
    /\ Graph!Start(PredJob(t))
    /\ UNCHANGED <<flowVars, mainVars, taskVars>>

(* The predicate returns a verdict, panics, which is recovered and kept for *)
(* the task, or ends its goroutine, which fails the job.                    *)
EndPredicate(t) ==
    /\ Graph!Finish(PredJob(t))
    /\ \/ /\ status'[PredJob(t)] = "succeeded"
          /\ \E p \in {"true", "false", "panic"} :
                predicate' = [predicate EXCEPT ![t] = p]
       \/ /\ status'[PredJob(t)] = "failed"
          /\ UNCHANGED predicate
    /\ UNCHANGED <<flowVars, mainVars, value, ran, step, ended, events>>

-----------------------------------------------------------------------------
(* The tasks. "calling": in the user's function; "called": it has ended,   *)
(* ran is not stored yet; "leaving": the deferred functions that report.    *)

Allowed(t) == t \in guarded => predicate[t] = "true"

StartTask(t) ==
    /\ Graph!Start(TaskJob(t))
    /\ step' = [step EXCEPT ![t] = IF Allowed(t) THEN "calling" ELSE "leaving"]
    /\ UNCHANGED <<flowVars, mainVars, predicate, value, ran, ended, events>>

(* The user's function returns: values, and for a fallible task an error,   *)
(* which a fallback replaces.                                               *)
ReportBoth(t) ==                                                  \* mutant
    /\ step[t] = "calling"
    /\ \/ /\ ended' = [ended EXCEPT ![t] = "ok"]
          /\ value' = [value EXCEPT ![t] = "computed"]
          /\ events' = [events EXCEPT ![t] = Append(@, "TaskSuccess")]
       \/ /\ ended' = [ended EXCEPT ![t] = "error"]
          /\ value' = [value EXCEPT ![t] = IF t \in fallback THEN "fallback"
                                           ELSE "computed"]
          /\ events' = [events EXCEPT ![t] =
                IF t \in fallback THEN @ \o <<"TaskErrorRecovered", "TaskSuccess">>
                ELSE Append(@, "TaskError")]
    /\ step' = [step EXCEPT ![t] = "called"]
    /\ UNCHANGED <<flowVars, graphVars, mainVars, predicate, ran>>
ReturnFromTask(t) ==
    /\ step[t] = "calling"
    /\ \/ /\ ended' = [ended EXCEPT ![t] = "ok"]
          /\ value' = [value EXCEPT ![t] = "computed"]
          /\ events' = [events EXCEPT ![t] = Append(@, "TaskSuccess")]
       \/ /\ ended' = [ended EXCEPT ![t] = "error"]
          /\ value' = [value EXCEPT ![t] = IF t \in fallback THEN "fallback"
                                           ELSE "computed"]
          /\ events' = [events EXCEPT ![t] =
                Append(@, IF t \in fallback THEN "TaskErrorRecovered"
                          ELSE "TaskError")]
    /\ step' = [step EXCEPT ![t] = "called"]
    /\ UNCHANGED <<flowVars, graphVars, mainVars, predicate, ran>>

(* It panics, or ends its goroutine with Goexit.                            *)
AbortTask(t) ==
    /\ step[t] = "calling"
    /\ \E e \in {"panic", "exit"} : ended' = [ended EXCEPT ![t] = e]
    /\ step' = [step EXCEPT ![t] = "called"]
    /\ UNCHANGED <<flowVars, graphVars, mainVars, predicate, value, ran, events>>

(* defer task.ran.Store(true)                                              *)
StoreRan(t) ==
    /\ step[t] = "called"
    /\ ran' = [ran EXCEPT ![t] = TRUE]
    /\ step' = [step EXCEPT ![t] = "leaving"]
    /\ UNCHANGED <<flowVars, graphVars, mainVars, predicate, value, ended, events>>

(* A panic of the function, or one its predicate left behind.               *)
OwnPanicOnly(t) == ended[t] = "panic"                             \* mutant
Recovers(t) == ended[t] = "panic" \/ predicate[t] = "panic"

FailedByError(t) ==                                               \* mutant
    ended[t] = "exit" \/ (t \notin fallback /\ ended[t] = "error")
Failed(t) ==
    \/ ended[t] = "exit"
    \/ t \notin fallback /\ (ended[t] = "error" \/ Recovers(t))

(* The deferred functions: recover, then TaskDone if the task ran.          *)
LeaveTask(t) ==
    /\ step[t] = "leaving"
    /\ events' = [events EXCEPT ![t] =
          @ \o (IF ~Recovers(t) THEN <<>>
                ELSE IF t \in fallback THEN <<"TaskPanicRecovered">>
                ELSE <<"TaskPanic">>)
            \o (IF ran[t] THEN <<"TaskDone">> ELSE <<>>)]
    /\ value' = IF Recovers(t) /\ t \in fallback
                THEN [value EXCEPT ![t] = "fallback"] ELSE value
    /\ step' = [step EXCEPT ![t] = "left"]
    /\ Graph!Finish(TaskJob(t))
    /\ status'[TaskJob(t)] = IF Failed(t) THEN "failed" ELSE "succeeded"
    /\ UNCHANGED <<flowVars, mainVars, predicate, ran, ended>>

-----------------------------------------------------------------------------
(* The scheduler and the environment                                       *)

SkipJob ==
    /\ \E t \in Task : Graph!Skip(TaskJob(t)) \/ Graph!Skip(PredJob(t))
    /\ UNCHANGED <<flowVars, mainVars, taskVars>>

CancelFlow ==
    /\ Graph!Cancel
    /\ UNCHANGED <<flowVars, mainVars, taskVars>>

(* The function has returned and no job can do anything any more.           *)
AllOver ==
    /\ main = "finished"
    /\ \A j \in Graph!Submitted : status[j] # "running"
    /\ UNCHANGED vars

Main == \/ \E t \in Task : EnqueuePredicate(t) \/ EnqueueTask(t)
        \/ Await \/ Succeed \/ Fail \/ ReportSkipped \/ Return

Closure(t) == \/ StartPredicate(t) \/ EndPredicate(t)
              \/ StartTask(t) \/ ReturnFromTask(t) \/ AbortTask(t)
              \/ StoreRan(t) \/ LeaveTask(t)

Next == \/ Main \/ SkipJob \/ CancelFlow \/ AllOver
        \/ \E t \in Task : Closure(t)

Spec == Init /\ [][Next]_vars

-----------------------------------------------------------------------------
(* Properties                                                              *)

Value == {"zero", "computed", "fallback"}

(* Every variable has its type, and no emitter is told more than its share. *)
TypeOK ==
    /\ main \in {"enqueueing", "waiting", "returning", "finished"}
    /\ tasks \in Seq(Task) /\ Len(tasks) <= Cardinality(Task)
    /\ results \in [Task -> Value \union {"unset"}]
    /\ flowEvents \in Seq(FlowEvent) /\ Len(flowEvents) <= 2
    /\ predicate \in [Task -> {"unset", "true", "false", "panic"}]
    /\ value \in [Task -> Value]
    /\ ran \in [Task -> BOOLEAN]
    /\ step \in [Task -> {"idle", "calling", "called", "leaving", "left"}]
    /\ ended \in [Task -> {"no", "ok", "error", "panic", "exit"}]
    /\ events \in [Task -> Seq(TaskEvent)]
    /\ \A t \in Task : Len(events[t]) <= 3

(* A function that runs reads inputs whose providers are past writing them, *)
(* and a zero value only if a predicate said that its provider be skipped:  *)
(* "If any other tasks depend on this task, cff will give them zero values  *)
(* of the outputs of this task."                                            *)
InputsSettled ==
    \A t \in Task : step[t] = "calling" =>
        \A d \in needs[t] :
            /\ step[d] = "left"
            /\ value[d] = "zero" => predicate[d] = "false"

(* A flow without error gives every result its final value, and a zero      *)
(* value only if the task that provides it was skipped by its predicate. A  *)
(* flow that fails leaves the caller's variables alone.                      *)
ResultsFinal ==
    main \in {"returning", "finished"} =>
        IF answer = "nil"
        THEN results = value
             /\ \A t \in Task : results[t] = "zero" => predicate[t] = "false"
        ELSE \A t \in Task : results[t] = "unset"

(* A task's end is reported once, by one verdict, before TaskDone.          *)
OneVerdict ==
    \A t \in Task :
        /\ Cardinality({i \in DOMAIN events[t] : events[t][i] \in Verdict}) <= 1
        /\ \A i \in DOMAIN events[t] : events[t][i] = "TaskDone" =>
              \/ \E k \in 1..(i - 1) : events[t][k] \in Verdict
              \/ ended[t] = "exit"

(* A failure is never silent: when a task's job has failed, the emitter was *)
(* told of an error or a panic, unless the function ended its goroutine;    *)
(* and when a job succeeded, of no failure that was not recovered.          *)
FailuresReported ==
    \A t \in Task :
        /\ status[TaskJob(t)] = "failed" =>
              Told(t) \intersect {"TaskError", "TaskPanic"} # {} \/ ended[t] = "exit"
        /\ status[TaskJob(t)] = "succeeded" =>
              Told(t) \intersect {"TaskError", "TaskPanic"} = {}

(* When a flow has returned nil, all its tasks are accounted for: TaskDone  *)
(* and a verdict for those that ran, TaskSkipped for those that did not.    *)
AccountedFor ==
    main = "finished" /\ answer = "nil" =>
        \A t \in Task :
            IF ended[t] = "no"
            THEN /\ "TaskSkipped" \in Told(t) /\ "TaskDone" \notin Told(t)
                 /\ predicate[t] \in {"false", "panic"}
                 /\ "TaskPanicRecovered" \in Told(t) <=> predicate[t] = "panic"
            ELSE /\ "TaskSkipped" \notin Told(t) /\ "TaskDone" \in Told(t)
                 /\ Told(t) \intersect Verdict # {}

-----------------------------------------------------------------------------
(* A claim of the documentation                                            *)

(* cff.go, Flow: "If the flow terminates early because of a failure, the    *)
(* context is invalidated", so that a task still running can tell.          *)
ContextInvalidated ==
    main = "finished" /\ answer = "err" =>
        \A t \in Task : step[t] = "calling" => cancelled
=============================================================================
