--------------------------- MODULE ParallelRuntime ---------------------------
(***************************************************************************)
(* The code cff generates for a cff.Parallel (internal/templates/parallel), *)
(* running on a scheduler that keeps the promises of JobGraph: independent  *)
(* tasks, which report to an emitter, and slices and maps, whose elements   *)
(* are jobs that report to nobody and whose end function depends on all of  *)
(* them.                                                                    *)
(***************************************************************************)
EXTENDS Naturals, Sequences, FiniteSets

CONSTANTS
    Task,             \* the functions given to cff.Task and cff.Tasks
    Collection,       \* the slices and maps
    MaxSize           \* bound: elements in a collection

ASSUME ParallelAssumption ==
    IsFiniteSet(Task) /\ IsFiniteSet(Collection) /\ MaxSize \in Nat

VARIABLES
    size,       \* the number of elements of each collection, known at run time
    withEnd,    \* the collections that have a SliceEnd or a MapEnd
    continueOnError,    \* the value given to the option of that name
    \* the scheduler
    status, prereqs, waitState, answer, cancelled,
    \* the function that replaces the call of cff.Parallel
    main,       \* "enqueueing", "waiting", "returning", "finished"
    unvisited,  \* the tasks the deferred scan has not visited yet
    told,       \* what the ParallelEmitter was told
    \* shared with the closures of the tasks
    ran,
    \* the closures
    step,       \* where the closure of a job is
    ended,      \* how the user's function ended
    events      \* what the TaskEmitter of a task was told

graphVars == <<status, prereqs, waitState, answer, cancelled>>
shapeVars == <<size, withEnd, continueOnError>>
mainVars  == <<main, unvisited, told>>
jobVars   == <<ran, step, ended, events>>
vars == <<shapeVars, graphVars, mainVars, jobVars>>

TaskJob(t)       == <<"task", t, 0>>
ElementJob(c, i) == <<"element", c, i>>
EndJob(c)        == <<"end", c, 0>>

Job == {TaskJob(t) : t \in Task} \union {EndJob(c) : c \in Collection}
         \union {ElementJob(c, i) : c \in Collection, i \in 1..MaxSize}

(* The option, passed on to the scheduler.                                  *)
NeverOn == FALSE                                                  \* mutant
KeepGoing == continueOnError

Graph == INSTANCE JobGraph WITH continueOnError <- KeepGoing

Elements(c) == {ElementJob(c, i) : i \in 1..size[c]}

JobsOf(c) == Elements(c) \union (IF c \in withEnd THEN {EndJob(c)} ELSE {})

(* The jobs of this call.                                                   *)
Planned == {TaskJob(t) : t \in Task} \union UNION {JobsOf(c) : c \in Collection}

Verdict == {"TaskSuccess", "TaskError", "TaskPanic"}
TaskEvent == Verdict \union {"TaskSkipped", "TaskDone"}

Reports(t) == {events[t][i] : i \in DOMAIN events[t]}

-----------------------------------------------------------------------------
(* The compiler refuses end functions together with ContinueOnError.        *)
Init ==
    /\ continueOnError \in BOOLEAN
    /\ size \in [Collection -> 0..MaxSize]
    /\ withEnd \in SUBSET Collection /\ (continueOnError => withEnd = {})
    /\ Graph!GraphInit
    /\ main = "enqueueing" /\ unvisited = Task /\ told = {}
    /\ ran = [t \in Task |-> FALSE]
    /\ step = [j \in Job |-> "idle"]
    /\ ended = [j \in Job |-> "no"]
    /\ events = [t \in Task |-> <<>>]

-----------------------------------------------------------------------------
(* The function                                                            *)

(* One after the other, in an order that makes no difference.               *)
EnqueueTask(t) ==
    /\ main = "enqueueing"
    /\ Graph!Submit(TaskJob(t), {})
    /\ UNCHANGED <<shapeVars, mainVars, jobVars>>

(* The tasks come first, then one collection after the other.               *)
Turn(c) ==
    /\ \A t \in Task : TaskJob(t) \in Graph!Submitted
    /\ \A d \in Collection \ {c} :
          JobsOf(d) \intersect Graph!Submitted \in {{}, JobsOf(d)}

EnqueueElement(c, i) ==
    /\ main = "enqueueing"
    /\ Turn(c)
    /\ i \in 1..size[c]
    /\ \A k \in 1..(i - 1) : ElementJob(c, k) \in Graph!Submitted
    /\ Graph!Submit(ElementJob(c, i), {})
    /\ UNCHANGED <<shapeVars, mainVars, jobVars>>

(* The end function depends on the jobs the loop over the elements kept.    *)
AllButLast(c) == {ElementJob(c, i) : i \in 1..(size[c] - 1)}      \* mutant
KeptJobs(c) == Elements(c)

EnqueueEnd(c) ==
    /\ main = "enqueueing"
    /\ Turn(c)
    /\ c \in withEnd
    /\ Elements(c) \subseteq Graph!Submitted
    /\ Graph!Submit(EndJob(c), KeptJobs(c))
    /\ UNCHANGED <<shapeVars, mainVars, jobVars>>

Await ==
    /\ main = "enqueueing"
    /\ Planned \subseteq Graph!Submitted
    /\ main' = "waiting"
    /\ Graph!AwaitJobs
    /\ UNCHANGED <<shapeVars, unvisited, told, jobVars>>

(* sched.Wait returns r.                                                    *)
Conclude(r) ==
    /\ main = "waiting"
    /\ Graph!Answer(r)
    /\ told' = told \union
                 {IF r = "nil" THEN "ParallelSuccess" ELSE "ParallelError"}
    /\ main' = "returning"
    /\ UNCHANGED <<shapeVars, unvisited, jobVars>>

(* The deferred scan for tasks that did not run.                            *)
ReportSkipped(t) ==
    /\ main = "returning"
    /\ t \in unvisited
    /\ unvisited' = unvisited \ {t}
    /\ events' = IF ran[t] THEN events
                 ELSE [events EXCEPT ![t] = Append(@, "TaskSkipped")]
    /\ UNCHANGED <<shapeVars, graphVars, main, told, ran, step, ended>>

Return ==
    /\ main = "returning"
    /\ unvisited = {}
    /\ told' = told \union {"ParallelDone"}
    /\ main' = "finished"
    /\ UNCHANGED <<shapeVars, graphVars, unvisited, jobVars>>

-----------------------------------------------------------------------------
(* The closures. "calling": in the user's function; "called": a task's      *)
(* function has ended and ran is not stored yet; "leaving": the deferred    *)
(* functions.                                                              *)

StartJob(j) ==
    /\ Graph!Start(j)
    /\ step' = [step EXCEPT ![j] = "calling"]
    /\ UNCHANGED <<shapeVars, mainVars, ran, ended, events>>

(* The user's function ends; a task reports success or an error at once.    *)
EndTaskFunction(t) ==
    LET j == TaskJob(t) IN
    /\ step[j] = "calling"
    /\ step' = [step EXCEPT ![j] = "called"]
    /\ \/ /\ ended' = [ended EXCEPT ![j] = "ok"]
          /\ events' = [events EXCEPT ![t] = Append(@, "TaskSuccess")]
       \/ /\ ended' = [ended EXCEPT ![j] = "error"]
          /\ events' = [events EXCEPT ![t] = Append(@, "TaskError")]
       \/ /\ \E e \in {"panic", "exit"} : ended' = [ended EXCEPT ![j] = e]
          /\ UNCHANGED events
    /\ UNCHANGED <<shapeVars, graphVars, mainVars, ran>>

EndOtherFunction(j) ==
    /\ j \in Planned \ {TaskJob(t) : t \in Task}
    /\ step[j] = "calling"
    /\ step' = [step EXCEPT ![j] = "leaving"]
    /\ \E e \in {"ok", "error", "panic", "exit"} : ended' = [ended EXCEPT ![j] = e]
    /\ UNCHANGED <<shapeVars, graphVars, mainVars, ran, events>>

(* defer task.ran.Store(true)                                              *)
StoreNothing(t) ==                                                \* mutant
    /\ step[TaskJob(t)] = "called"
    /\ step' = [step EXCEPT ![TaskJob(t)] = "leaving"]
    /\ UNCHANGED <<shapeVars, graphVars, mainVars, ran, ended, events>>
StoreRan(t) ==
    /\ step[TaskJob(t)] = "called"
    /\ ran' = [ran EXCEPT ![t] = TRUE]
    /\ step' = [step EXCEPT ![TaskJob(t)] = "leaving"]
    /\ UNCHANGED <<shapeVars, graphVars, mainVars, ended, events>>

(* An error, a panic turned into a PanicError, or Goexit fail the job.      *)
PanicForgotten(j) == ended[j] \in {"error", "exit"}               \* mutant
Failed(j) == ended[j] \in {"error", "panic", "exit"}

Settle(j) ==
    /\ step' = [step EXCEPT ![j] = "left"]
    /\ Graph!Finish(j)
    /\ status'[j] = IF Failed(j) THEN "failed" ELSE "succeeded"
    /\ UNCHANGED <<shapeVars, mainVars, ran, ended>>

(* The deferred functions of a task: recover, then TaskDone.                *)
DoneTwice(t) ==                                                   \* mutant
    /\ step[TaskJob(t)] = "leaving"
    /\ events' = [events EXCEPT ![t] = @ \o <<"TaskPanic", "TaskDone">>]
    /\ Settle(TaskJob(t))
LeaveTask(t) ==
    /\ step[TaskJob(t)] = "leaving"
    /\ events' = [events EXCEPT ![t] =
          @ \o (IF ended[TaskJob(t)] = "panic" THEN <<"TaskPanic">> ELSE <<>>)
            \o (IF ran[t] THEN <<"TaskDone">> ELSE <<>>)]
    /\ Settle(TaskJob(t))

(* Those of an element or an end function only recover.                     *)
LeaveOther(j) ==
    /\ j \in Planned \ {TaskJob(t) : t \in Task}
    /\ step[j] = "leaving"
    /\ Settle(j)
    /\ UNCHANGED events

-----------------------------------------------------------------------------
(* The scheduler and the environment                                       *)

SkipJob ==
    /\ \E j \in Planned : Graph!Skip(j)
    /\ UNCHANGED <<shapeVars, mainVars, jobVars>>

CancelParallel ==
    /\ Graph!Cancel
    /\ UNCHANGED <<shapeVars, mainVars, jobVars>>

AllOver ==
    /\ main = "finished"
    /\ \A j \in Graph!Submitted : status[j] # "running"
    /\ UNCHANGED vars

Main == \/ \E t \in Task : EnqueueTask(t) \/ ReportSkipped(t)
        \/ \E c \in Collection : \/ \E i \in 1..MaxSize : EnqueueElement(c, i)
                                 \/ EnqueueEnd(c)
        \/ Await \/ Return
        \/ \E r \in {"nil", "err", "ctx"} : Conclude(r)

Closures ==
    \/ \E t \in Task : EndTaskFunction(t) \/ StoreRan(t) \/ LeaveTask(t)
    \/ \E j \in Planned : StartJob(j) \/ EndOtherFunction(j) \/ LeaveOther(j)

Next == Main \/ Closures \/ SkipJob \/ CancelParallel \/ AllOver

Spec == Init /\ [][Next]_vars

-----------------------------------------------------------------------------
(* Properties                                                              *)

(* Every variable has its type, and a task reports no more than its share.  *)
TypeOK ==
    /\ size \in [Collection -> 0..MaxSize] /\ withEnd \subseteq Collection
    /\ continueOnError \in BOOLEAN
    /\ main \in {"enqueueing", "waiting", "returning", "finished"}
    /\ unvisited \subseteq Task
    /\ told \subseteq {"ParallelSuccess", "ParallelError", "ParallelDone"}
    /\ ran \in [Task -> BOOLEAN]
    /\ step \in [Job -> {"idle", "calling", "called", "leaving", "left"}]
    /\ ended \in [Job -> {"no", "ok", "error", "panic", "exit"}]
    /\ events \in [Task -> Seq(TaskEvent)]
    /\ \A t \in Task : Len(events[t]) <= 3

(* SliceEnd and MapEnd: "This function will run after all items in the      *)
(* slice have been processed", however few there are, and none that failed  *)
(* is counted as processed.                                                 *)
EndAfterElements ==
    \A c \in withEnd : ended[EndJob(c)] # "no" \/ step[EndJob(c)] = "calling" =>
        \A j \in Elements(c) : step[j] = "left" /\ ended[j] = "ok"

(* ContinueOnError: "Parallel will still run all the other tasks", so when  *)
(* the call returns everything ran to its end unless the context was done.  *)
EverythingRan ==
    continueOnError /\ ~cancelled /\ main \in {"returning", "finished"} =>
        \A j \in Planned : step[j] = "left" /\ ended[j] # "no"

(* The error of the call is right: nil iff every function of every task,    *)
(* element and end function returned without error.                         *)
ErrorIsRight ==
    main = "finished" =>
        /\ answer = "nil" => \A j \in Planned : ended[j] = "ok"
        /\ answer = "err" => \E j \in Planned :
                                \/ ended[j] \in {"error", "panic", "exit"}
                                \/ status[j] = "skipped" /\ cancelled

(* When the call returned nil each task was reported once, as successful    *)
(* and done, and none as skipped.                                           *)
TasksAccountedFor ==
    main = "finished" /\ answer = "nil" =>
        \A t \in Task : events[t] = <<"TaskSuccess", "TaskDone">>

(* A task that was reported skipped although it ran was caught between the  *)
(* early return of the call and the end of its function; with               *)
(* ContinueOnError only a cancelled context can do that.                    *)
SkippedOnlyAfterCancel ==
    continueOnError =>
        \A t \in Task : "TaskSkipped" \in Reports(t) => cancelled
=============================================================================
