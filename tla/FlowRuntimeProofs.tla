-------------------------- MODULE FlowRuntimeProofs --------------------------
(***************************************************************************)
(* The code generated for a cff.Flow feeds its tasks settled inputs, gives  *)
(* its caller final results and tells the emitters what happened, for every *)
(* set of tasks and every acyclic flow over it. The scheduler it runs on is *)
(* any that keeps the promises of JobGraph.                                 *)
(***************************************************************************)
EXTENDS FlowRuntime, EventLists

-----------------------------------------------------------------------------
(* The inductive invariant                                                 *)

FlowJob == {"task", "predicate"} \X Task

(* The types of the variables; the lengths TypeOK bounds follow from what   *)
(* the sequences hold.                                                      *)
FlowType ==
    /\ needs \in [Task -> SUBSET Task] /\ predNeeds \in [Task -> SUBSET Task]
    /\ guarded \subseteq Task /\ fallback \subseteq Task

GraphType ==
    /\ status \in [FlowJob -> Graph!Status]
    /\ prereqs \in [FlowJob -> SUBSET FlowJob]
    /\ waitState \in {"open", "waiting", "returned"}
    /\ answer \in {"none", "nil", "err", "ctx"}
    /\ cancelled \in BOOLEAN

MainType ==
    /\ main \in {"enqueueing", "waiting", "returning", "finished"}
    /\ tasks \in Seq(Task)
    /\ results \in [Task -> Value \union {"unset"}]
    /\ flowEvents \in Seq(FlowEvent)

ClosureType ==
    /\ predicate \in [Task -> {"unset", "true", "false", "panic"}]
    /\ value \in [Task -> Value]
    /\ ran \in [Task -> BOOLEAN]
    /\ step \in [Task -> {"idle", "calling", "called", "leaving", "left"}]
    /\ ended \in [Task -> {"no", "ok", "error", "panic", "exit"}]
    /\ events \in [Task -> Seq(TaskEvent)]

(* Where the function is, told by the scheduler's side of Wait.             *)
WaitMatches ==
    /\ main = "enqueueing" <=> waitState = "open"
    /\ main = "waiting" <=> waitState = "waiting"
    /\ waitState = "returned" <=> answer # "none"
    /\ main # "enqueueing" => \A t \in Task : status[TaskJob(t)] # "unknown"
    /\ main \in {"enqueueing", "waiting"} => flowEvents = <<>>
    /\ main = "returning" => Len(flowEvents) = 1
    /\ main = "finished" => Len(flowEvents) = 2

(* The list the deferred scan visits holds every enqueued task once.        *)
TasksListed ==
    /\ Distinct(tasks)
    /\ \A t \in Entries(tasks) : status[TaskJob(t)] # "unknown"
    /\ main \in {"enqueueing", "waiting"} =>
          \A t \in Task : status[TaskJob(t)] # "unknown" => t \in Entries(tasks)
    /\ main = "finished" => tasks = <<>>

(* A job that has started found its prerequisites succeeded, and those of a *)
(* task are the providers of its inputs and its predicate.                  *)
Ordered ==
    /\ \A t \in Task : status[TaskJob(t)] # "unknown" =>
          prereqs[TaskJob(t)] = Dependencies(t)
    /\ \A j \in FlowJob : status[j] \in {"running", "succeeded", "failed"} =>
          \A p \in prereqs[j] : status[p] = "succeeded"

(* The results are copied once every task has succeeded, or not at all.     *)
Copied ==
    IF answer = "nil"
    THEN results = value /\ \A t \in Task : status[TaskJob(t)] = "succeeded"
    ELSE \A t \in Task : results[t] = "unset"

(* A task's function is called only if its predicate allows it.             *)
Consulted(t) ==
    /\ t \notin guarded => status[PredJob(t)] = "unknown"
    /\ predicate[t] # "unset" <=> status[PredJob(t)] = "succeeded"
    /\ step[t] \in {"calling", "called"} \/ ended[t] # "no" => Allowed(t)
    /\ step[t] \in {"leaving", "left"} /\ ended[t] = "no" => ~Allowed(t)

(* The closure's step, told by the status of its job and by its flags.      *)
Progress(t) ==
    /\ step[t] = "idle" <=>
          status[TaskJob(t)] \in {"unknown", "submitted", "skipped"}
    /\ step[t] \in {"calling", "called", "leaving"} <=>
          status[TaskJob(t)] = "running"
    /\ step[t] = "left" =>
          status[TaskJob(t)] = IF Failed(t) THEN "failed" ELSE "succeeded"
    /\ step[t] \in {"idle", "calling"} => ended[t] = "no"
    /\ step[t] = "called" => ended[t] # "no"
    /\ ran[t] <=> step[t] \in {"leaving", "left"} /\ ended[t] # "no"

(* What the closure has written.                                            *)
Valued(t) ==
    /\ ended[t] \in {"ok", "error"} => value[t] # "zero"
    /\ step[t] = "left" /\ Recovers(t) /\ t \in fallback => value[t] = "fallback"

(* What the closure has told its emitter, apart from the deferred scan.     *)
ReturnEvent(t) ==
    CASE ended[t] = "ok"    -> {"TaskSuccess"}
      [] ended[t] = "error" -> {IF t \in fallback THEN "TaskErrorRecovered"
                                ELSE "TaskError"}
      [] OTHER              -> {}
PanicEvent(t) ==
    IF ~Recovers(t) THEN {}
    ELSE {IF t \in fallback THEN "TaskPanicRecovered" ELSE "TaskPanic"}
DoneEvent(t) == IF ran[t] THEN {"TaskDone"} ELSE {}

Reported(t) ==
    /\ Told(t) \ {"TaskSkipped"} =
          ReturnEvent(t) \union
             (IF step[t] = "left" THEN PanicEvent(t) \union DoneEvent(t) ELSE {})
    /\ Distinct(events[t])
    /\ DoneLast(events[t])

(* And what the scan has.                                                   *)
Scanned(t) ==
    /\ "TaskSkipped" \in Told(t) =>
          /\ main \in {"returning", "finished"} /\ t \notin Entries(tasks)
          /\ answer = "nil" => ended[t] = "no"
    /\ main \in {"returning", "finished"} =>
          t \in Entries(tasks) \/ ran[t] \/ "TaskSkipped" \in Told(t)

TaskInv(t) ==
    Consulted(t) /\ Progress(t) /\ Valued(t) /\ Reported(t) /\ Scanned(t)

AllTyped == FlowType /\ GraphType /\ MainType /\ ClosureType

FlowInv ==
    /\ AllTyped
    /\ WaitMatches /\ TasksListed /\ Ordered /\ Copied
    /\ \A t \in Task : TaskInv(t)

-----------------------------------------------------------------------------
(* Jobs and verdicts                                                       *)

(* A job belongs to one task, as its task's or as its predicate's.          *)
LEMMA JobsApart ==
  /\ \A t \in Task : TaskJob(t) \in FlowJob /\ PredJob(t) \in FlowJob
  /\ \A s, t : TaskJob(s) # PredJob(t)
  /\ \A s, t : (TaskJob(s) = TaskJob(t) \/ PredJob(s) = PredJob(t)) => s = t
BY DEF TaskJob, PredJob, FlowJob

(* A function that returns was allowed by its predicate, and so leaves no   *)
(* panic: an end is reported by one verdict.                                *)
LEMMA OneEnding ==
  ASSUME NEW t \in Task, TaskInv(t)
  PROVE  \E v \in Verdict : ReturnEvent(t) \union PanicEvent(t) \subseteq {v}
<1>1. CASE ended[t] \in {"ok", "error"}
  <2>1. Allowed(t)
    BY <1>1 DEF TaskInv, Consulted
  <2>2. ~Recovers(t)
    BY <1>1, <2>1 DEF Recovers, Allowed, TaskInv, Consulted
  <2> QED
    BY <1>1, <2>2 DEF ReturnEvent, PanicEvent, Verdict
<1>2. CASE ended[t] \notin {"ok", "error"}
  BY <1>2 DEF ReturnEvent, PanicEvent, Verdict
<1> QED
  BY <1>1, <1>2

(* Nothing is told twice, so what an emitter is told is short.              *)
LEMMA InvariantTyped ==
  ASSUME FlowInv
  PROVE  TypeOK
<1> USE DEF FlowInv, AllTyped
<1>1. Len(tasks) <= Cardinality(Task)
  <2>1. tasks \in Seq(Task) /\ Distinct(tasks)
    BY DEF MainType, TasksListed
  <2>2. Entries(tasks) \subseteq Task
    BY <2>1, LenProperties DEF Entries
  <2> QED
    BY <2>1, <2>2, TaskAssumption, DistinctLength
<1>2. Len(flowEvents) <= 2
  <2>1. main \in {"enqueueing", "waiting", "returning", "finished"}
    BY DEF MainType
  <2>2. CASE main \in {"enqueueing", "waiting"}
    <3>1. flowEvents = <<>>
      BY <2>2 DEF WaitMatches
    <3> QED
      BY <3>1
  <2>3. CASE main \in {"returning", "finished"}
    <3>1. Len(flowEvents) = 1 \/ Len(flowEvents) = 2
      BY <2>3 DEF WaitMatches
    <3>2. \A n : n = 1 \/ n = 2 => n <= 2
      OBVIOUS
    <3> QED
      BY <3>1, <3>2
  <2> QED
    BY <2>1, <2>2, <2>3
<1>3. ASSUME NEW t \in Task
      PROVE  Len(events[t]) <= 3
  <2>1. TaskInv(t) /\ events[t] \in Seq(TaskEvent) /\ Told(t) = Entries(events[t])
    BY DEF ClosureType, Told, Entries
  <2>2. PICK v \in Verdict : ReturnEvent(t) \union PanicEvent(t) \subseteq {v}
    BY <2>1, OneEnding
  <2>3. Told(t) \subseteq {v, "TaskDone", "TaskSkipped"}
    BY <2>1, <2>2 DEF TaskInv, Reported, DoneEvent
  <2>4. /\ IsFiniteSet({v, "TaskDone", "TaskSkipped"})
        /\ Cardinality({v, "TaskDone", "TaskSkipped"}) <= 3
    BY AtMostThree
  <2>5. Len(events[t]) <= Cardinality({v, "TaskDone", "TaskSkipped"})
    BY <2>1, <2>3, <2>4, DistinctLength DEF TaskInv, Reported
  <2>6. Len(events[t]) \in Nat /\ Cardinality({v, "TaskDone", "TaskSkipped"}) \in Nat
    BY <2>1, <2>4, LenProperties, FS_CardinalityType
  <2> QED
    BY <2>4, <2>5, <2>6
<1> QED
  BY <1>1, <1>2, <1>3 DEF MainType, ClosureType, TypeOK

-----------------------------------------------------------------------------
(* What a step leaves alone                                                *)

(* A closure that does not move keeps what it wrote and what it told.       *)
LEMMA ClosureStill ==
  ASSUME NEW t \in Task, TaskInv(t), UNCHANGED flowVars,
         UNCHANGED <<predicate[t], value[t], ran[t], step[t], ended[t], events[t]>>
  PROVE  /\ UNCHANGED <<Told(t), Allowed(t), Recovers(t), Failed(t)>>
         /\ Valued(t)' /\ Reported(t)'
<1>1. UNCHANGED <<Told(t), Allowed(t), Recovers(t)>>
  BY DEF Told, Allowed, Recovers, flowVars
<1>2. UNCHANGED <<Failed(t), ReturnEvent(t), PanicEvent(t), DoneEvent(t)>>
  BY <1>1 DEF Failed, ReturnEvent, PanicEvent, DoneEvent, flowVars
<1>3. Valued(t)'
  BY <1>1 DEF TaskInv, Valued, flowVars
<1>4. Reported(t)'
  BY <1>1, <1>2 DEF TaskInv, Reported
<1> QED
  BY <1>1, <1>2, <1>3, <1>4

(* It keeps all of its invariant while its two jobs and the function it     *)
(* works for stay as they are.                                              *)
LEMMA Untouched ==
  ASSUME NEW t \in Task, TaskInv(t),
         UNCHANGED <<flowVars, main, tasks, answer>>,
         UNCHANGED <<predicate[t], value[t], ran[t], step[t], ended[t], events[t]>>,
         UNCHANGED <<status[TaskJob(t)], status[PredJob(t)]>>
  PROVE  TaskInv(t)'
<1>1. /\ UNCHANGED <<Told(t), Allowed(t), Failed(t)>>
      /\ Valued(t)' /\ Reported(t)'
  BY ClosureStill
<1>2. Consulted(t)'
  BY <1>1 DEF TaskInv, Consulted, flowVars
<1>3. Progress(t)'
  BY <1>1 DEF TaskInv, Progress
<1>4. Scanned(t)'
  BY <1>1 DEF TaskInv, Scanned
<1> QED
  BY <1>1, <1>2, <1>3, <1>4 DEF TaskInv

(* The function and the order of the jobs bear a job that was submitted     *)
(* moving on, and starting only when what it needs has succeeded.           *)
LEMMA JobMoves ==
  ASSUME FlowInv, NEW j \in FlowJob, NEW s \in Graph!Status \ {"unknown"},
         status[j] \notin {"unknown", "succeeded"},
         status' = [status EXCEPT ![j] = s],
         s \in {"running", "succeeded", "failed"} =>
            \A p \in prereqs[j] : status[p] = "succeeded",
         UNCHANGED <<flowVars, mainVars, prereqs, waitState, answer, cancelled>>,
         answer = "nil" => value' = value
  PROVE  /\ FlowType' /\ GraphType' /\ MainType'
         /\ WaitMatches' /\ TasksListed' /\ Ordered' /\ Copied'
<1> USE DEF FlowInv, AllTyped
<1>1. /\ status \in [FlowJob -> Graph!Status] /\ status'[j] = s
      /\ \A i \in FlowJob : i # j => status'[i] = status[i]
  BY DEF GraphType
<1>2. \A i \in FlowJob : /\ status'[i] = "unknown" <=> status[i] = "unknown"
                         /\ status[i] = "succeeded" => status'[i] = "succeeded"
  BY <1>1
<1>3. FlowType' /\ GraphType' /\ MainType'
  BY <1>1 DEF FlowType, GraphType, MainType, flowVars, mainVars
<1>4. \A t \in Task : status'[TaskJob(t)] = "unknown" <=> status[TaskJob(t)] = "unknown"
  BY <1>2, JobsApart
<1>5. WaitMatches'
  BY <1>4 DEF WaitMatches, mainVars
<1>6. TasksListed'
  <2>1. \A t \in Entries(tasks) : t \in Task
    BY LenProperties DEF MainType, Entries
  <2> QED
    BY <1>4, <2>1 DEF TasksListed, mainVars
<1>7. Ordered'
  <2>1. \A t \in Task : Dependencies(t)' = Dependencies(t)
    BY DEF Dependencies, flowVars
  <2>2. \A i \in FlowJob : prereqs[i] \subseteq FlowJob
    BY DEF GraphType
  <2> QED
    BY <1>1, <1>2, <1>4, <2>1, <2>2 DEF Ordered
<1>8. Copied'
  <2>1. CASE answer = "nil"
    BY <1>2, <2>1, JobsApart DEF Copied, mainVars
  <2>2. CASE answer # "nil"
    BY <2>2 DEF Copied, mainVars
  <2> QED
    BY <2>1, <2>2
<1> QED
  BY <1>3, <1>5, <1>6, <1>7, <1>8

(* So does a closure that writes its variables and moves no job.            *)
LEMMA ClosureWrites ==
  ASSUME FlowInv, UNCHANGED <<flowVars, graphVars, mainVars>>,
         answer = "nil" => value' = value
  PROVE  /\ FlowType' /\ GraphType' /\ MainType'
         /\ WaitMatches' /\ TasksListed' /\ Ordered' /\ Copied'
<1> USE DEF FlowInv, AllTyped
<1>1. FlowType' /\ GraphType' /\ MainType'
  BY DEF FlowType, GraphType, MainType, flowVars, graphVars, mainVars
<1>2. WaitMatches' /\ TasksListed'
  BY DEF WaitMatches, TasksListed, graphVars, mainVars
<1>3. Ordered'
  BY DEF Ordered, Dependencies, flowVars, graphVars
<1>4. Copied'
  BY DEF Copied, graphVars, mainVars
<1> QED
  BY <1>1, <1>2, <1>3, <1>4

-----------------------------------------------------------------------------
(* The function                                                            *)

LEMMA InitInv == Init => FlowInv
<1> SUFFICES ASSUME Init
             PROVE  FlowInv
  OBVIOUS
<1> USE DEF Init
<1>1. AllTyped
  <2>1. needs \in [Task -> SUBSET Task] /\ predNeeds \in [Task -> SUBSET Task]
    OBVIOUS
  <2>2. FlowType /\ ClosureType
    BY <2>1 DEF FlowType, ClosureType, Value
  <2>3. GraphType
    BY DEF Graph!GraphInit, Graph!Status, GraphType, FlowJob
  <2>4. MainType
    BY DEF MainType, FlowEvent
  <2> QED
    BY <2>2, <2>3, <2>4 DEF AllTyped
<1>2. /\ \A j \in FlowJob : status[j] = "unknown"
      /\ waitState = "open" /\ answer = "none"
  BY DEF Graph!GraphInit, FlowJob
<1>3. WaitMatches
  BY <1>2 DEF WaitMatches
<1>4. TasksListed
  BY <1>2, JobsApart DEF TasksListed, Entries, Distinct
<1>5. Ordered
  BY <1>2, JobsApart DEF Ordered
<1>6. Copied
  BY <1>2 DEF Copied
<1>7. ASSUME NEW t \in Task
      PROVE  TaskInv(t)
  <2>1. events[t] = <<>> /\ Told(t) = {} /\ Distinct(events[t]) /\ DoneLast(events[t])
    BY DEF Told, Distinct, DoneLast
  <2>2. status[TaskJob(t)] = "unknown" /\ status[PredJob(t)] = "unknown"
    BY <1>2, JobsApart
  <2>3. Consulted(t) /\ Progress(t) /\ Valued(t)
    BY <2>2 DEF Consulted, Progress, Valued
  <2>4. Reported(t) /\ Scanned(t)
    BY <2>1 DEF Reported, Scanned, ReturnEvent
  <2> QED
    BY <2>3, <2>4 DEF TaskInv
<1> QED
  BY <1>1, <1>3, <1>4, <1>5, <1>6, <1>7 DEF FlowInv

(* What submitting a job does to the graph.                                 *)
LEMMA JobSubmitted ==
  ASSUME FlowInv, NEW j \in FlowJob, NEW ps, Graph!Submit(j, ps),
         UNCHANGED <<flowVars, main, taskVars, results, flowEvents>>,
         \A t \in Task : j = TaskJob(t) => ps = Dependencies(t)
  PROVE  /\ waitState = "open" /\ status[j] = "unknown"
         /\ status' = [status EXCEPT ![j] = "submitted"]
         /\ FlowType' /\ GraphType' /\ ClosureType' /\ WaitMatches' /\ Ordered' /\ Copied'
<1> USE DEF FlowInv, AllTyped
<1>1. /\ waitState = "open" /\ status[j] = "unknown" /\ ps \subseteq FlowJob
      /\ \A p \in ps : status[p] # "unknown"
      /\ status' = [status EXCEPT ![j] = "submitted"]
      /\ prereqs' = [prereqs EXCEPT ![j] = ps]
      /\ UNCHANGED <<waitState, answer, cancelled>>
  BY DEF Graph!Submit, Graph!Submitted, FlowJob
<1>2. /\ status'[j] = "submitted" /\ prereqs'[j] = ps
      /\ \A i \in FlowJob : i # j => status'[i] = status[i] /\ prereqs'[i] = prereqs[i]
  BY <1>1 DEF GraphType
<1>3. FlowType' /\ ClosureType'
  BY DEF FlowType, ClosureType, flowVars, taskVars
<1>4. GraphType'
  BY <1>1 DEF GraphType, Graph!Status
<1>5. main = "enqueueing" /\ answer = "none"
  BY <1>1 DEF WaitMatches, GraphType
<1>6. WaitMatches'
  BY <1>1, <1>5 DEF WaitMatches
<1>7. Ordered'
  <2>1. \A t \in Task : Dependencies(t)' = Dependencies(t)
    BY DEF Dependencies, flowVars
  <2>2. \A t \in Task : status'[TaskJob(t)] # "unknown" =>
           prereqs'[TaskJob(t)] = Dependencies(t)
    BY <1>2, JobsApart DEF Ordered
  <2>3. \A i \in FlowJob : prereqs[i] \subseteq FlowJob
    BY DEF GraphType
  <2>4. ASSUME NEW i \in FlowJob, status'[i] \in {"running", "succeeded", "failed"},
               NEW p \in prereqs'[i]
        PROVE  status'[p] = "succeeded"
    <3>1. i # j
      BY <1>2, <2>4
    <3>2. p \in FlowJob /\ status[p] = "succeeded"
      BY <1>2, <2>3, <2>4, <3>1 DEF Ordered
    <3> QED
      BY <1>1, <1>2, <3>2
  <2> QED
    BY <2>1, <2>2, <2>4 DEF Ordered
<1>8. Copied'
  BY <1>1, <1>5 DEF Copied
<1> QED
  BY <1>1, <1>3, <1>4, <1>6, <1>7, <1>8

LEMMA EnqueuePredicateInv ==
  ASSUME FlowInv, NEW t \in Task, EnqueuePredicate(t)
  PROVE  FlowInv'
<1> USE DEF FlowInv, AllTyped
<1>1. PredJob(t) \in FlowJob /\ \A u \in Task : PredJob(t) # TaskJob(u)
  BY JobsApart
<1>2. PICK ps : ps = {TaskJob(d) : d \in predNeeds[t]}
  OBVIOUS
<1>3. /\ Graph!Submit(PredJob(t), ps) /\ t \in guarded
      /\ UNCHANGED <<flowVars, mainVars, taskVars>>
  BY <1>2 DEF EnqueuePredicate
<1>4. /\ waitState = "open" /\ status[PredJob(t)] = "unknown"
      /\ status' = [status EXCEPT ![PredJob(t)] = "submitted"]
      /\ FlowType' /\ GraphType' /\ ClosureType' /\ WaitMatches' /\ Ordered' /\ Copied'
  BY <1>1, <1>3, JobSubmitted DEF mainVars
<1>5. /\ status'[PredJob(t)] = "submitted"
      /\ \A i \in FlowJob : i # PredJob(t) => status'[i] = status[i]
  BY <1>1, <1>4 DEF GraphType
<1>6. MainType'
  BY <1>3 DEF MainType, mainVars
<1>7. \A u \in Task : status'[TaskJob(u)] = status[TaskJob(u)]
  BY <1>1, <1>5, JobsApart
<1>8. TasksListed'
  <2>1. \A u \in Entries(tasks) : u \in Task
    BY LenProperties DEF MainType, Entries
  <2> QED
    BY <1>3, <1>7, <2>1 DEF TasksListed, mainVars
<1>9. UNCHANGED answer
  BY <1>3 DEF Graph!Submit
<1>10. ASSUME NEW u \in Task
       PROVE  TaskInv(u)'
  <2>1. UNCHANGED <<predicate[u], value[u], ran[u], step[u], ended[u], events[u]>>
    BY <1>3 DEF taskVars
  <2>2. CASE u = t
    <3>1. /\ UNCHANGED <<Told(t), Allowed(t), Failed(t)>>
          /\ Valued(t)' /\ Reported(t)'
      BY <1>3, <2>1, <2>2, ClosureStill
    <3>2. Consulted(t)'
      BY <1>3, <1>4, <1>5, <3>1 DEF TaskInv, Consulted, flowVars, taskVars
    <3>3. Progress(t)'
      BY <1>3, <1>7, <3>1 DEF TaskInv, Progress, taskVars
    <3>4. Scanned(t)'
      BY <1>3, <1>9, <3>1 DEF TaskInv, Scanned, mainVars, taskVars
    <3> QED
      BY <2>2, <3>1, <3>2, <3>3, <3>4 DEF TaskInv
  <2>3. CASE u # t
    <3>1. UNCHANGED <<status[TaskJob(u)], status[PredJob(u)]>>
      BY <1>5, <1>7, <2>3, JobsApart
    <3> QED
      BY <1>3, <1>9, <2>1, <3>1, Untouched DEF mainVars
  <2> QED
    BY <2>2, <2>3
<1> QED
  BY <1>4, <1>6, <1>8, <1>10

LEMMA EnqueueTaskInv ==
  ASSUME FlowInv, NEW t \in Task, EnqueueTask(t)
  PROVE  FlowInv'
<1> USE DEF FlowInv, AllTyped
<1>1. TaskJob(t) \in FlowJob /\ \A u \in Task : TaskJob(u) = TaskJob(t) => u = t
  BY JobsApart
<1>2. /\ Graph!Submit(TaskJob(t), Dependencies(t))
      /\ main = "enqueueing" /\ tasks' = Append(tasks, t)
      /\ UNCHANGED <<flowVars, main, results, flowEvents, taskVars>>
  BY DEF EnqueueTask
<1>3. /\ waitState = "open" /\ status[TaskJob(t)] = "unknown"
      /\ status' = [status EXCEPT ![TaskJob(t)] = "submitted"]
      /\ FlowType' /\ GraphType' /\ ClosureType' /\ WaitMatches' /\ Ordered' /\ Copied'
  BY <1>1, <1>2, JobSubmitted
<1>4. /\ status'[TaskJob(t)] = "submitted"
      /\ \A i \in FlowJob : i # TaskJob(t) => status'[i] = status[i]
  BY <1>1, <1>3 DEF GraphType
<1>5. MainType'
  BY <1>2, AppendProperties DEF MainType
<1>6. \A u \in Task : u # t => status'[TaskJob(u)] = status[TaskJob(u)]
  BY <1>1, <1>4, JobsApart
<1>7. TasksListed'
  <2>1. tasks \in Seq(Task) /\ Distinct(tasks) /\ t \notin Entries(tasks)
    BY <1>3 DEF MainType, TasksListed
  <2>2. Entries(tasks') = Entries(tasks) \union {t} /\ Distinct(tasks')
    BY <1>2, <2>1, AppendEntry
  <2>3. \A u \in Entries(tasks) : u \in Task
    BY <2>1, LenProperties DEF Entries
  <2> QED
    BY <1>2, <1>4, <1>6, <2>2, <2>3 DEF TasksListed
<1>8. UNCHANGED answer
  BY <1>2 DEF Graph!Submit
<1>9. ASSUME NEW u \in Task
      PROVE  TaskInv(u)'
  <2>1. UNCHANGED <<predicate[u], value[u], ran[u], step[u], ended[u], events[u]>>
    BY <1>2 DEF taskVars
  <2>2. /\ UNCHANGED <<Told(u), Allowed(u), Failed(u)>>
        /\ Valued(u)' /\ Reported(u)'
    BY <1>2, <2>1, ClosureStill
  <2>3. status'[PredJob(u)] = status[PredJob(u)]
    BY <1>4, JobsApart
  <2>4. Consulted(u)'
    BY <1>2, <2>2, <2>3 DEF TaskInv, Consulted, flowVars, taskVars
  <2>5. Progress(u)'
    BY <1>2, <1>3, <1>4, <1>6, <2>2 DEF TaskInv, Progress, taskVars
  <2>6. Scanned(u)'
    BY <1>2, <2>2 DEF TaskInv, Scanned
  <2> QED
    BY <2>2, <2>4, <2>5, <2>6 DEF TaskInv
<1> QED
  BY <1>3, <1>5, <1>7, <1>9

LEMMA AwaitInv ==
  ASSUME FlowInv, Await
  PROVE  FlowInv'
<1> USE DEF FlowInv, AllTyped
<1>1. /\ main = "enqueueing" /\ main' = "waiting"
      /\ waitState = "open" /\ waitState' = "waiting"
      /\ UNCHANGED <<status, prereqs, answer, cancelled>>
      /\ UNCHANGED <<flowVars, tasks, results, flowEvents, taskVars>>
      /\ \A t \in Task : status[TaskJob(t)] # "unknown"
  BY DEF Await, Graph!AwaitJobs, Graph!Submitted
<1>2. AllTyped'
  BY <1>1 DEF FlowType, GraphType, MainType, ClosureType, flowVars, taskVars
<1>3. WaitMatches' /\ TasksListed'
  BY <1>1 DEF WaitMatches, TasksListed
<1>4. Ordered' /\ Copied'
  BY <1>1 DEF Ordered, Dependencies, Copied, flowVars, taskVars
<1>5. ASSUME NEW t \in Task
      PROVE  TaskInv(t)'
  <2>1. /\ UNCHANGED <<Told(t), Allowed(t), Failed(t)>>
        /\ Valued(t)' /\ Reported(t)'
    BY <1>1, ClosureStill DEF taskVars
  <2>2. Consulted(t)' /\ Progress(t)'
    BY <1>1, <2>1 DEF TaskInv, Consulted, Progress, flowVars, taskVars
  <2>3. Scanned(t)'
    BY <1>1, <2>1 DEF TaskInv, Scanned
  <2> QED
    BY <2>1, <2>2, <2>3 DEF TaskInv
<1> QED
  BY <1>2, <1>3, <1>4, <1>5

(* Wait has returned r, and everything is still on the list to be scanned.  *)
LEMMA Answered ==
  ASSUME FlowInv, NEW r \in {"nil", "err", "ctx"}, Graph!Answer(r),
         NEW e \in FlowEvent, flowEvents' = Append(flowEvents, e),
         main = "waiting", main' = "returning",
         UNCHANGED <<flowVars, tasks, taskVars>>,
         IF r = "nil" THEN results' = value ELSE results' = results
  PROVE  FlowInv'
<1> USE DEF FlowInv, AllTyped
<1>1. /\ waitState = "waiting" /\ waitState' = "returned" /\ answer' = r
      /\ UNCHANGED <<status, prereqs, cancelled>>
      /\ r = "nil" => \A j \in FlowJob : status[j] \in {"unknown", "succeeded"}
  BY DEF Graph!Answer, Graph!Submitted, FlowJob
<1>2. AllTyped'
  <2>1. flowEvents' \in Seq(FlowEvent)
    BY AppendProperties DEF MainType
  <2> QED
    BY <1>1, <2>1 DEF FlowType, GraphType, MainType, ClosureType, flowVars, taskVars
<1>3. WaitMatches'
  <2>1. flowEvents = <<>> /\ Len(flowEvents') = 1
    <3>1. flowEvents = <<>> /\ flowEvents \in Seq(FlowEvent)
      BY DEF WaitMatches, MainType
    <3> QED
      BY <3>1
  <2> QED
    BY <1>1, <2>1 DEF WaitMatches
<1>4. TasksListed' /\ Ordered'
  BY <1>1 DEF TasksListed, Ordered, Dependencies, flowVars
<1>5. \A t \in Task : /\ status[TaskJob(t)] # "unknown"
                      /\ r = "nil" => status[TaskJob(t)] = "succeeded"
  BY <1>1, JobsApart DEF WaitMatches
<1>6. answer = "none"
  BY <1>1 DEF WaitMatches, GraphType
<1>7. Copied'
  BY <1>1, <1>5, <1>6 DEF Copied, taskVars
<1>8. ASSUME NEW t \in Task
      PROVE  TaskInv(t)'
  <2>1. /\ UNCHANGED <<Told(t), Allowed(t), Failed(t)>>
        /\ Valued(t)' /\ Reported(t)'
    BY ClosureStill DEF taskVars
  <2>2. Consulted(t)' /\ Progress(t)'
    BY <1>1, <2>1 DEF TaskInv, Consulted, Progress, flowVars, taskVars
  <2>3. "TaskSkipped" \notin Told(t) /\ t \in Entries(tasks)
    BY <1>5 DEF TaskInv, Scanned, TasksListed
  <2>4. Scanned(t)'
    BY <2>1, <2>3 DEF Scanned
  <2> QED
    BY <2>1, <2>2, <2>4 DEF TaskInv
<1> QED
  BY <1>2, <1>3, <1>4, <1>7, <1>8

LEMMA WaitReturnsInv ==
  ASSUME FlowInv, Succeed \/ Fail
  PROVE  FlowInv'
<1>1. CASE Succeed
  <2>1. "FlowSuccess" \in FlowEvent
    BY DEF FlowEvent
  <2> QED
    BY <1>1, <2>1, Answered DEF Succeed
<1>2. CASE Fail
  <2>1. PICK r \in {"err", "ctx"} : Graph!Answer(r)
    BY <1>2 DEF Fail
  <2>2. "FlowError" \in FlowEvent
    BY DEF FlowEvent
  <2> QED
    BY <1>2, <2>1, <2>2, Answered DEF Fail
<1> QED
  BY <1>1, <1>2

LEMMA ReturnInv ==
  ASSUME FlowInv, Return
  PROVE  FlowInv'
<1> USE DEF FlowInv, AllTyped
<1>1. /\ main = "returning" /\ main' = "finished" /\ tasks = <<>>
      /\ flowEvents' = Append(flowEvents, "FlowDone")
      /\ UNCHANGED <<flowVars, graphVars, tasks, results, taskVars>>
  BY DEF Return
<1>2. /\ flowEvents' \in Seq(FlowEvent)
      /\ Len(flowEvents') = Len(flowEvents) + 1
  <2>1. flowEvents \in Seq(FlowEvent) /\ "FlowDone" \in FlowEvent
    BY DEF MainType, FlowEvent
  <2> QED
    BY <1>1, <2>1, AppendProperties
<1>3. AllTyped'
  BY <1>1, <1>2 DEF FlowType, GraphType, MainType, ClosureType, flowVars, graphVars, taskVars
<1>4. WaitMatches'
  <2>1. Len(flowEvents) = 1
    BY <1>1 DEF WaitMatches
  <2>2. Len(flowEvents') = 2
    BY <1>2, <2>1
  <2> QED
    BY <1>1, <2>2 DEF WaitMatches, graphVars
<1>5. TasksListed'
  BY <1>1 DEF TasksListed, graphVars
<1>6. Ordered' /\ Copied'
  BY <1>1 DEF Ordered, Dependencies, Copied, flowVars, graphVars, taskVars
<1>7. ASSUME NEW t \in Task
      PROVE  TaskInv(t)'
  <2>1. /\ UNCHANGED <<Told(t), Allowed(t), Failed(t)>>
        /\ Valued(t)' /\ Reported(t)'
    BY <1>1, ClosureStill DEF taskVars
  <2>2. Consulted(t)' /\ Progress(t)'
    BY <1>1, <2>1 DEF TaskInv, Consulted, Progress, flowVars, graphVars, taskVars
  <2>3. Scanned(t)'
    BY <1>1, <2>1 DEF TaskInv, Scanned, graphVars, taskVars
  <2> QED
    BY <2>1, <2>2, <2>3 DEF TaskInv
<1> QED
  BY <1>3, <1>4, <1>5, <1>6, <1>7

LEMMA ReportSkippedInv ==
  ASSUME FlowInv, ReportSkipped
  PROVE  FlowInv'
<1> USE DEF FlowInv, AllTyped
<1>1. PICK t \in Task : /\ t = Head(tasks) /\ tasks' = Tail(tasks)
                        /\ t \in Entries(tasks)
                        /\ Entries(tasks') = Entries(tasks) \ {t}
                        /\ Distinct(tasks') /\ tasks' \in Seq(Task)
  BY DropEntry DEF ReportSkipped, MainType, TasksListed
<1>2. /\ main = "returning"
      /\ events' = IF ran[t] THEN events
                   ELSE [events EXCEPT ![t] = Append(@, "TaskSkipped")]
      /\ UNCHANGED <<flowVars, graphVars, main, results, flowEvents, predicate,
                     value, ran, step, ended>>
  BY <1>1 DEF ReportSkipped
<1>3. "TaskSkipped" \in TaskEvent /\ events[t] \in Seq(TaskEvent)
  BY DEF TaskEvent, ClosureType
<1>4. AllTyped'
  <2>1. events' \in [Task -> Seq(TaskEvent)]
    BY <1>2, <1>3, AppendProperties DEF ClosureType
  <2> QED
    BY <1>1, <1>2, <2>1 DEF FlowType, GraphType, MainType, ClosureType, flowVars, graphVars
<1>5. WaitMatches' /\ TasksListed'
  BY <1>1, <1>2 DEF WaitMatches, TasksListed, graphVars
<1>6. Ordered' /\ Copied'
  BY <1>2 DEF Ordered, Dependencies, Copied, flowVars, graphVars
<1>7. \A u \in Task : u # t \/ ran[t] => events'[u] = events[u]
  BY <1>2 DEF ClosureType
<1>8. ASSUME NEW u \in Task, u # t \/ ran[t]
      PROVE  TaskInv(u)'
  <2>1. UNCHANGED <<predicate[u], value[u], ran[u], step[u], ended[u], events[u]>>
    BY <1>2, <1>7, <1>8
  <2>2. /\ UNCHANGED <<Told(u), Allowed(u), Failed(u)>>
        /\ Valued(u)' /\ Reported(u)'
    BY <1>2, <2>1, ClosureStill
  <2>3. Consulted(u)' /\ Progress(u)'
    BY <1>2, <2>2 DEF TaskInv, Consulted, Progress, flowVars, graphVars
  <2>4. Scanned(u)'
    BY <1>1, <1>2, <1>8, <2>2 DEF TaskInv, Scanned, graphVars
  <2> QED
    BY <2>2, <2>3, <2>4 DEF TaskInv
<1>9. ASSUME ~ran[t]
      PROVE  TaskInv(t)'
  <2>1. events'[t] = Append(events[t], "TaskSkipped")
    BY <1>2, <1>9 DEF ClosureType
  <2>2. /\ "TaskSkipped" \notin Told(t) /\ "TaskDone" \notin Told(t)
        /\ Distinct(events[t]) /\ Told(t) = Entries(events[t])
    <3>1. "TaskSkipped" \notin Told(t)
      BY <1>1 DEF TaskInv, Scanned
    <3>2. "TaskDone" \notin ReturnEvent(t) \union PanicEvent(t) \union DoneEvent(t)
      BY <1>9 DEF ReturnEvent, PanicEvent, DoneEvent
    <3>3. "TaskDone" \notin Told(t)
      BY <3>2 DEF TaskInv, Reported
    <3> QED
      BY <3>1, <3>3 DEF TaskInv, Reported, Told, Entries
  <2>3. /\ Told(t)' = Told(t) \union {"TaskSkipped"}
        /\ Distinct(events[t])' /\ DoneLast(events[t])'
    BY <1>3, <2>1, <2>2, AppendEntry DEF Told, Entries
  <2>4. UNCHANGED <<Allowed(t), Recovers(t), Failed(t), ReturnEvent(t), PanicEvent(t), DoneEvent(t)>>
    BY <1>2 DEF Allowed, Recovers, Failed, ReturnEvent, PanicEvent, DoneEvent, flowVars
  <2>5. Consulted(t)' /\ Progress(t)' /\ Valued(t)'
    BY <1>2, <2>4 DEF TaskInv, Consulted, Progress, Valued, flowVars, graphVars
  <2>6. Reported(t)'
    BY <1>2, <2>3, <2>4 DEF TaskInv, Reported
  <2>7. answer = "nil" => ended[t] = "no"
    <3>1. answer = "nil" => step[t] = "left"
      BY DEF Copied, TaskInv, Progress, ClosureType
    <3> QED
      BY <1>9, <3>1 DEF TaskInv, Progress
  <2>8. Scanned(t)'
    BY <1>1, <1>2, <2>3, <2>7 DEF Scanned, graphVars
  <2> QED
    BY <2>5, <2>6, <2>8 DEF TaskInv
<1> QED
  BY <1>4, <1>5, <1>6, <1>8, <1>9

-----------------------------------------------------------------------------
(* The jobs                                                                *)

(* A job that starts, or is skipped, moves on as JobMoves asks.             *)
LEMMA StartMoves ==
  ASSUME FlowInv, NEW j \in FlowJob, Graph!Start(j),
         UNCHANGED <<flowVars, mainVars, value>>
  PROVE  /\ FlowType' /\ GraphType' /\ MainType'
         /\ WaitMatches' /\ TasksListed' /\ Ordered' /\ Copied'
         /\ status[j] = "submitted" /\ status'[j] = "running"
         /\ \A i \in FlowJob : i # j => status'[i] = status[i]
         /\ \A p \in prereqs[j] : status[p] = "succeeded"
         /\ UNCHANGED answer
<1>1. /\ status[j] = "submitted" /\ status' = [status EXCEPT ![j] = "running"]
      /\ \A p \in prereqs[j] : status[p] = "succeeded"
      /\ UNCHANGED <<prereqs, waitState, answer, cancelled>>
  BY DEF Graph!Start
<1>2. /\ status'[j] = "running"
      /\ \A i \in FlowJob : i # j => status'[i] = status[i]
  BY <1>1 DEF FlowInv, AllTyped, GraphType
<1>3. "running" \in Graph!Status \ {"unknown"}
  BY DEF Graph!Status
<1> QED
  BY <1>1, <1>2, <1>3, JobMoves

LEMMA FinishMoves ==
  ASSUME FlowInv, NEW j \in FlowJob, Graph!Finish(j),
         UNCHANGED <<flowVars, mainVars>>, answer = "nil" => value' = value
  PROVE  /\ FlowType' /\ GraphType' /\ MainType'
         /\ WaitMatches' /\ TasksListed' /\ Ordered' /\ Copied'
         /\ status[j] = "running" /\ status'[j] \in {"succeeded", "failed"}
         /\ \A i \in FlowJob : i # j => status'[i] = status[i]
         /\ UNCHANGED answer
<1>1. PICK s \in {"succeeded", "failed"} :
         /\ status[j] = "running" /\ status' = [status EXCEPT ![j] = s]
         /\ UNCHANGED <<prereqs, waitState, answer, cancelled>>
  BY DEF Graph!Finish
<1>2. /\ status'[j] = s
      /\ \A i \in FlowJob : i # j => status'[i] = status[i]
  BY <1>1 DEF FlowInv, AllTyped, GraphType
<1>3. s \in Graph!Status \ {"unknown"}
  BY DEF Graph!Status
<1>4. \A p \in prereqs[j] : status[p] = "succeeded"
  BY <1>1 DEF FlowInv, Ordered
<1> QED
  BY <1>1, <1>2, <1>3, <1>4, JobMoves

LEMMA SkipMoves ==
  ASSUME FlowInv, NEW j \in FlowJob, Graph!Skip(j),
         UNCHANGED <<flowVars, mainVars, value>>
  PROVE  /\ FlowType' /\ GraphType' /\ MainType'
         /\ WaitMatches' /\ TasksListed' /\ Ordered' /\ Copied'
         /\ status[j] = "submitted" /\ status'[j] = "skipped"
         /\ \A i \in FlowJob : i # j => status'[i] = status[i]
         /\ UNCHANGED answer
<1>1. /\ status[j] = "submitted" /\ status' = [status EXCEPT ![j] = "skipped"]
      /\ UNCHANGED <<prereqs, waitState, answer, cancelled>>
  BY DEF Graph!Skip
<1>2. /\ status'[j] = "skipped"
      /\ \A i \in FlowJob : i # j => status'[i] = status[i]
  BY <1>1 DEF FlowInv, AllTyped, GraphType
<1>3. "skipped" \in Graph!Status \ {"unknown"}
  BY DEF Graph!Status
<1> QED
  BY <1>1, <1>2, <1>3, JobMoves

(* A predicate's job starts or is skipped without a trace in the task.      *)
LEMMA PredicateMoves ==
  ASSUME NEW t \in Task, TaskInv(t), UNCHANGED <<flowVars, mainVars, taskVars, answer>>,
         UNCHANGED status[TaskJob(t)],
         status[PredJob(t)] \in {"submitted", "running"},
         status'[PredJob(t)] \in {"running", "failed", "skipped"}
  PROVE  TaskInv(t)'
<1>1. /\ UNCHANGED <<Told(t), Allowed(t), Failed(t)>>
      /\ Valued(t)' /\ Reported(t)'
  BY ClosureStill DEF taskVars
<1>2. Consulted(t)'
  BY <1>1 DEF TaskInv, Consulted, flowVars, taskVars
<1>3. Progress(t)'
  BY <1>1 DEF TaskInv, Progress, taskVars
<1>4. Scanned(t)'
  BY <1>1 DEF TaskInv, Scanned, mainVars, taskVars
<1> QED
  BY <1>1, <1>2, <1>3, <1>4 DEF TaskInv

(* The other tasks do not notice.                                           *)
LEMMA OthersKept ==
  ASSUME FlowInv, NEW t \in Task, NEW u \in Task, u # t,
         UNCHANGED <<flowVars, main, tasks, answer>>,
         UNCHANGED <<predicate[u], value[u], ran[u], step[u], ended[u], events[u]>>,
         \A i \in FlowJob : i \notin {TaskJob(t), PredJob(t)} => status'[i] = status[i]
  PROVE  TaskInv(u)'
<1>1. UNCHANGED <<status[TaskJob(u)], status[PredJob(u)]>>
  BY JobsApart
<1> QED
  BY <1>1, Untouched DEF FlowInv

LEMMA StartPredicateInv ==
  ASSUME FlowInv, NEW t \in Task, StartPredicate(t)
  PROVE  FlowInv'
<1>1. PredJob(t) \in FlowJob /\ TaskJob(t) \in FlowJob /\ TaskJob(t) # PredJob(t)
  BY JobsApart
<1>2. Graph!Start(PredJob(t)) /\ UNCHANGED <<flowVars, mainVars, taskVars>>
  BY DEF StartPredicate
<1>3. /\ FlowType' /\ GraphType' /\ MainType'
      /\ WaitMatches' /\ TasksListed' /\ Ordered' /\ Copied'
      /\ status[PredJob(t)] = "submitted" /\ status'[PredJob(t)] = "running"
      /\ \A i \in FlowJob : i # PredJob(t) => status'[i] = status[i]
      /\ UNCHANGED answer
  BY <1>1, <1>2, StartMoves DEF taskVars
<1>4. ClosureType'
  BY <1>2 DEF FlowInv, AllTyped, ClosureType, taskVars
<1>5. TaskInv(t)'
  BY <1>1, <1>2, <1>3, PredicateMoves DEF FlowInv
<1>6. \A u \in Task : u # t => TaskInv(u)'
  BY <1>2, <1>3, OthersKept DEF mainVars, taskVars
<1> QED
  BY <1>3, <1>4, <1>5, <1>6 DEF FlowInv, AllTyped

LEMMA SkipJobInv ==
  ASSUME FlowInv, SkipJob
  PROVE  FlowInv'
<1>1. PICK t \in Task : Graph!Skip(TaskJob(t)) \/ Graph!Skip(PredJob(t))
  BY DEF SkipJob
<1>2. UNCHANGED <<flowVars, mainVars, taskVars>>
  BY DEF SkipJob
<1>3. PredJob(t) \in FlowJob /\ TaskJob(t) \in FlowJob /\ TaskJob(t) # PredJob(t)
  BY JobsApart
<1>4. PICK j \in {TaskJob(t), PredJob(t)} : Graph!Skip(j)
  BY <1>1
<1>5. /\ FlowType' /\ GraphType' /\ MainType'
      /\ WaitMatches' /\ TasksListed' /\ Ordered' /\ Copied'
      /\ status[j] = "submitted" /\ status'[j] = "skipped"
      /\ \A i \in FlowJob : i # j => status'[i] = status[i]
      /\ UNCHANGED answer
  BY <1>2, <1>3, <1>4, SkipMoves DEF taskVars
<1>6. ClosureType'
  BY <1>2 DEF FlowInv, AllTyped, ClosureType, taskVars
<1>7. TaskInv(t)'
  <2>1. CASE j = PredJob(t)
    BY <1>2, <1>3, <1>5, <2>1, PredicateMoves DEF FlowInv
  <2>2. CASE j = TaskJob(t)
    <3>1. /\ UNCHANGED <<Told(t), Allowed(t), Failed(t)>>
          /\ Valued(t)' /\ Reported(t)'
      BY <1>2, ClosureStill DEF FlowInv, taskVars
    <3>2. Consulted(t)'
      BY <1>2, <1>3, <1>5, <2>2, <3>1 DEF FlowInv, TaskInv, Consulted, flowVars, taskVars
    <3>3. Progress(t)'
      BY <1>2, <1>5, <2>2, <3>1 DEF FlowInv, TaskInv, Progress, taskVars
    <3>4. Scanned(t)'
      BY <1>2, <1>5, <3>1 DEF FlowInv, TaskInv, Scanned, mainVars, taskVars
    <3> QED
      BY <3>1, <3>2, <3>3, <3>4 DEF TaskInv
  <2> QED
    BY <2>1, <2>2
<1>8. \A u \in Task : u # t => TaskInv(u)'
  BY <1>2, <1>5, OthersKept DEF mainVars, taskVars
<1> QED
  BY <1>5, <1>6, <1>7, <1>8 DEF FlowInv, AllTyped

LEMMA EndPredicateInv ==
  ASSUME FlowInv, NEW t \in Task, EndPredicate(t)
  PROVE  FlowInv'
<1> USE DEF FlowInv, AllTyped
<1>1. PredJob(t) \in FlowJob /\ TaskJob(t) \in FlowJob /\ TaskJob(t) # PredJob(t)
  BY JobsApart
<1>2. /\ Graph!Finish(PredJob(t))
      /\ UNCHANGED <<flowVars, mainVars, value, ran, step, ended, events>>
      /\ \/ /\ status'[PredJob(t)] = "succeeded"
            /\ \E p \in {"true", "false", "panic"} :
                  predicate' = [predicate EXCEPT ![t] = p]
         \/ /\ status'[PredJob(t)] = "failed"
            /\ UNCHANGED predicate
  BY DEF EndPredicate
<1>3. /\ FlowType' /\ GraphType' /\ MainType'
      /\ WaitMatches' /\ TasksListed' /\ Ordered' /\ Copied'
      /\ status[PredJob(t)] = "running"
      /\ \A i \in FlowJob : i # PredJob(t) => status'[i] = status[i]
      /\ UNCHANGED answer
  BY <1>1, <1>2, FinishMoves
<1>4. /\ predicate' \in [Task -> {"unset", "true", "false", "panic"}]
      /\ \A u \in Task : u # t => predicate'[u] = predicate[u]
      /\ predicate'[t] # "unset" <=> status'[PredJob(t)] = "succeeded"
  <2>1. CASE \E p \in {"true", "false", "panic"} :
                predicate' = [predicate EXCEPT ![t] = p] /\ status'[PredJob(t)] = "succeeded"
    BY <2>1 DEF ClosureType
  <2>2. CASE UNCHANGED predicate /\ status'[PredJob(t)] = "failed"
    <3>1. predicate[t] = "unset"
      BY <1>3 DEF TaskInv, Consulted
    <3> QED
      BY <2>2, <3>1 DEF ClosureType
  <2> QED
    BY <1>2, <2>1, <2>2
<1>5. ClosureType'
  BY <1>2, <1>4 DEF ClosureType
<1>6. t \in guarded /\ step[t] = "idle" /\ ended[t] = "no" /\ ~ran[t]
  <2>1. t \in guarded
    BY <1>3 DEF TaskInv, Consulted
  <2>2. status[TaskJob(t)] \in {"unknown", "submitted", "skipped"}
    <3>1. PredJob(t) \in Dependencies(t)
      BY <2>1 DEF Dependencies
    <3>2. status[TaskJob(t)] \notin {"running", "succeeded", "failed"}
      BY <1>1, <1>3, <3>1 DEF Ordered
    <3> QED
      BY <1>1, <3>2 DEF GraphType, Graph!Status
  <2> QED
    BY <2>1, <2>2 DEF TaskInv, Progress
<1>7. TaskInv(t)'
  <2>1. UNCHANGED <<step[t], ended[t], ran[t], value[t], events[t], Told(t), status[TaskJob(t)]>>
    BY <1>1, <1>2, <1>3 DEF Told
  <2>2. Consulted(t)'
    BY <1>2, <1>4, <1>6 DEF Consulted, flowVars
  <2>3. Progress(t)'
    BY <1>6, <2>1 DEF TaskInv, Progress
  <2>4. Valued(t)'
    BY <1>6, <2>1 DEF Valued
  <2>5. ReturnEvent(t) = {} /\ ReturnEvent(t)' = {}
    BY <1>2, <1>6 DEF ReturnEvent
  <2>6. Reported(t)'
    BY <1>6, <2>1, <2>5 DEF TaskInv, Reported
  <2>7. Scanned(t)'
    BY <1>2, <1>3, <2>1 DEF TaskInv, Scanned, mainVars
  <2> QED
    BY <2>2, <2>3, <2>4, <2>6, <2>7 DEF TaskInv
<1>8. \A u \in Task : u # t => TaskInv(u)'
  BY <1>2, <1>3, <1>4, OthersKept DEF mainVars
<1> QED
  BY <1>3, <1>5, <1>7, <1>8

LEMMA StartTaskInv ==
  ASSUME FlowInv, NEW t \in Task, StartTask(t)
  PROVE  FlowInv'
<1> USE DEF FlowInv, AllTyped
<1>1. PredJob(t) \in FlowJob /\ TaskJob(t) \in FlowJob /\ TaskJob(t) # PredJob(t)
  BY JobsApart
<1>2. /\ Graph!Start(TaskJob(t))
      /\ step' = [step EXCEPT ![t] = IF Allowed(t) THEN "calling" ELSE "leaving"]
      /\ UNCHANGED <<flowVars, mainVars, predicate, value, ran, ended, events>>
  BY DEF StartTask
<1>3. /\ FlowType' /\ GraphType' /\ MainType'
      /\ WaitMatches' /\ TasksListed' /\ Ordered' /\ Copied'
      /\ status[TaskJob(t)] = "submitted" /\ status'[TaskJob(t)] = "running"
      /\ \A i \in FlowJob : i # TaskJob(t) => status'[i] = status[i]
      /\ UNCHANGED answer
  BY <1>1, <1>2, StartMoves
<1>4. /\ step' \in [Task -> {"idle", "calling", "called", "leaving", "left"}]
      /\ \A u \in Task : u # t => step'[u] = step[u]
      /\ step'[t] = IF Allowed(t) THEN "calling" ELSE "leaving"
  BY <1>2 DEF ClosureType
<1>5. ClosureType'
  BY <1>2, <1>4 DEF ClosureType
<1>6. step[t] = "idle" /\ ended[t] = "no" /\ ~ran[t]
  BY <1>3 DEF TaskInv, Progress
<1>7. TaskInv(t)'
  <2>1. /\ UNCHANGED <<predicate[t], ended[t], ran[t], value[t], events[t], Told(t)>>
        /\ UNCHANGED <<status[PredJob(t)], Allowed(t), ReturnEvent(t)>>
    BY <1>1, <1>2, <1>3 DEF Told, Allowed, ReturnEvent, flowVars
  <2>2. Consulted(t)'
    BY <1>2, <1>4, <1>6, <2>1 DEF TaskInv, Consulted, flowVars
  <2>3. Progress(t)'
    BY <1>3, <1>4, <1>6, <2>1 DEF Progress
  <2>4. Valued(t)'
    BY <1>4, <1>6, <2>1 DEF Valued
  <2>5. Reported(t)'
    BY <1>4, <1>6, <2>1 DEF TaskInv, Reported
  <2>6. Scanned(t)'
    BY <1>2, <1>3, <2>1 DEF TaskInv, Scanned, mainVars
  <2> QED
    BY <2>2, <2>3, <2>4, <2>5, <2>6 DEF TaskInv
<1>8. \A u \in Task : u # t => TaskInv(u)'
  BY <1>2, <1>3, <1>4, OthersKept DEF mainVars
<1> QED
  BY <1>3, <1>5, <1>7, <1>8

-----------------------------------------------------------------------------
(* The closures                                                            *)

(* No result is copied while a closure runs.                                *)
LEMMA NotAnswered ==
  ASSUME FlowInv, NEW t \in Task, step[t] \in {"calling", "called", "leaving"}
  PROVE  answer # "nil" /\ status[TaskJob(t)] = "running"
BY DEF FlowInv, TaskInv, Progress, Copied

LEMMA ReturnFromTaskInv ==
  ASSUME FlowInv, NEW t \in Task, ReturnFromTask(t)
  PROVE  FlowInv'
<1> USE DEF FlowInv, AllTyped
<1>1. PICK e \in {"ok", "error"}, v \in {"computed", "fallback"},
           k \in {"TaskSuccess", "TaskErrorRecovered", "TaskError"} :
         /\ ended' = [ended EXCEPT ![t] = e]
         /\ value' = [value EXCEPT ![t] = v]
         /\ events' = [events EXCEPT ![t] = Append(@, k)]
         /\ {k} = CASE e = "ok"    -> {"TaskSuccess"}
                    [] e = "error" -> {IF t \in fallback THEN "TaskErrorRecovered"
                                       ELSE "TaskError"}
                    [] OTHER       -> {}
  BY DEF ReturnFromTask
<1>2. /\ step[t] = "calling"
      /\ step' = [step EXCEPT ![t] = "called"]
      /\ UNCHANGED <<flowVars, graphVars, mainVars, predicate, ran>>
  BY DEF ReturnFromTask
<1>3. /\ FlowType' /\ GraphType' /\ MainType'
      /\ WaitMatches' /\ TasksListed' /\ Ordered' /\ Copied'
  BY <1>2, ClosureWrites, NotAnswered
<1>4. /\ step'[t] = "called" /\ ended'[t] = e /\ value'[t] = v
      /\ events'[t] = Append(events[t], k)
      /\ \A u \in Task : u # t =>
            UNCHANGED <<step[u], ended[u], value[u], events[u]>>
  BY <1>1, <1>2 DEF ClosureType
<1>5. events[t] \in Seq(TaskEvent) /\ k \in TaskEvent
  BY DEF ClosureType, TaskEvent, Verdict
<1>6. ClosureType'
  <2>1. Append(events[t], k) \in Seq(TaskEvent)
    BY <1>5, AppendProperties
  <2> QED
    BY <1>1, <1>2, <2>1 DEF ClosureType, Value
<1>7. /\ ended[t] = "no" /\ ~ran[t] /\ Allowed(t) /\ status[TaskJob(t)] = "running"
      /\ Told(t) \subseteq {"TaskSkipped"}
      /\ Distinct(events[t]) /\ Told(t) = Entries(events[t])
  BY <1>2 DEF TaskInv, Consulted, Progress, Reported, ReturnEvent, Told, Entries
<1>8. TaskInv(t)'
  <2>1. UNCHANGED <<predicate[t], ran[t], Allowed(t)>>
    BY <1>2 DEF Allowed, flowVars
  <2>2. /\ Told(t)' = Told(t) \union {k}
        /\ Distinct(events[t])' /\ DoneLast(events[t])'
    <3>1. k \notin Entries(events[t]) /\ "TaskDone" \notin Entries(events[t])
      BY <1>7
    <3>2. /\ Entries(Append(events[t], k)) = Entries(events[t]) \union {k}
          /\ Distinct(Append(events[t], k)) /\ DoneLast(Append(events[t], k))
      BY <1>5, <1>7, <3>1, AppendEntry
    <3> QED
      BY <1>4, <1>7, <3>2 DEF Told, Entries
  <2>3. ReturnEvent(t)' = {k}
    BY <1>1, <1>2, <1>4 DEF ReturnEvent, flowVars
  <2>4. Consulted(t)'
    BY <1>2, <1>4, <1>7, <2>1 DEF TaskInv, Consulted, flowVars, graphVars
  <2>5. Progress(t)'
    BY <1>2, <1>4, <1>7, <2>1 DEF Progress, graphVars
  <2>6. Valued(t)'
    BY <1>4 DEF Valued
  <2>7. Reported(t)'
    BY <1>4, <1>7, <2>2, <2>3 DEF Reported
  <2>8. Scanned(t)'
    BY <1>2, <1>4, <1>7, <2>1, <2>2, NotAnswered DEF TaskInv, Scanned, graphVars, mainVars
  <2> QED
    BY <2>4, <2>5, <2>6, <2>7, <2>8 DEF TaskInv
<1>9. \A u \in Task : u # t => TaskInv(u)'
  BY <1>2, <1>4, OthersKept DEF mainVars, graphVars
<1> QED
  BY <1>3, <1>6, <1>8, <1>9

(* AbortTask and StoreRan tell the emitter nothing.                         *)
LEMMA AbortTaskInv ==
  ASSUME FlowInv, NEW t \in Task, AbortTask(t)
  PROVE  FlowInv'
<1> USE DEF FlowInv, AllTyped
<1>1. PICK e \in {"panic", "exit"} : ended' = [ended EXCEPT ![t] = e]
  BY DEF AbortTask
<1>2. /\ step[t] = "calling"
      /\ step' = [step EXCEPT ![t] = "called"]
      /\ UNCHANGED <<flowVars, graphVars, mainVars, predicate, value, ran, events>>
  BY DEF AbortTask
<1>3. /\ FlowType' /\ GraphType' /\ MainType'
      /\ WaitMatches' /\ TasksListed' /\ Ordered' /\ Copied'
  BY <1>2, ClosureWrites
<1>4. /\ step'[t] = "called" /\ ended'[t] = e
      /\ \A u \in Task : u # t => UNCHANGED <<step[u], ended[u]>>
  BY <1>1, <1>2 DEF ClosureType
<1>5. ClosureType'
  BY <1>1, <1>2 DEF ClosureType
<1>6. ended[t] = "no" /\ ~ran[t] /\ Allowed(t) /\ status[TaskJob(t)] = "running"
  BY <1>2 DEF TaskInv, Consulted, Progress
<1>7. TaskInv(t)'
  <2>1. UNCHANGED <<predicate[t], ran[t], value[t], events[t], Allowed(t), Told(t)>>
    BY <1>2 DEF Allowed, Told, flowVars
  <2>2. ReturnEvent(t) = {} /\ ReturnEvent(t)' = {}
    BY <1>4, <1>6 DEF ReturnEvent
  <2>3. Consulted(t)'
    BY <1>2, <1>4, <1>6, <2>1 DEF TaskInv, Consulted, flowVars, graphVars
  <2>4. Progress(t)'
    BY <1>2, <1>4, <1>6, <2>1 DEF Progress, graphVars
  <2>5. Valued(t)' /\ Reported(t)'
    BY <1>2, <1>4, <2>1, <2>2 DEF TaskInv, Valued, Reported
  <2>6. Scanned(t)'
    BY <1>2, <2>1, NotAnswered DEF TaskInv, Scanned, graphVars, mainVars
  <2> QED
    BY <2>3, <2>4, <2>5, <2>6 DEF TaskInv
<1>8. \A u \in Task : u # t => TaskInv(u)'
  BY <1>2, <1>4, OthersKept DEF mainVars, graphVars
<1> QED
  BY <1>3, <1>5, <1>7, <1>8

LEMMA StoreRanInv ==
  ASSUME FlowInv, NEW t \in Task, StoreRan(t)
  PROVE  FlowInv'
<1> USE DEF FlowInv, AllTyped
<1>1. /\ step[t] = "called"
      /\ ran' = [ran EXCEPT ![t] = TRUE]
      /\ step' = [step EXCEPT ![t] = "leaving"]
      /\ UNCHANGED <<flowVars, graphVars, mainVars, predicate, value, ended, events>>
  BY DEF StoreRan
<1>2. /\ FlowType' /\ GraphType' /\ MainType'
      /\ WaitMatches' /\ TasksListed' /\ Ordered' /\ Copied'
  BY <1>1, ClosureWrites
<1>3. /\ step'[t] = "leaving" /\ ran'[t] = TRUE
      /\ \A u \in Task : u # t => UNCHANGED <<step[u], ran[u]>>
  BY <1>1 DEF ClosureType
<1>4. ClosureType'
  BY <1>1 DEF ClosureType
<1>5. ended[t] # "no" /\ status[TaskJob(t)] = "running"
  BY <1>1 DEF TaskInv, Progress
<1>6. TaskInv(t)'
  <2>1. UNCHANGED <<predicate[t], ended[t], value[t], events[t], Allowed(t), Told(t), ReturnEvent(t)>>
    BY <1>1 DEF Allowed, Told, ReturnEvent, flowVars
  <2>2. Consulted(t)'
    BY <1>1, <1>3, <1>5, <2>1 DEF TaskInv, Consulted, flowVars, graphVars
  <2>3. Progress(t)'
    BY <1>1, <1>3, <1>5, <2>1 DEF Progress, graphVars
  <2>4. Valued(t)' /\ Reported(t)'
    BY <1>1, <1>3, <2>1 DEF TaskInv, Valued, Reported
  <2>5. Scanned(t)'
    BY <1>1, <1>3, <2>1 DEF TaskInv, Scanned, graphVars, mainVars
  <2> QED
    BY <2>2, <2>3, <2>4, <2>5 DEF TaskInv
<1>7. \A u \in Task : u # t => TaskInv(u)'
  BY <1>1, <1>3, OthersKept DEF mainVars, graphVars
<1> QED
  BY <1>2, <1>4, <1>6, <1>7

(* What the deferred functions append, read as two optional entries.        *)
LEMMA LeaveReports ==
  ASSUME FlowInv, NEW t \in Task, LeaveTask(t)
  PROVE  /\ events' \in [Task -> Seq(TaskEvent)]
         /\ \A u \in Task : u # t => events'[u] = events[u]
         /\ Told(t)' = Told(t) \union PanicEvent(t) \union DoneEvent(t)
         /\ Distinct(events[t])' /\ DoneLast(events[t])'
<1> USE DEF FlowInv, AllTyped
<1> DEFINE p == IF ~Recovers(t) THEN <<>>
                ELSE IF t \in fallback THEN <<"TaskPanicRecovered">>
                ELSE <<"TaskPanic">>
           d == IF ran[t] THEN <<"TaskDone">> ELSE <<>>
           s == events[t] \o p
           r == s \o d
<1>1. step[t] = "leaving" /\ events' = [events EXCEPT ![t] = @ \o p \o d]
  BY DEF LeaveTask
<1>2. /\ events[t] \in Seq(TaskEvent)
      /\ Told(t) = Entries(events[t]) /\ Distinct(events[t])
      /\ Told(t) \ {"TaskSkipped"} = ReturnEvent(t)
  BY <1>1 DEF ClosureType, Told, Entries, TaskInv, Reported
<1>3. /\ ReturnEvent(t) \subseteq {"TaskSuccess", "TaskErrorRecovered", "TaskError"}
      /\ Told(t) \intersect {"TaskPanic", "TaskPanicRecovered", "TaskDone"} = {}
  <2>1. ReturnEvent(t) \subseteq {"TaskSuccess", "TaskErrorRecovered", "TaskError"}
    BY DEF ReturnEvent
  <2> QED
    BY <1>2, <2>1
<1>4. /\ s \in Seq(TaskEvent) /\ Distinct(s)
      /\ Entries(s) = Told(t) \union PanicEvent(t) /\ "TaskDone" \notin Entries(s)
  <2>1. CASE ~Recovers(t)
    <3>1. p = <<>> /\ PanicEvent(t) = {}
      BY <2>1 DEF PanicEvent
    <3>2. events[t] \o <<>> = events[t]
      BY <1>2, ConcatEmptySeq
    <3> QED
      BY <1>2, <1>3, <3>1, <3>2
  <2>2. CASE Recovers(t)
    <3>1. PICK e \in {"TaskPanic", "TaskPanicRecovered"} :
             PanicEvent(t) = {e} /\ p = <<e>>
      BY <2>2 DEF PanicEvent
    <3>2. e \in TaskEvent /\ e \notin Entries(events[t]) /\ e # "TaskDone"
      BY <1>2, <1>3 DEF TaskEvent, Verdict
    <3> HIDE DEF p
    <3>3. /\ s \in Seq(TaskEvent) /\ Distinct(s)
          /\ Entries(s) = Entries(events[t]) \union {e}
      BY <1>2, <3>1, <3>2, ConcatEntry
    <3> QED
      BY <1>2, <1>3, <3>1, <3>2, <3>3
  <2> QED
    BY <2>1, <2>2
<1> HIDE DEF s
<1>5. /\ r \in Seq(TaskEvent) /\ Distinct(r) /\ DoneLast(r)
      /\ Entries(r) = Entries(s) \union DoneEvent(t)
  <2>1. CASE ~ran[t]
    <3>1. d = <<>> /\ DoneEvent(t) = {}
      BY <2>1 DEF DoneEvent
    <3>2. s \o <<>> = s
      BY <1>4, ConcatEmptySeq
    <3>3. DoneLast(s)
      BY <1>4 DEF DoneLast, Entries
    <3> QED
      BY <1>4, <3>1, <3>2, <3>3
  <2>2. CASE ran[t]
    <3>1. "TaskDone" \in TaskEvent /\ d = <<"TaskDone">> /\ DoneEvent(t) = {"TaskDone"}
      BY <2>2 DEF TaskEvent, DoneEvent
    <3> HIDE DEF d
    <3> QED
      BY <1>4, <3>1, ConcatEntry
  <2> QED
    BY <2>1, <2>2
<1>6. events' = [events EXCEPT ![t] = r]
  BY <1>1 DEF s
<1> HIDE DEF r
<1>7. /\ events' \in [Task -> Seq(TaskEvent)] /\ events'[t] = r
      /\ \A u \in Task : u # t => events'[u] = events[u]
  BY <1>5, <1>6 DEF ClosureType
<1>8. Told(t)' = Entries(r)
  BY <1>7 DEF Told, Entries
<1> QED
  BY <1>4, <1>5, <1>7, <1>8

LEMMA LeaveTaskInv ==
  ASSUME FlowInv, NEW t \in Task, LeaveTask(t)
  PROVE  FlowInv'
<1> USE DEF FlowInv, AllTyped
<1>1. PredJob(t) \in FlowJob /\ TaskJob(t) \in FlowJob /\ TaskJob(t) # PredJob(t)
  BY JobsApart
<1>2. /\ step[t] = "leaving"
      /\ value' = IF Recovers(t) /\ t \in fallback
                  THEN [value EXCEPT ![t] = "fallback"] ELSE value
      /\ step' = [step EXCEPT ![t] = "left"]
      /\ Graph!Finish(TaskJob(t))
      /\ status'[TaskJob(t)] = IF Failed(t) THEN "failed" ELSE "succeeded"
      /\ UNCHANGED <<flowVars, mainVars, predicate, ran, ended>>
  BY DEF LeaveTask
<1>3. answer # "nil"
  BY <1>2, NotAnswered
<1>4. /\ FlowType' /\ GraphType' /\ MainType'
      /\ WaitMatches' /\ TasksListed' /\ Ordered' /\ Copied'
      /\ \A i \in FlowJob : i # TaskJob(t) => status'[i] = status[i]
      /\ UNCHANGED answer
  BY <1>1, <1>2, <1>3, FinishMoves
<1>5. /\ step'[t] = "left" /\ value' \in [Task -> Value]
      /\ value'[t] = IF Recovers(t) /\ t \in fallback THEN "fallback" ELSE value[t]
      /\ \A u \in Task : u # t => step'[u] = step[u] /\ value'[u] = value[u]
  BY <1>2 DEF ClosureType, Value
<1>6. ClosureType'
  BY <1>2, <1>5, LeaveReports DEF ClosureType
<1>7. TaskInv(t)'
  <2>1. /\ UNCHANGED <<predicate[t], ended[t], ran[t], status[PredJob(t)]>>
        /\ UNCHANGED <<Allowed(t), Recovers(t), Failed(t)>>
        /\ UNCHANGED <<ReturnEvent(t), PanicEvent(t), DoneEvent(t)>>
    <3>1. UNCHANGED <<Allowed(t), Recovers(t), status[PredJob(t)]>>
      BY <1>1, <1>2, <1>4 DEF Allowed, Recovers, flowVars
    <3> QED
      BY <1>2, <3>1 DEF Failed, ReturnEvent, PanicEvent, DoneEvent, flowVars
  <2>2. Consulted(t)'
    BY <1>2, <1>5, <2>1 DEF TaskInv, Consulted, flowVars
  <2>3. Progress(t)'
    BY <1>2, <1>5, <2>1 DEF TaskInv, Progress
  <2>4. Valued(t)'
    BY <1>2, <1>5, <2>1 DEF TaskInv, Valued, flowVars
  <2>5. Told(t)' = Told(t) \union PanicEvent(t) \union DoneEvent(t)
    BY LeaveReports
  <2>6. "TaskSkipped" \notin PanicEvent(t) \union DoneEvent(t)
    BY DEF PanicEvent, DoneEvent
  <2>7. Reported(t)'
    <3>1. Told(t) \ {"TaskSkipped"} = ReturnEvent(t)
      BY <1>2 DEF TaskInv, Reported
    <3>2. Told(t)' \ {"TaskSkipped"} = ReturnEvent(t) \union (PanicEvent(t) \union DoneEvent(t))
      BY <2>5, <2>6, <3>1
    <3> QED
      BY <1>5, <2>1, <3>2, LeaveReports DEF Reported
  <2>8. Scanned(t)'
    BY <1>2, <1>3, <1>4, <2>1, <2>5, <2>6 DEF TaskInv, Scanned, mainVars
  <2> QED
    BY <2>2, <2>3, <2>4, <2>7, <2>8 DEF TaskInv
<1>8. \A u \in Task : u # t => TaskInv(u)'
  BY <1>2, <1>4, <1>5, LeaveReports, OthersKept DEF mainVars
<1> QED
  BY <1>4, <1>6, <1>7, <1>8

-----------------------------------------------------------------------------
(* Every step                                                              *)

LEMMA StutterInv ==
  ASSUME FlowInv, UNCHANGED vars
  PROVE  FlowInv'
<1> USE DEF FlowInv, AllTyped, vars
<1>1. /\ FlowType' /\ GraphType' /\ MainType'
      /\ WaitMatches' /\ TasksListed' /\ Ordered' /\ Copied'
  BY ClosureWrites DEF taskVars
<1>2. ClosureType'
  BY DEF ClosureType, taskVars
<1>3. \A t \in Task : TaskInv(t)'
  BY Untouched DEF mainVars, graphVars, taskVars
<1> QED
  BY <1>1, <1>2, <1>3

LEMMA CancelInv ==
  ASSUME FlowInv, CancelFlow
  PROVE  FlowInv'
<1> USE DEF FlowInv, AllTyped
<1>1. /\ cancelled' = TRUE /\ UNCHANGED <<status, prereqs, waitState, answer>>
      /\ UNCHANGED <<flowVars, mainVars, taskVars>>
  BY DEF CancelFlow, Graph!Cancel
<1>2. AllTyped'
  BY <1>1 DEF FlowType, GraphType, MainType, ClosureType, flowVars, mainVars, taskVars
<1>3. WaitMatches' /\ TasksListed' /\ Ordered' /\ Copied'
  BY <1>1 DEF WaitMatches, TasksListed, Ordered, Dependencies, Copied, flowVars, mainVars, taskVars
<1>4. \A t \in Task : TaskInv(t)'
  BY <1>1, Untouched DEF mainVars, taskVars
<1> QED
  BY <1>2, <1>3, <1>4

LEMMA StepInv ==
  ASSUME FlowInv, [Next]_vars
  PROVE  FlowInv'
<1>1. CASE \E t \in Task : EnqueuePredicate(t) \/ EnqueueTask(t)
  BY <1>1, EnqueuePredicateInv, EnqueueTaskInv
<1>2. CASE Await \/ Succeed \/ Fail \/ ReportSkipped \/ Return
  BY <1>2, AwaitInv, WaitReturnsInv, ReportSkippedInv, ReturnInv
<1>3. CASE SkipJob \/ CancelFlow
  BY <1>3, SkipJobInv, CancelInv
<1>4. CASE \E t \in Task : StartPredicate(t) \/ EndPredicate(t)
  BY <1>4, StartPredicateInv, EndPredicateInv
<1>5. CASE \E t \in Task : StartTask(t) \/ ReturnFromTask(t) \/ AbortTask(t)
  BY <1>5, StartTaskInv, ReturnFromTaskInv, AbortTaskInv
<1>6. CASE \E t \in Task : StoreRan(t) \/ LeaveTask(t)
  BY <1>6, StoreRanInv, LeaveTaskInv
<1>7. CASE UNCHANGED vars
  BY <1>7, StutterInv
<1> QED
  BY <1>1, <1>2, <1>3, <1>4, <1>5, <1>6, <1>7 DEF Next, Main, Closure, AllOver

LEMMA FlowInvariance == Spec => []FlowInv
<1>1. FlowInv /\ [Next]_vars => FlowInv'
  BY StepInv
<1> QED
  BY InitInv, <1>1, PTL DEF Spec

-----------------------------------------------------------------------------
(* What follows                                                            *)

(* Every variable of the generated code keeps its type, and no emitter is   *)
(* told more than its share: three events for a task, two for the flow.     *)
THEOREM FlowTypesRight == Spec => []TypeOK
BY FlowInvariance, InvariantTyped, PTL

(* A task whose job has succeeded has left its closure; if it did not run,  *)
(* its predicate said so, and only then is its value still zero.            *)
LEMMA Succeeded ==
  ASSUME FlowInv, NEW t \in Task, status[TaskJob(t)] = "succeeded"
  PROVE  /\ step[t] = "left" /\ ~Failed(t)
         /\ ended[t] = "no" => t \in guarded /\ predicate[t] \in {"false", "panic"}
         /\ value[t] = "zero" => predicate[t] = "false"
<1> USE DEF FlowInv, AllTyped
<1>1. step[t] = "left" /\ ~Failed(t)
  BY DEF TaskInv, Progress, ClosureType
<1>2. ASSUME ended[t] = "no"
      PROVE  t \in guarded /\ predicate[t] \in {"false", "panic"}
  <2>1. t \in guarded /\ predicate[t] # "true"
    BY <1>1, <1>2 DEF TaskInv, Consulted, Allowed
  <2>2. PredJob(t) \in Dependencies(t)
    BY <2>1 DEF Dependencies
  <2>3. status[PredJob(t)] = "succeeded"
    BY <2>2, JobsApart DEF Ordered
  <2> QED
    BY <2>1, <2>3 DEF TaskInv, Consulted, ClosureType
<1>3. ASSUME value[t] = "zero"
      PROVE  predicate[t] = "false"
  <2>1. ~Recovers(t) \/ t \notin fallback
    BY <1>1, <1>3 DEF TaskInv, Valued
  <2>2. ~Recovers(t) /\ ended[t] # "exit"
    BY <1>1, <2>1 DEF Failed
  <2>3. ended[t] = "no"
    BY <1>3, <2>2 DEF TaskInv, Valued, Recovers, ClosureType
  <2> QED
    BY <1>2, <2>2, <2>3 DEF Recovers
<1> QED
  BY <1>1, <1>2, <1>3

(* The user's function is only called once every task that provides one of  *)
(* its inputs has left its closure, so it never reads a variable another    *)
(* goroutine writes; and it reads a zero value only when the provider's     *)
(* predicate was false.                                                     *)
THEOREM InputsAreSettled == Spec => []InputsSettled
<1>1. ASSUME FlowInv
      PROVE  InputsSettled
  <2> USE <1>1 DEF FlowInv, AllTyped
  <2> SUFFICES ASSUME NEW t \in Task, step[t] = "calling", NEW d \in needs[t]
               PROVE  step[d] = "left" /\ (value[d] = "zero" => predicate[d] = "false")
    BY DEF InputsSettled
  <2>1. d \in Task
    BY DEF FlowType
  <2>2. status[TaskJob(t)] = "running" /\ TaskJob(d) \in Dependencies(t)
    BY DEF TaskInv, Progress, Dependencies
  <2>3. status[TaskJob(d)] = "succeeded"
    BY <2>2, JobsApart DEF Ordered
  <2> QED
    BY <1>1, <2>1, <2>3, Succeeded
<1> QED
  BY FlowInvariance, <1>1, PTL

(* A flow that returns nil gives every variable of cff.Results its final    *)
(* value, zero only where a predicate was false; a flow that fails leaves   *)
(* them alone, whatever the tasks it left behind still do.                  *)
THEOREM ResultsAreFinal == Spec => []ResultsFinal
<1>1. ASSUME FlowInv
      PROVE  ResultsFinal
  BY <1>1, Succeeded DEF FlowInv, Copied, ResultsFinal
<1> QED
  BY FlowInvariance, <1>1, PTL

(* The end of a task is reported by one verdict, and before TaskDone.       *)
THEOREM OneVerdictEach == Spec => []OneVerdict
<1>1. ASSUME FlowInv
      PROVE  OneVerdict
  <2> SUFFICES ASSUME NEW t \in Task
               PROVE  /\ Cardinality({i \in DOMAIN events[t] : events[t][i] \in Verdict}) <= 1
                      /\ \A i \in DOMAIN events[t] : events[t][i] = "TaskDone" =>
                            \/ \E k \in 1..(i - 1) : events[t][k] \in Verdict
                            \/ ended[t] = "exit"
    BY DEF OneVerdict
  <2> DEFINE s == events[t]
             V == {i \in DOMAIN s : s[i] \in Verdict}
  <2>1. /\ TaskInv(t) /\ s \in Seq(TaskEvent)
        /\ ended[t] \in {"no", "ok", "error", "panic", "exit"}
    BY <1>1 DEF FlowInv, AllTyped, ClosureType
  <2>2. Len(s) \in Nat /\ DOMAIN s = 1..Len(s)
    BY <2>1, LenProperties
  <2>3. Cardinality(V) <= 1
    <3>1. PICK v \in Verdict : ReturnEvent(t) \union PanicEvent(t) \subseteq {v}
      BY <2>1, OneEnding
    <3>2. \A i \in V : s[i] = v
      <4>1. Told(t) \subseteq {v, "TaskDone", "TaskSkipped"}
        BY <2>1, <3>1 DEF TaskInv, Reported, DoneEvent
      <4> QED
        BY <4>1 DEF Told, Verdict
    <3>3. \A a, b \in V : a = b
      BY <2>1, <3>2 DEF TaskInv, Reported, Distinct
    <3>4. CASE V = {}
      BY <3>4, FS_EmptySet
    <3>5. CASE V # {}
      <4>1. PICK i : V = {i}
        BY <3>3, <3>5
      <4>2. Cardinality(V) = 1
        BY <4>1, FS_Singleton
      <4> QED
        BY <4>2
    <3> QED
      BY <3>4, <3>5
  <2>4. ASSUME NEW i \in DOMAIN s, s[i] = "TaskDone", ended[t] # "exit"
        PROVE  \E k \in 1..(i - 1) : s[k] \in Verdict
    <3>1. i = Len(s) /\ "TaskDone" \in Told(t)
      BY <2>1, <2>4 DEF TaskInv, Reported, DoneLast, Told
    <3>2. "TaskDone" \notin ReturnEvent(t) \union PanicEvent(t)
      BY DEF ReturnEvent, PanicEvent
    <3>3. step[t] = "left" /\ ran[t]
      BY <2>1, <3>1, <3>2 DEF TaskInv, Reported, DoneEvent
    <3>4. ended[t] \in {"ok", "error", "panic"}
      BY <2>1, <2>4, <3>3 DEF TaskInv, Progress
    <3>5. PICK v \in Verdict : v \in ReturnEvent(t) \union PanicEvent(t)
      BY <3>4 DEF ReturnEvent, PanicEvent, Recovers, Verdict
    <3>6. v \in Told(t)
      BY <2>1, <3>3, <3>5 DEF TaskInv, Reported
    <3>7. PICK k \in DOMAIN s : s[k] = v
      BY <3>6 DEF Told
    <3>8. k # i
      BY <2>4, <3>7 DEF Verdict
    <3>9. k \in 1..(i - 1)
      BY <2>2, <3>1, <3>8
    <3> QED
      BY <3>7, <3>9
  <2> QED
    BY <2>3, <2>4
<1> QED
  BY FlowInvariance, <1>1, PTL

(* A failure is never silent, and none that was not recovered is reported   *)
(* of a task whose job succeeded.                                           *)
THEOREM FailuresAreReported == Spec => []FailuresReported
<1>1. ASSUME FlowInv
      PROVE  FailuresReported
  <2> USE <1>1 DEF FlowInv, AllTyped
  <2>1. ASSUME NEW t \in Task, status[TaskJob(t)] = "failed", ended[t] # "exit"
        PROVE  Told(t) \intersect {"TaskError", "TaskPanic"} # {}
    <3>1. step[t] = "left"
      BY <2>1 DEF TaskInv, Progress, ClosureType
    <3>2. t \notin fallback /\ (ended[t] = "error" \/ Recovers(t))
      BY <2>1, <3>1 DEF TaskInv, Progress, Failed
    <3>3. "TaskError" \in ReturnEvent(t) \/ "TaskPanic" \in PanicEvent(t)
      BY <3>2 DEF ReturnEvent, PanicEvent
    <3> QED
      BY <3>1, <3>3 DEF TaskInv, Reported
  <2>2. ASSUME NEW t \in Task, status[TaskJob(t)] = "succeeded"
        PROVE  Told(t) \intersect {"TaskError", "TaskPanic"} = {}
    <3>1. step[t] = "left" /\ ~Failed(t)
      BY <2>2, Succeeded
    <3>2. "TaskError" \notin ReturnEvent(t) /\ "TaskPanic" \notin ReturnEvent(t)
      BY <3>1 DEF Failed, ReturnEvent
    <3>3. "TaskError" \notin PanicEvent(t) /\ "TaskPanic" \notin PanicEvent(t)
      BY <3>1 DEF Failed, PanicEvent
    <3> QED
      BY <3>1, <3>2, <3>3 DEF TaskInv, Reported, DoneEvent
  <2> QED
    BY <2>1, <2>2 DEF FailuresReported
<1> QED
  BY FlowInvariance, <1>1, PTL

(* When a flow has returned nil every task is accounted for, those that ran *)
(* by a verdict and TaskDone, those that did not by TaskSkipped.            *)
THEOREM AllAccountedFor == Spec => []AccountedFor
<1>1. ASSUME FlowInv
      PROVE  AccountedFor
  <2> USE <1>1 DEF FlowInv, AllTyped
  <2> SUFFICES ASSUME main = "finished", answer = "nil", NEW t \in Task
               PROVE  IF ended[t] = "no"
                      THEN /\ "TaskSkipped" \in Told(t) /\ "TaskDone" \notin Told(t)
                           /\ predicate[t] \in {"false", "panic"}
                           /\ "TaskPanicRecovered" \in Told(t) <=> predicate[t] = "panic"
                      ELSE /\ "TaskSkipped" \notin Told(t) /\ "TaskDone" \in Told(t)
                           /\ Told(t) \intersect Verdict # {}
    BY DEF AccountedFor
  <2>1. /\ step[t] = "left" /\ ~Failed(t)
        /\ ended[t] = "no" => t \in guarded /\ predicate[t] \in {"false", "panic"}
    BY Succeeded DEF Copied
  <2>2. ran[t] \/ "TaskSkipped" \in Told(t)
    BY DEF TaskInv, Scanned, TasksListed, Entries
  <2>3. Told(t) \ {"TaskSkipped"} = ReturnEvent(t) \union PanicEvent(t) \union DoneEvent(t)
    BY <2>1 DEF TaskInv, Reported
  <2>4. CASE ended[t] = "no"
    <3>1. ~ran[t] /\ ReturnEvent(t) = {}
      BY <2>4 DEF TaskInv, Progress, ReturnEvent
    <3>2. PanicEvent(t) = IF predicate[t] = "panic" THEN {"TaskPanicRecovered"} ELSE {}
      BY <2>1, <2>4 DEF PanicEvent, Recovers, Failed
    <3> QED
      BY <2>1, <2>2, <2>3, <2>4, <3>1, <3>2 DEF DoneEvent
  <2>5. CASE ended[t] # "no"
    <3>1. ran[t] /\ ended[t] \in {"ok", "error", "panic"}
      BY <2>1, <2>5 DEF TaskInv, Progress, ClosureType, Failed
    <3>2. PICK v \in Verdict : v \in ReturnEvent(t) \union PanicEvent(t)
      BY <3>1 DEF ReturnEvent, PanicEvent, Recovers, Verdict
    <3>3. "TaskSkipped" \notin Told(t)
      BY <2>5 DEF TaskInv, Scanned
    <3> QED
      BY <2>3, <2>5, <3>1, <3>2, <3>3 DEF DoneEvent
  <2> QED
    BY <2>4, <2>5
<1> QED
  BY FlowInvariance, <1>1, PTL

=============================================================================
