------------------------ MODULE ParallelRuntimeProofs ------------------------
(***************************************************************************)
(* The code generated for a cff.Parallel runs an end function after all the *)
(* elements of its collection, returns the right error and tells the        *)
(* emitters what happened, for every set of tasks and of collections of any *)
(* size. The scheduler it runs on is any that keeps the promises of         *)
(* JobGraph.                                                                *)
(***************************************************************************)
EXTENDS ParallelRuntime, EventLists

-----------------------------------------------------------------------------
(* The inductive invariant                                                 *)

(* The types of the variables.                                              *)
ShapeType ==
    /\ size \in [Collection -> 0..MaxSize] /\ withEnd \subseteq Collection
    /\ continueOnError \in BOOLEAN
    /\ continueOnError => withEnd = {}

GraphType ==
    /\ status \in [Job -> Graph!Status]
    /\ prereqs \in [Job -> SUBSET Job]
    /\ waitState \in {"open", "waiting", "returned"}
    /\ answer \in {"none", "nil", "err", "ctx"}
    /\ cancelled \in BOOLEAN

MainType ==
    /\ main \in {"enqueueing", "waiting", "returning", "finished"}
    /\ unvisited \subseteq Task
    /\ told \subseteq {"ParallelSuccess", "ParallelError", "ParallelDone"}

ClosureType ==
    /\ ran \in [Task -> BOOLEAN]
    /\ step \in [Job -> {"idle", "calling", "called", "leaving", "left"}]
    /\ ended \in [Job -> {"no", "ok", "error", "panic", "exit"}]
    /\ events \in [Task -> Seq(TaskEvent)]

AllTyped == ShapeType /\ GraphType /\ MainType /\ ClosureType

(* Where the function is, told by the scheduler's side of Wait; only jobs   *)
(* of this call are submitted, and all of them before it waits.             *)
WaitMatches ==
    /\ main = "enqueueing" <=> waitState = "open"
    /\ main = "waiting" <=> waitState = "waiting"
    /\ waitState = "returned" <=> answer # "none"
    /\ \A j \in Job : status[j] # "unknown" => j \in Planned
    /\ main # "enqueueing" => \A j \in Planned : status[j] # "unknown"

(* An end function needs the elements of its collection, nothing else needs *)
(* anything. A job that has started found what it needs succeeded, and one  *)
(* that was skipped has a reason that is still there.                       *)
Ordered ==
    /\ \A c \in Collection :
          status[EndJob(c)] # "unknown" => prereqs[EndJob(c)] = Elements(c)
    /\ \A j \in Job : (\A c \in Collection : j # EndJob(c)) => prereqs[j] = {}
    /\ \A j \in Job : status[j] \in {"running", "succeeded", "failed"} =>
          \A p \in prereqs[j] : status[p] = "succeeded"
    /\ \A j \in Job : status[j] = "skipped" =>
          cancelled \/ \E p \in prereqs[j] : status[p] \in {"failed", "skipped"}

(* What Wait said stays true.                                               *)
Answered ==
    /\ answer = "nil" => \A j \in Planned : status[j] = "succeeded"
    /\ answer = "err" =>
          /\ \E j \in Planned : status[j] \in {"failed", "skipped"}
          /\ continueOnError =>
                \A j \in Planned : status[j] \in {"succeeded", "failed", "skipped"}
    /\ answer = "ctx" => cancelled

(* The closure's step, told by the status of its job.                       *)
Progress(j) ==
    /\ step[j] = "idle" <=> status[j] \in {"unknown", "submitted", "skipped"}
    /\ step[j] \in {"calling", "called", "leaving"} <=> status[j] = "running"
    /\ step[j] = "left" =>
          status[j] = IF Failed(j) THEN "failed" ELSE "succeeded"
    /\ step[j] \in {"idle", "calling"} <=> ended[j] = "no"

(* What the closure of a task has told its emitter.                         *)
ReturnEvent(t) ==
    CASE ended[TaskJob(t)] = "ok"    -> {"TaskSuccess"}
      [] ended[TaskJob(t)] = "error" -> {"TaskError"}
      [] OTHER                       -> {}
PanicEvent(t) == IF ended[TaskJob(t)] = "panic" THEN {"TaskPanic"} ELSE {}

Reported(t) ==
    /\ ran[t] <=> step[TaskJob(t)] \in {"leaving", "left"}
    /\ Reports(t) \ {"TaskSkipped"} =
          ReturnEvent(t) \union
             (IF step[TaskJob(t)] = "left" THEN PanicEvent(t) \union {"TaskDone"} ELSE {})
    /\ Distinct(events[t])
    /\ DoneLast(events[t])

(* And what the scan has: a task is reported skipped only by a call that    *)
(* returned before the task had ended.                                      *)
Scanned(t) ==
    "TaskSkipped" \in Reports(t) =>
        /\ main \in {"returning", "finished"} /\ t \notin unvisited
        /\ answer # "nil"
        /\ continueOnError => cancelled

ParallelInv ==
    /\ AllTyped
    /\ WaitMatches /\ Ordered /\ Answered
    /\ \A j \in Job : Progress(j)
    /\ \A t \in Task : Reported(t) /\ Scanned(t)

-----------------------------------------------------------------------------
(* Jobs and lengths                                                        *)

(* A job belongs to a task, to an element or to the end of a collection.    *)
LEMMA JobsApart ==
  /\ \A t \in Task : TaskJob(t) \in Job
  /\ \A c \in Collection : EndJob(c) \in Job
  /\ \A s, t : TaskJob(s) = TaskJob(t) => s = t
  /\ \A c, d : EndJob(c) = EndJob(d) => c = d
  /\ \A t, c : TaskJob(t) # EndJob(c)
  /\ \A t, c, i : TaskJob(t) # ElementJob(c, i)
  /\ \A c, d, i : EndJob(c) # ElementJob(d, i)
BY DEF TaskJob, EndJob, ElementJob, Job

(* The jobs of a call are jobs, and its tasks and elements among them.      *)
LEMMA PlannedJobs ==
  ASSUME ShapeType
  PROVE  /\ Planned \subseteq Job
         /\ \A t \in Task : TaskJob(t) \in Planned
         /\ \A c \in Collection : Elements(c) \subseteq Planned
         /\ \A c \in withEnd : EndJob(c) \in Planned
         /\ \A c \in Collection : EndJob(c) \in Planned => c \in withEnd
<1>1. \A c \in Collection : size[c] \in 0..MaxSize
  BY DEF ShapeType
<1>2. \A c \in Collection : \A i \in 1..size[c] : i \in 1..MaxSize
  BY <1>1, ParallelAssumption
<1>3. \A c \in Collection : Elements(c) \subseteq Job
  BY <1>2 DEF Elements, Job
<1>4. \A c \in Collection : JobsOf(c) \subseteq Job
  BY <1>3, JobsApart DEF JobsOf
<1>5. \A c \in Collection : JobsOf(c) \subseteq Planned
  BY DEF Planned
<1>6. \A c \in Collection : EndJob(c) \in Planned => c \in withEnd
  BY JobsApart DEF Planned, JobsOf, Elements
<1> QED
  BY <1>4, <1>5, <1>6, JobsApart DEF Planned, JobsOf, ShapeType

(* An end is reported by one verdict.                                       *)
LEMMA OneEnding ==
  \A t \in Task : \E v \in Verdict : ReturnEvent(t) \union PanicEvent(t) \subseteq {v}
BY DEF ReturnEvent, PanicEvent, Verdict

(* Nothing is told twice, so what an emitter is told is short.              *)
LEMMA InvariantTyped ==
  ASSUME ParallelInv
  PROVE  TypeOK
<1> USE DEF ParallelInv, AllTyped
<1>1. ASSUME NEW t \in Task
      PROVE  Len(events[t]) <= 3
  <2>1. /\ events[t] \in Seq(TaskEvent) /\ Distinct(events[t])
        /\ Reports(t) = Entries(events[t])
    BY DEF ClosureType, Reported, Reports, Entries
  <2>2. PICK v \in Verdict : ReturnEvent(t) \union PanicEvent(t) \subseteq {v}
    BY OneEnding
  <2>3. Entries(events[t]) \subseteq {v, "TaskDone", "TaskSkipped"}
    BY <2>1, <2>2 DEF Reported
  <2>4. /\ IsFiniteSet({v, "TaskDone", "TaskSkipped"})
        /\ Cardinality({v, "TaskDone", "TaskSkipped"}) <= 3
    BY AtMostThree
  <2>5. Len(events[t]) <= Cardinality({v, "TaskDone", "TaskSkipped"})
    BY <2>1, <2>3, <2>4, DistinctLength
  <2>6. Len(events[t]) \in Nat /\ Cardinality({v, "TaskDone", "TaskSkipped"}) \in Nat
    BY <2>1, <2>4, LenProperties, FS_CardinalityType
  <2> QED
    BY <2>4, <2>5, <2>6
<1> QED
  BY <1>1 DEF ShapeType, MainType, ClosureType, TypeOK

-----------------------------------------------------------------------------
(* What a step leaves alone                                                *)

(* The jobs of a call are known when it begins.                             *)
LEMMA ShapeKept ==
  ASSUME UNCHANGED shapeVars
  PROVE  /\ Planned' = Planned /\ \A c : Elements(c)' = Elements(c)
         /\ ShapeType => ShapeType'
<1>1. \A c : Elements(c)' = Elements(c)
  BY DEF Elements, shapeVars
<1>2. \A c : JobsOf(c)' = JobsOf(c)
  BY <1>1 DEF JobsOf, shapeVars
<1> QED
  BY <1>1, <1>2 DEF Planned, ShapeType, shapeVars

(* A job keeps its invariant while it and its closure do not move.          *)
LEMMA JobStill ==
  ASSUME NEW j \in Job, Progress(j), UNCHANGED <<step[j], ended[j], status[j]>>
  PROVE  Progress(j)'
BY DEF Progress, Failed

(* So does what a task has reported.                                        *)
LEMMA TaskStill ==
  ASSUME NEW t \in Task, Reported(t),
         UNCHANGED <<ran[t], events[t], step[TaskJob(t)], ended[TaskJob(t)]>>
  PROVE  Reported(t)' /\ Reports(t)' = Reports(t)
<1>1. UNCHANGED <<Reports(t), ReturnEvent(t), PanicEvent(t)>>
  BY DEF Reports, ReturnEvent, PanicEvent
<1> QED
  BY <1>1 DEF Reported

(* The order of the jobs and the answer of Wait bear a job moving on as the *)
(* scheduler promises.                                                      *)
LEMMA JobMoves ==
  ASSUME ParallelInv, NEW j \in Job, NEW s \in {"running", "succeeded", "failed", "skipped"},
         status' = [status EXCEPT ![j] = s],
         \/ /\ status[j] = "submitted" /\ s = "running"
            /\ \A p \in prereqs[j] : status[p] = "succeeded"
         \/ /\ status[j] = "submitted" /\ s = "skipped"
            /\ cancelled \/ \E p \in prereqs[j] : status[p] \in {"failed", "skipped"}
         \/ status[j] = "running" /\ s \in {"succeeded", "failed"},
         UNCHANGED <<shapeVars, mainVars, prereqs, waitState, answer, cancelled>>
  PROVE  /\ ShapeType' /\ GraphType' /\ MainType'
         /\ WaitMatches' /\ Ordered' /\ Answered'
         /\ status'[j] = s /\ \A i \in Job : i # j => status'[i] = status[i]
<1> USE DEF ParallelInv, AllTyped
<1>1. /\ status'[j] = s /\ status[j] \in {"submitted", "running"}
      /\ \A i \in Job : i # j => status'[i] = status[i]
  BY DEF GraphType
<1>2. \A i \in Job : /\ status'[i] = "unknown" <=> status[i] = "unknown"
                     /\ status[i] \in {"succeeded", "failed", "skipped"} => status'[i] = status[i]
  BY <1>1
<1>3. ShapeType' /\ MainType'
  BY ShapeKept DEF MainType, mainVars
<1>4. GraphType'
  <2>1. s \in Graph!Status
    BY DEF Graph!Status
  <2> QED
    BY <2>1 DEF GraphType
<1>5. /\ Planned' = Planned /\ Planned \subseteq Job
      /\ \A c : Elements(c)' = Elements(c)
  BY ShapeKept, PlannedJobs
<1>6. WaitMatches'
  BY <1>2, <1>5 DEF WaitMatches, mainVars
<1>7. \A i \in Job : prereqs[i] \subseteq Job
  BY DEF GraphType
<1>8. Ordered'
  <2>1. \A c \in Collection :
           status'[EndJob(c)] # "unknown" => prereqs'[EndJob(c)] = Elements(c)'
    BY <1>2, <1>5, JobsApart DEF Ordered
  <2>2. \A i \in Job : (\A c \in Collection : i # EndJob(c)) => prereqs'[i] = {}
    BY DEF Ordered
  <2>3. ASSUME NEW i \in Job, status'[i] \in {"running", "succeeded", "failed"},
               NEW p \in prereqs'[i]
        PROVE  status'[p] = "succeeded"
    <3>1. p \in prereqs[i] /\ p \in Job
      BY <1>7
    <3>2. status[p] = "succeeded"
      BY <1>1, <2>3, <3>1 DEF Ordered
    <3> QED
      BY <1>2, <3>1, <3>2
  <2>4. ASSUME NEW i \in Job, status'[i] = "skipped"
        PROVE  cancelled' \/ \E p \in prereqs'[i] : status'[p] \in {"failed", "skipped"}
    <3>1. cancelled \/ \E p \in prereqs[i] : status[p] \in {"failed", "skipped"}
      BY <1>1, <2>4 DEF Ordered
    <3> QED
      BY <1>2, <1>7, <3>1
  <2> QED
    BY <2>1, <2>2, <2>3, <2>4 DEF Ordered
<1>9. Answered'
  <2>1. \A i \in Planned : i \in Job
    BY <1>5
  <2>2. answer' = answer /\ cancelled' = cancelled /\ continueOnError' = continueOnError
    BY DEF shapeVars
  <2>3. answer = "nil" => \A i \in Planned : status'[i] = "succeeded"
    BY <1>2, <2>1 DEF Answered
  <2>4. answer = "err" => \E i \in Planned : status'[i] \in {"failed", "skipped"}
    BY <1>2, <2>1 DEF Answered
  <2>5. answer = "err" /\ continueOnError =>
           \A i \in Planned : status'[i] \in {"succeeded", "failed", "skipped"}
    BY <1>2, <2>1 DEF Answered
  <2>6. answer = "ctx" => cancelled
    BY DEF Answered
  <2> QED
    BY <1>5, <2>2, <2>3, <2>4, <2>5, <2>6 DEF Answered
<1> QED
  BY <1>1, <1>3, <1>4, <1>6, <1>8, <1>9

(* They do not notice what a closure does.                                  *)
LEMMA ClosureWrites ==
  ASSUME ParallelInv, UNCHANGED <<shapeVars, graphVars, mainVars>>
  PROVE  /\ ShapeType' /\ GraphType' /\ MainType'
         /\ WaitMatches' /\ Ordered' /\ Answered'
<1> USE DEF ParallelInv, AllTyped
<1>1. ShapeType' /\ Planned' = Planned /\ \A c : Elements(c)' = Elements(c)
  BY ShapeKept
<1>2. GraphType' /\ MainType'
  BY DEF GraphType, MainType, graphVars, mainVars
<1>3. WaitMatches' /\ Answered'
  BY <1>1 DEF WaitMatches, Answered, shapeVars, graphVars, mainVars
<1>4. Ordered'
  BY <1>1 DEF Ordered, graphVars
<1> QED
  BY <1>1, <1>2, <1>3, <1>4

(* Nor do the closures notice what the function does.                       *)
LEMMA ClosuresStill ==
  ASSUME ParallelInv, UNCHANGED <<jobVars, status>>
  PROVE  /\ ClosureType' /\ \A j \in Job : Progress(j)'
         /\ \A t \in Task : Reported(t)' /\ Reports(t)' = Reports(t)
<1> USE DEF ParallelInv, AllTyped
<1>1. ClosureType'
  BY DEF ClosureType, jobVars
<1>2. \A j \in Job : Progress(j)'
  BY JobStill DEF jobVars
<1>3. \A t \in Task : Reported(t)' /\ Reports(t)' = Reports(t)
  BY TaskStill DEF jobVars
<1> QED
  BY <1>1, <1>2, <1>3

-----------------------------------------------------------------------------
(* The function                                                            *)

LEMMA InitInv == Init => ParallelInv
<1> SUFFICES ASSUME Init
             PROVE  ParallelInv
  OBVIOUS
<1> USE DEF Init
<1>1. /\ \A j \in Job : status[j] = "unknown" /\ prereqs[j] = {}
      /\ waitState = "open" /\ answer = "none" /\ cancelled = FALSE
      /\ GraphType
  BY DEF Graph!GraphInit, Graph!Status, GraphType
<1>2. ShapeType /\ MainType /\ ClosureType
  BY DEF ShapeType, MainType, ClosureType
<1>3. WaitMatches /\ Answered
  BY <1>1 DEF WaitMatches, Answered
<1>4. Ordered
  BY <1>1, JobsApart DEF Ordered
<1>5. \A j \in Job : Progress(j)
  BY <1>1 DEF Progress
<1>6. ASSUME NEW t \in Task
      PROVE  Reported(t) /\ Scanned(t)
  <2>1. events[t] = <<>> /\ Reports(t) = {} /\ Distinct(events[t]) /\ DoneLast(events[t])
    BY DEF Reports, Distinct, DoneLast
  <2>2. step[TaskJob(t)] = "idle" /\ ended[TaskJob(t)] = "no" /\ ~ran[t]
    BY JobsApart
  <2> QED
    BY <2>1, <2>2 DEF Reported, Scanned, ReturnEvent
<1> QED
  BY <1>1, <1>2, <1>3, <1>4, <1>5, <1>6 DEF ParallelInv, AllTyped

(* Submitting a job of the call.                                            *)
LEMMA SubmitInv ==
  ASSUME ParallelInv, NEW j \in Planned, NEW ps, Graph!Submit(j, ps),
         UNCHANGED <<shapeVars, mainVars, jobVars>>,
         \A c \in Collection : j = EndJob(c) => ps = Elements(c),
         (\A c \in Collection : j # EndJob(c)) => ps = {}
  PROVE  ParallelInv'
<1> USE DEF ParallelInv, AllTyped
<1>1. j \in Job /\ Planned \subseteq Job /\ Planned' = Planned
  BY PlannedJobs, ShapeKept
<1>2. /\ waitState = "open" /\ status[j] = "unknown" /\ ps \subseteq Job
      /\ status' = [status EXCEPT ![j] = "submitted"]
      /\ prereqs' = [prereqs EXCEPT ![j] = ps]
      /\ UNCHANGED <<waitState, answer, cancelled>>
  BY <1>1 DEF Graph!Submit, Graph!Submitted
<1>3. /\ status'[j] = "submitted" /\ prereqs'[j] = ps
      /\ \A i \in Job : i # j => status'[i] = status[i] /\ prereqs'[i] = prereqs[i]
  BY <1>1, <1>2 DEF GraphType
<1>4. ShapeType' /\ MainType' /\ ClosureType'
  BY ShapeKept DEF MainType, ClosureType, mainVars, jobVars
<1>5. GraphType'
  BY <1>2 DEF GraphType, Graph!Status
<1>6. main = "enqueueing" /\ answer = "none"
  BY <1>2 DEF WaitMatches, GraphType
<1>7. WaitMatches'
  BY <1>1, <1>2, <1>3, <1>6 DEF WaitMatches, mainVars
<1>8. Answered'
  BY <1>2, <1>6 DEF Answered
<1>9. \A i \in Job : prereqs[i] \subseteq Job
  BY DEF GraphType
<1>10. Ordered'
  <2>1. \A c \in Collection :
           status'[EndJob(c)] # "unknown" => prereqs'[EndJob(c)] = Elements(c)'
    BY <1>3, ShapeKept, JobsApart DEF Ordered
  <2>2. \A i \in Job : (\A c \in Collection : i # EndJob(c)) => prereqs'[i] = {}
    BY <1>3 DEF Ordered
  <2>3. ASSUME NEW i \in Job, status'[i] \in {"running", "succeeded", "failed"},
               NEW p \in prereqs'[i]
        PROVE  status'[p] = "succeeded"
    <3>1. i # j
      BY <1>3, <2>3
    <3>2. p \in Job /\ status[p] = "succeeded"
      BY <1>3, <1>9, <2>3, <3>1 DEF Ordered
    <3> QED
      BY <1>2, <1>3, <3>2
  <2>4. ASSUME NEW i \in Job, status'[i] = "skipped"
        PROVE  cancelled' \/ \E p \in prereqs'[i] : status'[p] \in {"failed", "skipped"}
    <3>1. i # j /\ status[i] = "skipped"
      BY <1>3, <2>4
    <3>2. cancelled \/ \E p \in prereqs[i] : status[p] \in {"failed", "skipped"}
      BY <3>1 DEF Ordered
    <3> QED
      BY <1>2, <1>3, <1>9, <3>1, <3>2
  <2> QED
    BY <2>1, <2>2, <2>3, <2>4 DEF Ordered
<1>11. ASSUME NEW i \in Job
       PROVE  Progress(i)'
  <2>1. UNCHANGED <<step[i], ended[i], Failed(i)>>
    BY DEF jobVars, Failed
  <2> QED
    BY <1>2, <1>3, <2>1 DEF Progress
<1>12. ASSUME NEW t \in Task
       PROVE  Reported(t)' /\ Scanned(t)'
  <2>1. Reported(t)' /\ Reports(t)' = Reports(t)
    BY TaskStill DEF jobVars
  <2> QED
    BY <1>2, <2>1 DEF Scanned, shapeVars, mainVars
<1> QED
  BY <1>4, <1>5, <1>7, <1>8, <1>10, <1>11, <1>12

LEMMA EnqueueInv ==
  ASSUME ParallelInv,
         \/ \E t \in Task : EnqueueTask(t)
         \/ \E c \in Collection : \/ \E i \in 1..MaxSize : EnqueueElement(c, i)
                                  \/ EnqueueEnd(c)
  PROVE  ParallelInv'
<1>1. ShapeType
  BY DEF ParallelInv, AllTyped
<1>2. ASSUME NEW t \in Task, EnqueueTask(t)
      PROVE  ParallelInv'
  <2>1. TaskJob(t) \in Planned /\ \A c \in Collection : TaskJob(t) # EndJob(c)
    BY <1>1, PlannedJobs, JobsApart
  <2> QED
    BY <1>2, <2>1, SubmitInv DEF EnqueueTask
<1>3. ASSUME NEW c \in Collection, NEW i \in 1..MaxSize, EnqueueElement(c, i)
      PROVE  ParallelInv'
  <2>1. ElementJob(c, i) \in Elements(c)
    BY <1>3 DEF EnqueueElement, Elements
  <2>2. ElementJob(c, i) \in Planned /\ \A d \in Collection : ElementJob(c, i) # EndJob(d)
    BY <1>1, <2>1, PlannedJobs, JobsApart
  <2> QED
    BY <1>3, <2>2, SubmitInv DEF EnqueueElement
<1>4. ASSUME NEW c \in Collection, EnqueueEnd(c)
      PROVE  ParallelInv'
  <2>1. /\ EndJob(c) \in Planned
        /\ \A d \in Collection : EndJob(c) = EndJob(d) => Elements(c) = Elements(d)
    BY <1>1, <1>4, PlannedJobs, JobsApart DEF EnqueueEnd
  <2>2. Graph!Submit(EndJob(c), Elements(c)) /\ UNCHANGED <<shapeVars, mainVars, jobVars>>
    BY <1>4 DEF EnqueueEnd, KeptJobs
  <2> QED
    BY <2>1, <2>2, SubmitInv
<1> QED
  BY <1>2, <1>3, <1>4

LEMMA AwaitInv ==
  ASSUME ParallelInv, Await
  PROVE  ParallelInv'
<1> USE DEF ParallelInv, AllTyped
<1>1. /\ main = "enqueueing" /\ main' = "waiting"
      /\ waitState = "open" /\ waitState' = "waiting"
      /\ UNCHANGED <<status, prereqs, answer, cancelled>>
      /\ UNCHANGED <<shapeVars, unvisited, told, jobVars>>
      /\ \A j \in Planned : status[j] # "unknown"
  BY DEF Await, Graph!AwaitJobs, Graph!Submitted
<1>2. ShapeType' /\ Planned' = Planned /\ \A c : Elements(c)' = Elements(c)
  BY <1>1, ShapeKept
<1>3. GraphType' /\ MainType'
  BY <1>1 DEF GraphType, MainType
<1>4. WaitMatches' /\ Answered' /\ Ordered'
  BY <1>1, <1>2 DEF WaitMatches, Answered, Ordered, shapeVars
<1>5. \A t \in Task : Scanned(t)'
  BY <1>1, ClosuresStill DEF Scanned
<1> QED
  BY <1>1, <1>2, <1>3, <1>4, <1>5, ClosuresStill

(* sched.Wait returns.                                                      *)
LEMMA ConcludeInv ==
  ASSUME ParallelInv, NEW r \in {"nil", "err", "ctx"}, Conclude(r)
  PROVE  ParallelInv'
<1> USE DEF ParallelInv, AllTyped
<1>1. /\ main = "waiting" /\ main' = "returning" /\ Graph!Answer(r)
      /\ told' = told \union {IF r = "nil" THEN "ParallelSuccess" ELSE "ParallelError"}
      /\ UNCHANGED <<shapeVars, unvisited, jobVars>>
  BY DEF Conclude
<1>2. /\ waitState = "waiting" /\ waitState' = "returned" /\ answer' = r
      /\ UNCHANGED <<status, prereqs, cancelled>>
  BY <1>1 DEF Graph!Answer
<1>3. /\ ShapeType' /\ Planned' = Planned /\ Planned \subseteq Job
      /\ \A c : Elements(c)' = Elements(c)
  BY <1>1, ShapeKept, PlannedJobs
<1>4. GraphType' /\ MainType'
  BY <1>1, <1>2 DEF GraphType, MainType
<1>5. WaitMatches' /\ Ordered'
  BY <1>1, <1>2, <1>3 DEF WaitMatches, Ordered
<1>6. Graph!Submitted = Planned
  BY <1>1, <1>3 DEF Graph!Submitted, WaitMatches
<1>7. Answered'
  BY <1>1, <1>2, <1>3, <1>6 DEF Graph!Answer, Graph!Settled, KeepGoing, Answered, shapeVars
<1>8. \A t \in Task : Scanned(t)'
  BY <1>1, <1>2, ClosuresStill DEF Scanned
<1> QED
  BY <1>1, <1>2, <1>3, <1>4, <1>5, <1>7, <1>8, ClosuresStill

LEMMA ReturnInv ==
  ASSUME ParallelInv, Return
  PROVE  ParallelInv'
<1> USE DEF ParallelInv, AllTyped
<1>1. /\ main = "returning" /\ main' = "finished"
      /\ told' = told \union {"ParallelDone"}
      /\ UNCHANGED <<shapeVars, graphVars, unvisited, jobVars>>
  BY DEF Return
<1>2. ShapeType' /\ Planned' = Planned /\ \A c : Elements(c)' = Elements(c)
  BY <1>1, ShapeKept
<1>3. GraphType' /\ MainType'
  BY <1>1 DEF GraphType, MainType, graphVars
<1>4. WaitMatches' /\ Answered' /\ Ordered'
  BY <1>1, <1>2 DEF WaitMatches, Answered, Ordered, shapeVars, graphVars
<1>5. UNCHANGED <<jobVars, status>>
  BY <1>1 DEF graphVars
<1>6. \A t \in Task : Scanned(t)'
  BY <1>1, <1>5, ClosuresStill DEF Scanned, shapeVars, graphVars
<1> QED
  BY <1>2, <1>3, <1>4, <1>5, <1>6, ClosuresStill

LEMMA CancelInv ==
  ASSUME ParallelInv, CancelParallel
  PROVE  ParallelInv'
<1> USE DEF ParallelInv, AllTyped
<1>1. /\ cancelled' = TRUE /\ UNCHANGED <<status, prereqs, waitState, answer>>
      /\ UNCHANGED <<shapeVars, mainVars, jobVars>>
  BY DEF CancelParallel, Graph!Cancel
<1>2. ShapeType' /\ Planned' = Planned /\ \A c : Elements(c)' = Elements(c)
  BY <1>1, ShapeKept
<1>3. GraphType' /\ MainType'
  BY <1>1 DEF GraphType, MainType, mainVars
<1>4. WaitMatches' /\ Answered' /\ Ordered'
  BY <1>1, <1>2 DEF WaitMatches, Answered, Ordered, shapeVars, mainVars
<1>5. \A t \in Task : Scanned(t)'
  BY <1>1, ClosuresStill DEF Scanned, shapeVars, mainVars
<1> QED
  BY <1>1, <1>2, <1>3, <1>4, <1>5, ClosuresStill

(* A task the scan finds not to have run belongs to a call that did not     *)
(* return nil, and with ContinueOnError to a cancelled one.                 *)
LEMMA NotRun ==
  ASSUME ParallelInv, NEW t \in Task, main \in {"returning", "finished"}, ~ran[t]
  PROVE  answer # "nil" /\ (continueOnError => cancelled)
<1> USE DEF ParallelInv, AllTyped
<1>1. TaskJob(t) \in Planned /\ TaskJob(t) \in Job
  BY PlannedJobs, JobsApart
<1>2. status[TaskJob(t)] \notin {"succeeded", "failed"}
  BY <1>1 DEF Reported, Progress, ClosureType
<1>3. prereqs[TaskJob(t)] = {}
  BY <1>1, JobsApart DEF Ordered
<1>4. status[TaskJob(t)] = "skipped" => cancelled
  BY <1>1, <1>3 DEF Ordered
<1>5. answer \in {"nil", "err", "ctx"}
  BY DEF WaitMatches, GraphType
<1> QED
  BY <1>1, <1>2, <1>4, <1>5 DEF Answered

LEMMA ReportSkippedInv ==
  ASSUME ParallelInv, NEW t \in Task, ReportSkipped(t)
  PROVE  ParallelInv'
<1> USE DEF ParallelInv, AllTyped
<1>1. /\ main = "returning" /\ t \in unvisited /\ unvisited' = unvisited \ {t}
      /\ events' = IF ran[t] THEN events
                   ELSE [events EXCEPT ![t] = Append(@, "TaskSkipped")]
      /\ UNCHANGED <<shapeVars, graphVars, main, told, ran, step, ended>>
  BY DEF ReportSkipped
<1>2. "TaskSkipped" \in TaskEvent /\ events[t] \in Seq(TaskEvent)
  BY DEF TaskEvent, ClosureType
<1>3. ShapeType' /\ Planned' = Planned /\ \A c : Elements(c)' = Elements(c)
  BY <1>1, ShapeKept
<1>4. GraphType' /\ MainType' /\ ClosureType'
  <2>1. events' \in [Task -> Seq(TaskEvent)]
    BY <1>1, <1>2, AppendProperties DEF ClosureType
  <2> QED
    BY <1>1, <2>1 DEF GraphType, MainType, ClosureType, graphVars
<1>5. WaitMatches' /\ Answered' /\ Ordered'
  BY <1>1, <1>3 DEF WaitMatches, Answered, Ordered, shapeVars, graphVars
<1>6. \A j \in Job : Progress(j)'
  BY <1>1, JobStill DEF graphVars
<1>7. ASSUME NEW u \in Task, u # t \/ ran[t]
      PROVE  Reported(u)' /\ Scanned(u)'
  <2>1. UNCHANGED <<ran[u], events[u], step[TaskJob(u)], ended[TaskJob(u)]>>
    BY <1>1, <1>7 DEF ClosureType
  <2>2. Reported(u)' /\ Reports(u)' = Reports(u)
    BY <2>1, TaskStill
  <2> QED
    BY <1>1, <2>2 DEF Scanned, shapeVars, graphVars
<1>8. ASSUME ~ran[t]
      PROVE  Reported(t)' /\ Scanned(t)'
  <2>1. events'[t] = Append(events[t], "TaskSkipped")
    BY <1>1, <1>8 DEF ClosureType
  <2>2. Reports(t) = Entries(events[t]) /\ Distinct(events[t]) /\ "TaskSkipped" \notin Reports(t)
    BY <1>1 DEF Reported, Scanned, Reports, Entries
  <2>3. step[TaskJob(t)] # "left" /\ "TaskDone" \notin Reports(t)
    <3>1. step[TaskJob(t)] # "left"
      BY <1>8 DEF Reported
    <3>2. "TaskDone" \notin ReturnEvent(t)
      BY DEF ReturnEvent
    <3> QED
      BY <3>1, <3>2 DEF Reported
  <2>4. /\ Reports(t)' = Reports(t) \union {"TaskSkipped"}
        /\ Distinct(events[t])' /\ DoneLast(events[t])'
    BY <1>2, <2>1, <2>2, <2>3, AppendEntry DEF Reports, Entries
  <2>5. UNCHANGED <<ReturnEvent(t), PanicEvent(t)>>
    BY <1>1 DEF ReturnEvent, PanicEvent
  <2>6. Reported(t)'
    BY <1>1, <2>4, <2>5 DEF Reported
  <2>7. Scanned(t)'
    BY <1>1, <1>8, NotRun DEF Scanned, shapeVars, graphVars
  <2> QED
    BY <2>6, <2>7
<1> QED
  BY <1>3, <1>4, <1>5, <1>6, <1>7, <1>8

-----------------------------------------------------------------------------
(* The jobs                                                                *)

(* What the scan has reported does not depend on the closures.              *)
LEMMA ScannedKept ==
  ASSUME NEW t \in Task, Scanned(t), UNCHANGED <<shapeVars, mainVars, answer, cancelled>>,
         "TaskSkipped" \in Reports(t)' => "TaskSkipped" \in Reports(t)
  PROVE  Scanned(t)'
BY DEF Scanned, shapeVars, mainVars

LEMMA StartJobInv ==
  ASSUME ParallelInv, NEW j \in Planned, StartJob(j)
  PROVE  ParallelInv'
<1> USE DEF ParallelInv, AllTyped
<1>1. j \in Job
  BY PlannedJobs
<1>2. /\ Graph!Start(j)
      /\ step' = [step EXCEPT ![j] = "calling"]
      /\ UNCHANGED <<shapeVars, mainVars, ran, ended, events>>
  BY DEF StartJob
<1>3. /\ status[j] = "submitted" /\ status' = [status EXCEPT ![j] = "running"]
      /\ \A p \in prereqs[j] : status[p] = "succeeded"
      /\ UNCHANGED <<prereqs, waitState, answer, cancelled>>
  BY <1>2 DEF Graph!Start
<1>4. /\ ShapeType' /\ GraphType' /\ MainType'
      /\ WaitMatches' /\ Ordered' /\ Answered'
      /\ status'[j] = "running" /\ \A i \in Job : i # j => status'[i] = status[i]
  BY <1>1, <1>2, <1>3, JobMoves
<1>5. /\ step' \in [Job -> {"idle", "calling", "called", "leaving", "left"}]
      /\ step'[j] = "calling" /\ \A i \in Job : i # j => step'[i] = step[i]
  BY <1>1, <1>2 DEF ClosureType
<1>6. ClosureType'
  BY <1>2, <1>5 DEF ClosureType
<1>7. step[j] = "idle" /\ ended[j] = "no"
  BY <1>1, <1>3 DEF Progress
<1>8. ASSUME NEW i \in Job
      PROVE  Progress(i)'
  <2>1. CASE i = j
    BY <1>2, <1>4, <1>5, <1>7, <2>1 DEF Progress
  <2>2. CASE i # j
    BY <1>2, <1>4, <1>5, <2>2, JobStill
  <2> QED
    BY <2>1, <2>2
<1>9. ASSUME NEW t \in Task
      PROVE  Reported(t)' /\ Scanned(t)'
  <2>1. UNCHANGED <<ran[t], events[t], Reports(t), ReturnEvent(t), PanicEvent(t)>>
    BY <1>2 DEF Reports, ReturnEvent, PanicEvent
  <2>2. TaskJob(t) \in Job
    BY JobsApart
  <2>3. /\ step'[TaskJob(t)] = "left" <=> step[TaskJob(t)] = "left"
        /\ step'[TaskJob(t)] = "leaving" <=> step[TaskJob(t)] = "leaving"
    BY <1>5, <1>7, <2>2
  <2>4. Reported(t)'
    BY <2>1, <2>3 DEF Reported
  <2> QED
    BY <1>2, <1>3, <2>1, <2>4, ScannedKept
<1> QED
  BY <1>4, <1>6, <1>8, <1>9

LEMMA SkipJobInv ==
  ASSUME ParallelInv, SkipJob
  PROVE  ParallelInv'
<1> USE DEF ParallelInv, AllTyped
<1>1. PICK j \in Planned : Graph!Skip(j)
  BY DEF SkipJob
<1>2. j \in Job /\ UNCHANGED <<shapeVars, mainVars, jobVars>>
  BY PlannedJobs DEF SkipJob
<1>3. /\ status[j] = "submitted" /\ status' = [status EXCEPT ![j] = "skipped"]
      /\ cancelled \/ \E p \in prereqs[j] : status[p] \in {"failed", "skipped"}
      /\ UNCHANGED <<prereqs, waitState, answer, cancelled>>
  BY <1>1 DEF Graph!Skip, Graph!Settled
<1>4. /\ ShapeType' /\ GraphType' /\ MainType'
      /\ WaitMatches' /\ Ordered' /\ Answered'
      /\ status'[j] = "skipped" /\ \A i \in Job : i # j => status'[i] = status[i]
  BY <1>2, <1>3, JobMoves
<1>5. ClosureType'
  BY <1>2 DEF ClosureType, jobVars
<1>6. ASSUME NEW i \in Job
      PROVE  Progress(i)'
  <2>1. UNCHANGED <<step[i], ended[i], Failed(i)>>
    BY <1>2 DEF jobVars, Failed
  <2> QED
    BY <1>3, <1>4, <2>1 DEF Progress
<1>7. ASSUME NEW t \in Task
      PROVE  Reported(t)' /\ Scanned(t)'
  <2>1. Reported(t)' /\ Reports(t)' = Reports(t)
    BY <1>2, TaskStill DEF jobVars
  <2> QED
    BY <1>2, <1>3, <2>1, ScannedKept
<1> QED
  BY <1>4, <1>5, <1>6, <1>7

(* A job that settles: its closure leaves, and the outcome is the one of    *)
(* the user's function.                                                     *)
LEMMA SettleMoves ==
  ASSUME ParallelInv, NEW j \in Job, step[j] = "leaving", Settle(j)
  PROVE  /\ ShapeType' /\ GraphType' /\ MainType'
         /\ WaitMatches' /\ Ordered' /\ Answered'
         /\ step' \in [Job -> {"idle", "calling", "called", "leaving", "left"}]
         /\ step'[j] = "left" /\ \A i \in Job : i # j => step'[i] = step[i]
         /\ \A i \in Job : Progress(i)'
         /\ UNCHANGED <<shapeVars, mainVars, answer, cancelled, ran, ended>>
<1> USE DEF ParallelInv, AllTyped
<1>1. /\ step' = [step EXCEPT ![j] = "left"]
      /\ Graph!Finish(j)
      /\ status'[j] = IF Failed(j) THEN "failed" ELSE "succeeded"
      /\ UNCHANGED <<shapeVars, mainVars, ran, ended>>
  BY DEF Settle
<1>2. PICK s \in {"succeeded", "failed"} :
         /\ status[j] = "running" /\ status' = [status EXCEPT ![j] = s]
         /\ UNCHANGED <<prereqs, waitState, answer, cancelled>>
  BY <1>1 DEF Graph!Finish
<1>3. /\ ShapeType' /\ GraphType' /\ MainType'
      /\ WaitMatches' /\ Ordered' /\ Answered'
      /\ \A i \in Job : i # j => status'[i] = status[i]
  BY <1>1, <1>2, JobMoves
<1>4. /\ step' \in [Job -> {"idle", "calling", "called", "leaving", "left"}]
      /\ step'[j] = "left" /\ \A i \in Job : i # j => step'[i] = step[i]
  BY <1>1 DEF ClosureType
<1>5. ended[j] # "no"
  BY DEF Progress
<1>6. ASSUME NEW i \in Job
      PROVE  Progress(i)'
  <2>1. CASE i = j
    <3>1. UNCHANGED <<ended[j], Failed(j)>>
      BY <1>1 DEF Failed
    <3> QED
      BY <1>1, <1>4, <1>5, <2>1, <3>1 DEF Progress
  <2>2. CASE i # j
    BY <1>1, <1>3, <1>4, <2>2, JobStill
  <2> QED
    BY <2>1, <2>2
<1> QED
  BY <1>1, <1>2, <1>3, <1>4, <1>6

-----------------------------------------------------------------------------
(* The closures                                                            *)

LEMMA EndTaskFunctionInv ==
  ASSUME ParallelInv, NEW t \in Task, EndTaskFunction(t)
  PROVE  ParallelInv'
<1> USE DEF ParallelInv, AllTyped
<1>1. PICK j \in Job : j = TaskJob(t)
  BY JobsApart
<1>2. /\ step[j] = "calling"
      /\ step' = [step EXCEPT ![j] = "called"]
      /\ UNCHANGED <<shapeVars, graphVars, mainVars, ran>>
  BY <1>1 DEF EndTaskFunction
<1>3. PICK e \in {"ok", "error", "panic", "exit"} :
         /\ ended' = [ended EXCEPT ![j] = e]
         /\ events' = CASE e = "ok"    -> [events EXCEPT ![t] = Append(@, "TaskSuccess")]
                        [] e = "error" -> [events EXCEPT ![t] = Append(@, "TaskError")]
                        [] OTHER       -> events
  BY <1>1 DEF EndTaskFunction
<1>4. /\ ShapeType' /\ GraphType' /\ MainType'
      /\ WaitMatches' /\ Ordered' /\ Answered'
  BY <1>2, ClosureWrites
<1>5. /\ step' \in [Job -> {"idle", "calling", "called", "leaving", "left"}]
      /\ ended' \in [Job -> {"no", "ok", "error", "panic", "exit"}]
      /\ step'[j] = "called" /\ ended'[j] = e
      /\ \A i \in Job : i # j => step'[i] = step[i] /\ ended'[i] = ended[i]
  BY <1>2, <1>3 DEF ClosureType
<1>6. /\ ended[j] = "no" /\ status[j] = "running" /\ ~ran[t]
      /\ Reports(t) \subseteq {"TaskSkipped"}
      /\ Reports(t) = Entries(events[t]) /\ Distinct(events[t])
      /\ events[t] \in Seq(TaskEvent)
  <2>1. ended[j] = "no" /\ status[j] = "running"
    BY <1>2 DEF Progress
  <2>2. ~ran[t] /\ ReturnEvent(t) = {}
    BY <1>1, <1>2, <2>1 DEF Reported, ReturnEvent
  <2> QED
    BY <1>1, <1>2, <2>1, <2>2 DEF Reported, Reports, Entries, ClosureType
<1>7. /\ events' \in [Task -> Seq(TaskEvent)]
      /\ \A u \in Task : u # t => events'[u] = events[u]
      /\ Reports(t)' = Reports(t) \union ReturnEvent(t)'
      /\ Distinct(events[t])' /\ DoneLast(events[t])'
  <2>1. CASE e \in {"ok", "error"}
    <3>1. PICK k \in {"TaskSuccess", "TaskError"} :
             /\ ReturnEvent(t)' = {k}
             /\ events' = [events EXCEPT ![t] = Append(events[t], k)]
      BY <1>1, <1>3, <1>5, <2>1 DEF ReturnEvent
    <3>2. k \in TaskEvent /\ k \notin Entries(events[t]) /\ "TaskDone" \notin Entries(events[t])
      BY <1>6 DEF TaskEvent, Verdict
    <3>3. /\ Append(events[t], k) \in Seq(TaskEvent)
          /\ Entries(Append(events[t], k)) = Entries(events[t]) \union {k}
          /\ Distinct(Append(events[t], k)) /\ DoneLast(Append(events[t], k))
      BY <1>6, <3>2, AppendProperties, AppendEntry
    <3>4. events'[t] = Append(events[t], k)
      BY <3>1 DEF ClosureType
    <3>5. Reports(t)' = Entries(Append(events[t], k))
      BY <3>4 DEF Reports, Entries
    <3>6. /\ events' \in [Task -> Seq(TaskEvent)]
          /\ \A u \in Task : u # t => events'[u] = events[u]
      BY <3>1, <3>3 DEF ClosureType
    <3> QED
      BY <1>6, <3>1, <3>3, <3>4, <3>5, <3>6
  <2>2. CASE e \in {"panic", "exit"}
    <3>1. events' = events /\ ReturnEvent(t)' = {}
      BY <1>1, <1>3, <1>5, <2>2 DEF ReturnEvent
    <3> QED
      BY <3>1 DEF Reports, Reported, ClosureType
  <2> QED
    BY <2>1, <2>2
<1>8. ClosureType'
  BY <1>2, <1>5, <1>7 DEF ClosureType
<1>9. ASSUME NEW i \in Job
      PROVE  Progress(i)'
  <2>1. CASE i = j
    BY <1>2, <1>5, <1>6, <2>1 DEF Progress, graphVars
  <2>2. CASE i # j
    BY <1>2, <1>5, <2>2, JobStill DEF graphVars
  <2> QED
    BY <2>1, <2>2
<1>10. ASSUME NEW u \in Task, u # t
       PROVE  Reported(u)' /\ Scanned(u)'
  <2>1. TaskJob(u) # j /\ TaskJob(u) \in Job
    BY <1>1, <1>10, JobsApart
  <2>2. Reported(u)' /\ Reports(u)' = Reports(u)
    BY <1>2, <1>5, <1>7, <1>10, <2>1, TaskStill
  <2> QED
    BY <1>2, <2>2, ScannedKept DEF graphVars
<1>11. Reported(t)' /\ Scanned(t)'
  <2>1. "TaskSkipped" \notin ReturnEvent(t)'
    BY DEF ReturnEvent
  <2>2. Reports(t)' \ {"TaskSkipped"} = ReturnEvent(t)'
    BY <1>6, <1>7, <2>1
  <2>3. Reported(t)'
    BY <1>1, <1>2, <1>5, <1>6, <1>7, <2>2 DEF Reported
  <2> QED
    BY <1>2, <1>7, <2>1, <2>3, ScannedKept DEF graphVars
<1> QED
  BY <1>4, <1>8, <1>9, <1>10, <1>11

(* A job that is not a task's tells nobody.                                 *)
LEMMA EndOtherFunctionInv ==
  ASSUME ParallelInv, NEW j, EndOtherFunction(j)
  PROVE  ParallelInv'
<1> USE DEF ParallelInv, AllTyped
<1>1. j \in Job /\ \A t \in Task : TaskJob(t) # j
  BY PlannedJobs DEF EndOtherFunction
<1>2. PICK e \in {"ok", "error", "panic", "exit"} : ended' = [ended EXCEPT ![j] = e]
  BY DEF EndOtherFunction
<1>3. /\ step[j] = "calling"
      /\ step' = [step EXCEPT ![j] = "leaving"]
      /\ UNCHANGED <<shapeVars, graphVars, mainVars, ran, events>>
  BY DEF EndOtherFunction
<1>4. /\ ShapeType' /\ GraphType' /\ MainType'
      /\ WaitMatches' /\ Ordered' /\ Answered'
  BY <1>3, ClosureWrites
<1>5. /\ step' \in [Job -> {"idle", "calling", "called", "leaving", "left"}]
      /\ ended' \in [Job -> {"no", "ok", "error", "panic", "exit"}]
      /\ step'[j] = "leaving" /\ ended'[j] = e
      /\ \A i \in Job : i # j => step'[i] = step[i] /\ ended'[i] = ended[i]
  BY <1>1, <1>2, <1>3 DEF ClosureType
<1>6. ClosureType'
  BY <1>3, <1>5 DEF ClosureType
<1>7. status[j] = "running"
  BY <1>1, <1>3 DEF Progress
<1>8. ASSUME NEW i \in Job
      PROVE  Progress(i)'
  <2>1. CASE i = j
    BY <1>3, <1>5, <1>7, <2>1 DEF Progress, graphVars
  <2>2. CASE i # j
    BY <1>3, <1>5, <2>2, JobStill DEF graphVars
  <2> QED
    BY <2>1, <2>2
<1>9. ASSUME NEW t \in Task
      PROVE  Reported(t)' /\ Scanned(t)'
  <2>1. TaskJob(t) \in Job
    BY JobsApart
  <2>2. Reported(t)' /\ Reports(t)' = Reports(t)
    BY <1>1, <1>3, <1>5, <2>1, TaskStill
  <2> QED
    BY <1>3, <2>2, ScannedKept DEF graphVars
<1> QED
  BY <1>4, <1>6, <1>8, <1>9

LEMMA StoreRanInv ==
  ASSUME ParallelInv, NEW t \in Task, StoreRan(t)
  PROVE  ParallelInv'
<1> USE DEF ParallelInv, AllTyped
<1>1. PICK j \in Job : j = TaskJob(t)
  BY JobsApart
<1>2. /\ step[j] = "called" /\ ran' = [ran EXCEPT ![t] = TRUE]
      /\ step' = [step EXCEPT ![j] = "leaving"]
      /\ UNCHANGED <<shapeVars, graphVars, mainVars, ended, events>>
  BY <1>1 DEF StoreRan
<1>3. /\ ShapeType' /\ GraphType' /\ MainType'
      /\ WaitMatches' /\ Ordered' /\ Answered'
  BY <1>2, ClosureWrites
<1>4. /\ step'[j] = "leaving" /\ ran'[t] = TRUE
      /\ \A i \in Job : i # j => step'[i] = step[i]
      /\ \A u \in Task : u # t => ran'[u] = ran[u]
  BY <1>2 DEF ClosureType
<1>5. ClosureType'
  BY <1>2 DEF ClosureType
<1>6. status[j] = "running" /\ ended[j] # "no"
  BY <1>2 DEF Progress
<1>7. ASSUME NEW i \in Job
      PROVE  Progress(i)'
  <2>1. CASE i = j
    BY <1>2, <1>4, <1>6, <2>1 DEF Progress, graphVars
  <2>2. CASE i # j
    BY <1>2, <1>4, <2>2, JobStill DEF graphVars
  <2> QED
    BY <2>1, <2>2
<1>8. ASSUME NEW u \in Task, u # t
      PROVE  Reported(u)' /\ Scanned(u)'
  <2>1. TaskJob(u) # j /\ TaskJob(u) \in Job
    BY <1>1, <1>8, JobsApart
  <2>2. Reported(u)' /\ Reports(u)' = Reports(u)
    BY <1>2, <1>4, <1>8, <2>1, TaskStill
  <2> QED
    BY <1>2, <2>2, ScannedKept DEF graphVars
<1>9. Reported(t)' /\ Scanned(t)'
  <2>1. UNCHANGED <<events[t], Reports(t), ReturnEvent(t), PanicEvent(t)>>
    BY <1>2 DEF Reports, ReturnEvent, PanicEvent
  <2>2. Reported(t)'
    BY <1>1, <1>2, <1>4, <2>1 DEF Reported
  <2> QED
    BY <1>2, <2>1, <2>2, ScannedKept DEF graphVars
<1> QED
  BY <1>3, <1>5, <1>7, <1>8, <1>9

(* What the deferred functions of a task append, read as optional entries.  *)
LEMMA LeaveReports ==
  ASSUME ParallelInv, NEW t \in Task, LeaveTask(t)
  PROVE  /\ events' \in [Task -> Seq(TaskEvent)]
         /\ \A u \in Task : u # t => events'[u] = events[u]
         /\ Reports(t)' = Reports(t) \union PanicEvent(t) \union {"TaskDone"}
         /\ Distinct(events[t])' /\ DoneLast(events[t])'
<1> USE DEF ParallelInv, AllTyped
<1> DEFINE p == IF ended[TaskJob(t)] = "panic" THEN <<"TaskPanic">> ELSE <<>>
           s == events[t] \o p
           r == s \o <<"TaskDone">>
<1>1. step[TaskJob(t)] = "leaving" /\ ran[t] = TRUE
  BY DEF LeaveTask, Reported, ClosureType
<1>2. events' = [events EXCEPT ![t] = r]
  BY <1>1 DEF LeaveTask
<1>3. /\ events[t] \in Seq(TaskEvent)
      /\ Reports(t) = Entries(events[t]) /\ Distinct(events[t])
      /\ Reports(t) \ {"TaskSkipped"} = ReturnEvent(t)
  BY <1>1 DEF ClosureType, Reports, Entries, Reported
<1>4. /\ ReturnEvent(t) \subseteq {"TaskSuccess", "TaskError"}
      /\ Reports(t) \intersect {"TaskPanic", "TaskDone"} = {}
  <2>1. ReturnEvent(t) \subseteq {"TaskSuccess", "TaskError"}
    BY DEF ReturnEvent
  <2> QED
    BY <1>3, <2>1
<1>5. "TaskPanic" \in TaskEvent /\ "TaskDone" \in TaskEvent
  BY DEF TaskEvent, Verdict
<1>6. /\ s \in Seq(TaskEvent) /\ Distinct(s)
      /\ Entries(s) = Reports(t) \union PanicEvent(t) /\ "TaskDone" \notin Entries(s)
  <2>1. CASE ended[TaskJob(t)] # "panic"
    <3>1. p = <<>> /\ PanicEvent(t) = {}
      BY <2>1 DEF PanicEvent
    <3>2. events[t] \o <<>> = events[t]
      BY <1>3, ConcatEmptySeq
    <3> QED
      BY <1>3, <1>4, <3>1, <3>2
  <2>2. CASE ended[TaskJob(t)] = "panic"
    <3>1. p = <<"TaskPanic">> /\ PanicEvent(t) = {"TaskPanic"}
      BY <2>2 DEF PanicEvent
    <3> HIDE DEF p
    <3>2. "TaskPanic" \notin Entries(events[t])
      BY <1>3, <1>4
    <3>3. /\ s \in Seq(TaskEvent) /\ Distinct(s)
          /\ Entries(s) = Entries(events[t]) \union {"TaskPanic"}
      BY <1>3, <1>5, <3>1, <3>2, ConcatEntry
    <3> QED
      BY <1>3, <1>4, <3>1, <3>3
  <2> QED
    BY <2>1, <2>2
<1> HIDE DEF s
<1>7. /\ r \in Seq(TaskEvent) /\ Distinct(r) /\ DoneLast(r)
      /\ Entries(r) = Entries(s) \union {"TaskDone"}
  BY <1>5, <1>6, ConcatEntry
<1> HIDE DEF r
<1>8. /\ events' \in [Task -> Seq(TaskEvent)] /\ events'[t] = r
      /\ \A u \in Task : u # t => events'[u] = events[u]
  BY <1>2, <1>7 DEF ClosureType
<1>9. Reports(t)' = Entries(r)
  BY <1>8 DEF Reports, Entries
<1> QED
  BY <1>6, <1>7, <1>8, <1>9

LEMMA LeaveTaskInv ==
  ASSUME ParallelInv, NEW t \in Task, LeaveTask(t)
  PROVE  ParallelInv'
<1> USE DEF ParallelInv, AllTyped
<1>1. PICK j \in Job : j = TaskJob(t)
  BY JobsApart
<1>2. step[j] = "leaving" /\ Settle(j)
  BY <1>1 DEF LeaveTask
<1>3. /\ ShapeType' /\ GraphType' /\ MainType'
      /\ WaitMatches' /\ Ordered' /\ Answered'
      /\ step' \in [Job -> {"idle", "calling", "called", "leaving", "left"}]
      /\ step'[j] = "left" /\ \A i \in Job : i # j => step'[i] = step[i]
      /\ \A i \in Job : Progress(i)'
      /\ UNCHANGED <<shapeVars, mainVars, answer, cancelled, ran, ended>>
  BY <1>2, SettleMoves
<1>4. /\ events' \in [Task -> Seq(TaskEvent)]
      /\ \A u \in Task : u # t => events'[u] = events[u]
      /\ Reports(t)' = Reports(t) \union PanicEvent(t) \union {"TaskDone"}
      /\ Distinct(events[t])' /\ DoneLast(events[t])'
  BY LeaveReports
<1>5. ClosureType'
  BY <1>3, <1>4 DEF ClosureType
<1>6. ASSUME NEW u \in Task, u # t
      PROVE  Reported(u)' /\ Scanned(u)'
  <2>1. TaskJob(u) # j /\ TaskJob(u) \in Job
    BY <1>1, <1>6, JobsApart
  <2>2. Reported(u)' /\ Reports(u)' = Reports(u)
    BY <1>3, <1>4, <1>6, <2>1, TaskStill
  <2> QED
    BY <1>3, <2>2, ScannedKept
<1>7. Reported(t)' /\ Scanned(t)'
  <2>1. UNCHANGED <<ReturnEvent(t), PanicEvent(t), ran[t]>>
    BY <1>3 DEF ReturnEvent, PanicEvent
  <2>2. "TaskSkipped" \notin PanicEvent(t)
    BY DEF PanicEvent
  <2>3. Reports(t) \ {"TaskSkipped"} = ReturnEvent(t) /\ ran[t]
    BY <1>1, <1>2 DEF Reported
  <2>4. Reported(t)'
    BY <1>1, <1>3, <1>4, <2>1, <2>2, <2>3 DEF Reported
  <2> QED
    BY <1>3, <1>4, <2>2, <2>4, ScannedKept
<1> QED
  BY <1>3, <1>5, <1>6, <1>7

LEMMA LeaveOtherInv ==
  ASSUME ParallelInv, NEW j, LeaveOther(j)
  PROVE  ParallelInv'
<1> USE DEF ParallelInv, AllTyped
<1>1. j \in Job /\ \A t \in Task : TaskJob(t) # j
  BY PlannedJobs DEF LeaveOther
<1>2. step[j] = "leaving" /\ Settle(j) /\ UNCHANGED events
  BY DEF LeaveOther
<1>3. /\ ShapeType' /\ GraphType' /\ MainType'
      /\ WaitMatches' /\ Ordered' /\ Answered'
      /\ step' \in [Job -> {"idle", "calling", "called", "leaving", "left"}]
      /\ \A i \in Job : i # j => step'[i] = step[i]
      /\ \A i \in Job : Progress(i)'
      /\ UNCHANGED <<shapeVars, mainVars, answer, cancelled, ran, ended>>
  BY <1>1, <1>2, SettleMoves
<1>4. ClosureType'
  BY <1>2, <1>3 DEF ClosureType
<1>5. ASSUME NEW t \in Task
      PROVE  Reported(t)' /\ Scanned(t)'
  <2>1. TaskJob(t) \in Job
    BY JobsApart
  <2>2. Reported(t)' /\ Reports(t)' = Reports(t)
    BY <1>1, <1>2, <1>3, <2>1, TaskStill
  <2> QED
    BY <1>3, <2>2, ScannedKept
<1> QED
  BY <1>3, <1>4, <1>5

-----------------------------------------------------------------------------
(* Every step                                                              *)

LEMMA StutterInv ==
  ASSUME ParallelInv, UNCHANGED vars
  PROVE  ParallelInv'
<1> USE DEF ParallelInv, AllTyped, vars
<1>1. /\ ShapeType' /\ GraphType' /\ MainType'
      /\ WaitMatches' /\ Ordered' /\ Answered'
  BY ClosureWrites
<1>2. /\ ClosureType' /\ \A j \in Job : Progress(j)'
      /\ \A t \in Task : Reported(t)' /\ Reports(t)' = Reports(t)
  BY ClosuresStill DEF graphVars
<1>3. \A t \in Task : Scanned(t)'
  BY <1>2, ScannedKept DEF graphVars
<1> QED
  BY <1>1, <1>2, <1>3

LEMMA StepInv ==
  ASSUME ParallelInv, [Next]_vars
  PROVE  ParallelInv'
<1>1. CASE \/ \E t \in Task : EnqueueTask(t)
           \/ \E c \in Collection : \/ \E i \in 1..MaxSize : EnqueueElement(c, i)
                                    \/ EnqueueEnd(c)
  BY <1>1, EnqueueInv
<1>2. CASE Await \/ Return \/ \E r \in {"nil", "err", "ctx"} : Conclude(r)
  BY <1>2, AwaitInv, ReturnInv, ConcludeInv
<1>3. CASE \E t \in Task : ReportSkipped(t)
  BY <1>3, ReportSkippedInv
<1>4. CASE SkipJob \/ CancelParallel
  BY <1>4, SkipJobInv, CancelInv
<1>5. CASE \E t \in Task : EndTaskFunction(t) \/ StoreRan(t) \/ LeaveTask(t)
  BY <1>5, EndTaskFunctionInv, StoreRanInv, LeaveTaskInv
<1>6. CASE \E j \in Planned : StartJob(j) \/ EndOtherFunction(j) \/ LeaveOther(j)
  BY <1>6, StartJobInv, EndOtherFunctionInv, LeaveOtherInv
<1>7. CASE UNCHANGED vars
  BY <1>7, StutterInv
<1> QED
  BY <1>1, <1>2, <1>3, <1>4, <1>5, <1>6, <1>7 DEF Next, Main, Closures, AllOver

LEMMA ParallelInvariance == Spec => []ParallelInv
<1>1. ParallelInv /\ [Next]_vars => ParallelInv'
  BY StepInv
<1> QED
  BY InitInv, <1>1, PTL DEF Spec

-----------------------------------------------------------------------------
(* What follows                                                            *)

(* Every variable of the generated code keeps its type, and a task reports  *)
(* at most three events.                                                    *)
THEOREM ParallelTypesRight == Spec => []TypeOK
BY ParallelInvariance, InvariantTyped, PTL

(* A job that succeeded has left its closure, its function without error;   *)
(* one that failed has left it with one.                                    *)
LEMMA Outcomes ==
  ASSUME ParallelInv, NEW j \in Job
  PROVE  /\ status[j] = "succeeded" => step[j] = "left" /\ ended[j] = "ok"
         /\ status[j] = "failed" =>
               step[j] = "left" /\ ended[j] \in {"error", "panic", "exit"}
BY DEF ParallelInv, AllTyped, Progress, Failed, ClosureType

(* Nothing but an end function is skipped while the context is alive.       *)
LEMMA SkippedBecause ==
  ASSUME ParallelInv, NEW j \in Job, status[j] = "skipped", ~cancelled
  PROVE  \E c \in withEnd : /\ j = EndJob(c) /\ Elements(c) \subseteq Planned
                            /\ \E p \in Elements(c) : status[p] = "failed"
<1> USE DEF ParallelInv, AllTyped
<1>1. PICK p \in prereqs[j] : status[p] \in {"failed", "skipped"}
  BY DEF Ordered
<1>2. PICK c \in Collection : j = EndJob(c)
  BY <1>1 DEF Ordered
<1>3. p \in Elements(c) /\ c \in withEnd /\ Elements(c) \subseteq Planned /\ p \in Job
  BY <1>1, <1>2, PlannedJobs DEF Ordered, WaitMatches
<1>4. prereqs[p] = {}
  BY <1>3, JobsApart DEF Elements, Ordered
<1>5. status[p] # "skipped"
  BY <1>3, <1>4 DEF Ordered
<1> QED
  BY <1>1, <1>2, <1>3, <1>5

(* SliceEnd and MapEnd run only after every item was processed without      *)
(* error.                                                                   *)
THEOREM EndsComeAfterElements == Spec => []EndAfterElements
<1>1. ASSUME ParallelInv
      PROVE  EndAfterElements
  <2> USE <1>1 DEF ParallelInv, AllTyped
  <2> SUFFICES ASSUME NEW c \in withEnd,
                      ended[EndJob(c)] # "no" \/ step[EndJob(c)] = "calling",
                      NEW j \in Elements(c)
               PROVE  step[j] = "left" /\ ended[j] = "ok"
    BY DEF EndAfterElements
  <2>1. c \in Collection /\ EndJob(c) \in Job /\ j \in Job
    BY PlannedJobs DEF ShapeType
  <2>2. status[EndJob(c)] \in {"running", "succeeded", "failed"}
    BY <2>1 DEF Progress, GraphType, Graph!Status
  <2>3. status[j] = "succeeded"
    BY <2>1, <2>2 DEF Ordered
  <2> QED
    BY <2>1, <2>3, Outcomes
<1> QED
  BY ParallelInvariance, <1>1, PTL

(* With ContinueOnError, a call that returns before its context is done has *)
(* run every job to its end.                                                *)
THEOREM EverythingHasRun == Spec => []EverythingRan
<1>1. ASSUME ParallelInv
      PROVE  EverythingRan
  <2> USE <1>1 DEF ParallelInv, AllTyped
  <2> SUFFICES ASSUME continueOnError, ~cancelled, main \in {"returning", "finished"},
                      NEW j \in Planned
               PROVE  step[j] = "left" /\ ended[j] # "no"
    BY DEF EverythingRan
  <2>1. j \in Job /\ withEnd = {}
    BY PlannedJobs DEF ShapeType
  <2>2. answer \in {"nil", "err"}
    BY DEF WaitMatches, GraphType, Answered
  <2>3. status[j] \in {"succeeded", "failed", "skipped"}
    BY <2>2 DEF Answered
  <2>4. status[j] # "skipped"
    BY <2>1, SkippedBecause
  <2> QED
    BY <2>1, <2>3, <2>4, Outcomes
<1> QED
  BY ParallelInvariance, <1>1, PTL

(* A call that returned nil saw every function return without error; one    *)
(* that returned an error of a job saw a function fail, or a job skipped    *)
(* for the context.                                                         *)
THEOREM ErrorsAreRight == Spec => []ErrorIsRight
<1>1. ASSUME ParallelInv
      PROVE  ErrorIsRight
  <2> USE <1>1 DEF ParallelInv, AllTyped
  <2>1. Planned \subseteq Job
    BY PlannedJobs
  <2>2. answer = "nil" => \A j \in Planned : ended[j] = "ok"
    BY <2>1, Outcomes DEF Answered
  <2>3. ASSUME answer = "err"
        PROVE  \E j \in Planned : \/ ended[j] \in {"error", "panic", "exit"}
                                  \/ status[j] = "skipped" /\ cancelled
    <3>1. PICK j \in Planned : status[j] \in {"failed", "skipped"}
      BY <2>3 DEF Answered
    <3>2. CASE status[j] = "failed"
      BY <2>1, <3>2, Outcomes
    <3>3. CASE status[j] = "skipped" /\ cancelled
      BY <3>3
    <3>4. CASE status[j] = "skipped" /\ ~cancelled
      <4>1. PICK p \in Planned : status[p] = "failed"
        BY <2>1, <3>4, SkippedBecause
      <4> QED
        BY <2>1, <4>1, Outcomes
    <3> QED
      BY <3>1, <3>2, <3>3, <3>4
  <2> QED
    BY <2>2, <2>3 DEF ErrorIsRight
<1> QED
  BY ParallelInvariance, <1>1, PTL

(* When a call returned nil each task was reported successful, then done,   *)
(* and nothing else was reported of it.                                     *)
THEOREM TasksReportedOnce == Spec => []TasksAccountedFor
<1>1. ASSUME ParallelInv
      PROVE  TasksAccountedFor
  <2> USE <1>1 DEF ParallelInv, AllTyped
  <2> SUFFICES ASSUME answer = "nil", NEW t \in Task
               PROVE  events[t] = <<"TaskSuccess", "TaskDone">>
    BY DEF TasksAccountedFor
  <2> DEFINE s == events[t]
  <2>1. step[TaskJob(t)] = "left" /\ ended[TaskJob(t)] = "ok"
    BY PlannedJobs, JobsApart, Outcomes DEF Answered
  <2>2. /\ Entries(s) = {"TaskSuccess", "TaskDone"}
        /\ Distinct(s) /\ DoneLast(s) /\ s \in Seq(TaskEvent)
    <3>1. Reports(t) = {"TaskSuccess", "TaskDone"}
      BY <2>1 DEF Reported, Scanned, ReturnEvent, PanicEvent
    <3> QED
      BY <3>1 DEF Reported, Reports, Entries, ClosureType
  <2> HIDE DEF s
  <2>3. DOMAIN s = 1..Len(s) /\ Len(s) \in Nat
    BY <2>2, LenProperties
  <2>4. PICK a, b \in 1..Len(s) : s[a] = "TaskSuccess" /\ s[b] = "TaskDone"
    BY <2>2, <2>3 DEF Entries
  <2>5. b = Len(s) /\ a # b
    BY <2>2, <2>3, <2>4 DEF DoneLast
  <2>6. \A i \in 1..Len(s) : i = a \/ i = b
    BY <2>2, <2>3, <2>4 DEF Entries, Distinct
  <2>7. a = 1 /\ b = 2
    <3>1. ASSUME NEW n \in Nat, NEW x \in 1..n, n # x, \A i \in 1..n : i = x \/ i = n
          PROVE  x = 1 /\ n = 2
      <4>1. x = 1
        BY <3>1
      <4>2. n < 3
        BY <3>1, <4>1
      <4> QED
        BY <3>1, <4>1, <4>2
    <3> QED
      BY <2>3, <2>5, <2>6, <3>1
  <2>8. Len(s) = 2 /\ s[1] = "TaskSuccess" /\ s[2] = "TaskDone"
    BY <2>4, <2>5, <2>7
  <2> QED
    BY <2>2, <2>8 DEF s
<1> QED
  BY ParallelInvariance, <1>1, PTL

(* With ContinueOnError, only a cancelled context can have a task reported  *)
(* as skipped, be it one that still ran.                                    *)
THEOREM SkippedForCancel == Spec => []SkippedOnlyAfterCancel
<1>1. ASSUME ParallelInv
      PROVE  SkippedOnlyAfterCancel
  BY <1>1 DEF ParallelInv, Scanned, SkippedOnlyAfterCancel
<1> QED
  BY ParallelInvariance, <1>1, PTL

=============================================================================
