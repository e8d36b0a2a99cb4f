--------------------------- MODULE SchedulerProofs ---------------------------
(***************************************************************************)
(* What the scheduler guarantees for every set of jobs, every number of     *)
(* workers and both values of ContinueOnError. First its types, then that   *)
(* its bookkeeping is exact: no job is in two places, a job that is ready   *)
(* has its verdict, and no job runs before the jobs it depends on have      *)
(* succeeded. Then that what Wait returns, and what an emitter is told, is  *)
(* the truth; that rests on the loop's three counters, by which it decides  *)
(* that nothing is left to do. At last that the scheduler implements        *)
(* JobGraph: each step of a goroutine is a step of the abstract graph of    *)
(* jobs, or leaves it as it is.                                             *)
(***************************************************************************)
EXTENDS SchedulerRefinement, FiniteSetTheorems, SequenceTheorems, TLAPS

-----------------------------------------------------------------------------
(* Lemmas on the operators of the model                                    *)

(* There is at least one worker, and a natural number of them.              *)
LEMMA ConcurrencyType == Concurrency \in Nat \ {0}
<1>1. Concurrency \in Nat
  BY WorkerAssumption, FS_CardinalityType DEF Concurrency
<1>2. Concurrency # 0
  BY WorkerAssumption, FS_EmptySet DEF Concurrency
<1> QED
  BY <1>1, <1>2

(* A job occurs finitely often in a dependency or consumer list.            *)
LEMMA OccurrencesFinite ==
  ASSUME NEW S, NEW s \in Seq(S), NEW x
  PROVE  /\ IsFiniteSet(Occurrences(x, s))
         /\ Count(x, s) \in Nat
<1>1. IsFiniteSet(DOMAIN s)
  <2>1. DOMAIN s = 1..Len(s) /\ Len(s) \in Nat
    OBVIOUS
  <2> QED
    BY <2>1, FS_Interval
<1>2. IsFiniteSet(Occurrences(x, s))
  BY <1>1, FS_Subset DEF Occurrences
<1> QED
  BY <1>2, FS_CardinalityType DEF Count

(* The positions of a dependency list are finite in number.                 *)
LEMMA OutstandingFinite ==
  ASSUME NEW S, NEW ds \in Seq(S)
  PROVE  /\ IsFiniteSet(Outstanding(ds))
         /\ Cardinality(Outstanding(ds)) \in Nat
<1>1. IsFiniteSet(DOMAIN ds)
  <2>1. DOMAIN ds = 1..Len(ds) /\ Len(ds) \in Nat
    OBVIOUS
  <2> QED
    BY <2>1, FS_Interval
<1>2. IsFiniteSet(Outstanding(ds))
  BY <1>1, FS_Subset DEF Outstanding
<1> QED
  BY <1>2, FS_CardinalityType

(* The members of a sequence are elements of its element set.               *)
LEMMA MembersType ==
  ASSUME NEW S, NEW s \in Seq(S)
  PROVE  Members(s) \subseteq S
BY DEF Members

(* An order in which jobs are released is a sequence of these jobs.         *)
LEMMA ReleaseOrdersType ==
  ASSUME NEW R \in SUBSET Job, NEW s, NEW q \in ReleaseOrders(R, s)
  PROVE  q \in Seq(Job)
<1>1. IsFiniteSet(R)
  BY JobAssumption, FS_Subset
<1>2. Cardinality(R) \in Nat
  BY <1>1, FS_CardinalityType
<1>3. q \in [1..Cardinality(R) -> R]
  BY DEF ReleaseOrders
<1> QED
  BY <1>2, <1>3, SeqDef

-----------------------------------------------------------------------------
(* Type correctness                                                        *)

(* A worker holds a job exactly from the moment it is handed one to the     *)
(* moment its result is in donec. TypeOK alone is not inductive: Post       *)
(* sends the job a worker holds, which must not be NoJob.                   *)
HandsFull == \A w \in Worker : w \in Busy <=> current[w] # NoJob

LEMMA InitTyped == Init => TypeOK
<1> SUFFICES ASSUME Init PROVE TypeOK
  OBVIOUS
<1>1. <<>> \in Seq(Job) /\ <<>> \in Seq(Result) /\ Len(<<>>) = 0
  OBVIOUS
<1>2. CallerType
  BY <1>1 DEF Init, CallerType
<1>3. ChannelType
  BY <1>1, ConcurrencyType DEF Init, ChannelType
<1>4. LoopType
  BY <1>1 DEF Init, LoopType, StateReport
<1>5. JobType
  <2>1. done \in [Job -> BOOLEAN] /\ invalid \in [Job -> BOOLEAN]
    BY DEF Init
  <2> QED
    BY <1>1, <2>1 DEF Init, JobType, Err
<1>6. WorkerType
  BY DEF Init, WorkerType, Err
<1> QED
  BY <1>2, <1>3, <1>4, <1>5, <1>6 DEF TypeOK

LEMMA CallerTyped == TypeOK /\ Caller => TypeOK'
<1> SUFFICES ASSUME TypeOK, Caller PROVE TypeOK'
  OBVIOUS
<1>1. ASSUME NEW j \in Job, Enqueue(j) PROVE TypeOK'
  <2>1. PICK ds \in DependencyLists : deps' = [deps EXCEPT ![j] = ds]
    BY <1>1 DEF Enqueue
  <2>2. ds \in Seq(Job)
    <3>1. PICK n \in 0..MaxDeps : ds \in [1..n -> enqueued]
      BY <2>1 DEF DependencyLists
    <3>2. n \in Nat /\ enqueued \subseteq Job
      BY BoundAssumption
      DEF TypeOK, CallerType, ChannelType, LoopType, JobType, WorkerType
    <3> QED
      BY <3>1, <3>2, SeqDef
  <2>3. deps' \in [Job -> Seq(Job)]
    BY <2>1, <2>2
    DEF TypeOK, CallerType, ChannelType, LoopType, JobType, WorkerType
  <2>4. enqueuec' \in Seq(Job) /\ Len(enqueuec') <= 1
    BY <1>1
    DEF TypeOK, CallerType, ChannelType, LoopType, JobType, WorkerType,
        Enqueue
  <2> QED
    BY <1>1, <2>3, <2>4
   
    DEF TypeOK, CallerType, ChannelType, LoopType, JobType, WorkerType,
        Enqueue, loopVars, jobVars, workerVars
<1>2. CASE CallWait
  BY <1>2
  DEF TypeOK, CallerType, ChannelType, LoopType, JobType, WorkerType, CallWait,
      loopVars, jobVars, workerVars
<1>3. CASE ReturnFinished
  BY <1>3
  DEF TypeOK, CallerType, ChannelType, LoopType, JobType, WorkerType,
      ReturnFinished, FinalResult, loopVars, jobVars, workerVars
<1>4. CASE ReturnCtx
  BY <1>4
  DEF TypeOK, CallerType, ChannelType, LoopType, JobType, WorkerType,
      ReturnCtx, loopVars, jobVars, workerVars
<1> QED
  BY <1>1, <1>2, <1>3, <1>4 DEF Caller

LEMMA CancelTyped == TypeOK /\ CancelCtx => TypeOK'
BY DEF TypeOK, CallerType, ChannelType, LoopType, JobType, WorkerType,
    CancelCtx, callerVars, loopVars, jobVars, workerVars

LEMMA DispatchTyped ==
  ASSUME TypeOK, NEW w \in Worker, Dispatch(w)
  PROVE  TypeOK'
<1>1. Head(ready) \in Job /\ Tail(ready) \in Seq(Job)
  BY DEF TypeOK, CallerType, ChannelType, LoopType, JobType, WorkerType,
      Dispatch
<1>2. phase' \in [Worker -> {"idle", "got", "running", "posting", "exited"}]
  BY DEF TypeOK, CallerType, ChannelType, LoopType, JobType, WorkerType,
      Dispatch
<1>3. current' \in [Worker -> Job \union {NoJob}]
  BY <1>1
  DEF TypeOK, CallerType, ChannelType, LoopType, JobType, WorkerType, Dispatch
<1>4. ready' \in Seq(Job) /\ ongoing' \in Int
  BY <1>1
  DEF TypeOK, CallerType, ChannelType, LoopType, JobType, WorkerType, Dispatch,
      WithoutFront
<1>5. loop' \in {"select", "draining", "exited"}
  BY DEF Dispatch, AfterSelect
<1> QED
  BY <1>2, <1>3, <1>4, <1>5
  DEF TypeOK, CallerType, ChannelType, LoopType, JobType, WorkerType, Dispatch,
      callerVars, jobVars

LEMMA AdmitTyped == TypeOK /\ Admit => TypeOK'
<1> SUFFICES ASSUME TypeOK, Admit PROVE TypeOK'
  OBVIOUS
<1> DEFINE job == Head(enqueuec)
           ds  == deps[job]
<1>1. job \in Job /\ Tail(enqueuec) \in Seq(Job) /\ Len(Tail(enqueuec)) <= 1
  BY DEF TypeOK, CallerType, ChannelType, LoopType, JobType, WorkerType, Admit
<1>2. ds \in Seq(Job)
  BY <1>1 DEF TypeOK, CallerType, ChannelType, LoopType, JobType, WorkerType
<1>3. Subscribe(job, ds) \in [Job -> Seq(Job)]
  <2> SUFFICES ASSUME NEW d \in Job
               PROVE  consumers[d] \o [i \in 1..Count(d, ds) |-> job] \in Seq(Job)
    BY DEF Subscribe, TypeOK
  <2>1. Count(d, ds) \in Nat
    BY <1>2, OccurrencesFinite
  <2>2. [i \in 1..Count(d, ds) |-> job] \in Seq(Job)
    BY <1>1, <2>1, SeqDef
  <2>3. consumers[d] \in Seq(Job)
    BY DEF TypeOK, CallerType, ChannelType, LoopType, JobType, WorkerType
  <2> QED
    BY <2>2, <2>3, ConcatProperties
<1>4. Cardinality(Outstanding(ds)) \in Int
  BY <1>2, OutstandingFinite
<1>5. remaining' \in [Job -> Int]
  BY <1>1, <1>4
  DEF TypeOK, CallerType, ChannelType, LoopType, JobType, WorkerType, Admit
<1>6. invalid' \in [Job -> BOOLEAN]
  <2>1. BornInvalid(ds) \in BOOLEAN
    BY DEF BornInvalid
  <2>2. invalid' = [invalid EXCEPT ![job] = BornInvalid(ds)]
    BY DEF Admit
  <2>3. invalid \in [Job -> BOOLEAN]
    BY DEF TypeOK, CallerType, ChannelType, LoopType, JobType, WorkerType
  <2> QED
    BY <2>1, <2>2, <2>3
<1>7. ready' \in Seq(Job) /\ waiting' \in Int /\ pending' \in Int
  <2>1. /\ \/ ready' = Append(ready, job) /\ waiting' = waiting
           \/ waiting' = waiting + 1 /\ ready' = ready
        /\ pending' = pending + 1
    BY DEF Admit
  <2>2. ready \in Seq(Job) /\ waiting \in Int /\ pending \in Int
    BY DEF TypeOK, LoopType
  <2>3. Append(ready, job) \in Seq(Job)
    BY <1>1, <2>2, AppendProperties
  <2> QED
    BY <2>1, <2>2, <2>3
<1>8. loop' \in {"select", "draining", "exited"}
  BY DEF Admit, AfterSelect
<1>9. consumers' \in [Job -> Seq(Job)]
  BY <1>3 DEF Admit
<1>10. UNCHANGED <<caller, result, enqueued, deps, ctxDone, donec, accepting,
                   ongoing, schedErr, emitted, done, err, phase, current,
                   outcome>>
  BY DEF Admit, callerVars, workerVars
<1>11. CallerType' /\ WorkerType'
  BY <1>10 DEF TypeOK, CallerType, WorkerType
<1>12. ChannelType'
  BY <1>1, <1>10 DEF TypeOK, ChannelType, Admit
<1>13. LoopType'
  BY <1>7, <1>8, <1>10 DEF TypeOK, LoopType
<1>14. JobType'
  BY <1>5, <1>6, <1>9, <1>10 DEF TypeOK, JobType
<1> QED
  BY <1>11, <1>12, <1>13, <1>14 DEF TypeOK

(* What every received result changes keeps its type.                       *)
LEMMA TakeResultTyped ==
  ASSUME TypeOK, donec # <<>>, TakeResult(Head(donec))
  PROVE  /\ Head(donec) \in Result
         /\ donec' \in Seq(Result) /\ Len(donec') <= Concurrency
         /\ done' \in [Job -> BOOLEAN] /\ err' \in [Job -> Err]
         /\ pending' \in Int /\ ongoing' \in Int
<1>1. Head(donec) \in Result /\ donec \in Seq(Result)
  BY DEF TypeOK, CallerType, ChannelType, LoopType, JobType, WorkerType
<1>2. Tail(donec) \in Seq(Result) /\ Len(Tail(donec)) <= Concurrency
  BY <1>1, ConcurrencyType
  DEF TypeOK, CallerType, ChannelType, LoopType, JobType, WorkerType
<1> QED
  BY <1>1, <1>2
  DEF TypeOK, CallerType, ChannelType, LoopType, JobType, WorkerType,
      TakeResult, Result

LEMMA CollectAndQuitTyped == TypeOK /\ CollectAndQuit => TypeOK'
<1> SUFFICES ASSUME TypeOK, CollectAndQuit PROVE TypeOK'
  OBVIOUS
<1>1. /\ Head(donec) \in Result
      /\ donec' \in Seq(Result) /\ Len(donec') <= Concurrency
      /\ done' \in [Job -> BOOLEAN] /\ err' \in [Job -> Err]
      /\ pending' \in Int /\ ongoing' \in Int
  BY TakeResultTyped DEF CollectAndQuit
<1> QED
  BY <1>1
  DEF TypeOK, CallerType, ChannelType, LoopType, JobType, WorkerType,
      CollectAndQuit, Result, callerVars, workerVars

LEMMA CollectTyped == TypeOK /\ Collect => TypeOK'
<1> SUFFICES ASSUME TypeOK, Collect PROVE TypeOK'
  OBVIOUS
<1> DEFINE job == Head(donec).job
<1>1. /\ Head(donec) \in Result
      /\ donec' \in Seq(Result) /\ Len(donec') <= Concurrency
      /\ done' \in [Job -> BOOLEAN] /\ err' \in [Job -> Err]
      /\ pending' \in Int /\ ongoing' \in Int
  BY TakeResultTyped DEF Collect
<1>2. job \in Job
  BY <1>1 DEF Result
<1>3. consumers[job] \in Seq(Job)
  BY <1>2 DEF TypeOK, CallerType, ChannelType, LoopType, JobType, WorkerType
<1>4. remaining' \in [Job -> Int]
  <2>1. \A c \in Job : Count(c, consumers[job]) \in Int
    BY <1>3, OccurrencesFinite
  <2> QED
    BY <2>1
    DEF TypeOK, CallerType, ChannelType, LoopType, JobType, WorkerType,
        Collect, Notified
<1>5. Released(job) \subseteq Job
  BY <1>3, MembersType DEF Released
<1>6. Cardinality(Released(job)) \in Int
  BY <1>5, JobAssumption, FS_Subset, FS_CardinalityType
<1>7. ready' \in Seq(Job)
  <2>1. PICK q \in ReleaseOrders(Released(job), consumers[job]) :
               ready' = ready \o q
    BY DEF Collect
  <2>2. q \in Seq(Job)
    BY <1>5, <2>1, ReleaseOrdersType
  <2> QED
    BY <2>1, <2>2
    DEF TypeOK, CallerType, ChannelType, LoopType, JobType, WorkerType
<1>8. waiting' \in Int
  BY <1>6
  DEF TypeOK, CallerType, ChannelType, LoopType, JobType, WorkerType, Collect
<1>9. schedErr' \subseteq Job
  BY <1>2
  DEF TypeOK, CallerType, ChannelType, LoopType, JobType, WorkerType, Collect,
      Combine
<1>10. invalid' \in [Job -> BOOLEAN]
  BY DEF TypeOK, CallerType, ChannelType, LoopType, JobType, WorkerType,
      Collect, Invalidate
<1>11. loop' \in {"select", "draining", "exited"}
  BY DEF Collect, AfterSelect
<1> QED
  BY <1>1, <1>4, <1>7, <1>8, <1>9, <1>10, <1>11
 
  DEF TypeOK, CallerType, ChannelType, LoopType, JobType, WorkerType, Collect,
      callerVars, workerVars

LEMMA LoopTyped == TypeOK /\ Loop => TypeOK'
<1> SUFFICES ASSUME TypeOK, Loop PROVE TypeOK'
  OBVIOUS
<1>1. ASSUME NEW w \in Worker, Dispatch(w) PROVE TypeOK'
  BY <1>1, DispatchTyped
<1>2. CASE Admit
  BY <1>2, AdmitTyped
<1>3. CASE StopAccepting
  BY <1>3
  DEF TypeOK, CallerType, ChannelType, LoopType, JobType, WorkerType,
      StopAccepting, AfterSelect, callerVars, jobVars, workerVars
<1>4. CASE CollectAndQuit
  BY <1>4, CollectAndQuitTyped
<1>5. CASE Collect
  BY <1>5, CollectTyped
<1>6. CASE Emit
  <2>1. IdleWorkers(Concurrency, ongoing) \in Int /\ Len(ready) \in Int
    BY ConcurrencyType
    DEF TypeOK, CallerType, ChannelType, LoopType, JobType, WorkerType,
        IdleWorkers
  <2>2. emitted' \in StateReport
    BY <1>6, <2>1, ConcurrencyType
    DEF TypeOK, CallerType, ChannelType, LoopType, JobType, WorkerType, Emit,
        StateReport
  <2> QED
    BY <1>6, <2>2
   
    DEF TypeOK, CallerType, ChannelType, LoopType, JobType, WorkerType, Emit,
        AfterSelect, callerVars, jobVars, workerVars
<1>7. CASE Drain
  <2>1. Tail(enqueuec) \in Seq(Job) /\ Len(Tail(enqueuec)) <= 1
    BY <1>7
    DEF TypeOK, CallerType, ChannelType, LoopType, JobType, WorkerType, Drain
  <2> QED
    BY <1>7, <2>1
    DEF TypeOK, CallerType, ChannelType, LoopType, JobType, WorkerType, Drain,
        callerVars, loopVars, jobVars, workerVars
<1>8. CASE ExitLoop
  BY <1>8
  DEF TypeOK, CallerType, ChannelType, LoopType, JobType, WorkerType, ExitLoop,
      callerVars, jobVars, workerVars
<1> QED
  BY <1>1, <1>2, <1>3, <1>4, <1>5, <1>6, <1>7, <1>8 DEF Loop

LEMMA WorkerTyped ==
  ASSUME TypeOK, HandsFull, NEW w \in Worker, WorkerStep(w)
  PROVE  TypeOK'
<1>1. CASE Begin(w)
  BY <1>1
  DEF TypeOK, CallerType, ChannelType, LoopType, JobType, WorkerType, Begin,
      Err, callerVars, loopVars, jobVars
<1>2. CASE Finish(w)
  BY <1>2
  DEF TypeOK, CallerType, ChannelType, LoopType, JobType, WorkerType, Finish,
      Err, callerVars, loopVars, jobVars
<1>3. CASE Post(w)
  <2>1. current[w] \in Job /\ outcome[w] \in Err
    BY <1>3
    DEF TypeOK, CallerType, ChannelType, LoopType, JobType, WorkerType,
        HandsFull, Busy, Post
  <2>2. [job |-> current[w], err |-> outcome[w]] \in Result
    BY <2>1 DEF Result
  <2>3. donec' \in Seq(Result) /\ Len(donec') <= Concurrency
    BY <1>3, <2>2, ConcurrencyType
    DEF TypeOK, CallerType, ChannelType, LoopType, JobType, WorkerType, Post,
        DonecCapacity
  <2>4. current' \in [Worker -> Job \union {NoJob}]
    BY <1>3
    DEF TypeOK, CallerType, ChannelType, LoopType, JobType, WorkerType, Post
  <2> QED
    BY <1>3, <2>3, <2>4
    DEF TypeOK, CallerType, ChannelType, LoopType, JobType, WorkerType, Post,
        Err, callerVars, loopVars, jobVars
<1>4. CASE ExitWorker(w)
  BY <1>4
  DEF TypeOK, CallerType, ChannelType, LoopType, JobType, WorkerType,
      ExitWorker, callerVars, loopVars, jobVars
<1> QED
  BY <1>1, <1>2, <1>3, <1>4 DEF WorkerStep

LEMMA HandsFullStep == TypeOK /\ HandsFull /\ [Next]_vars => HandsFull'
<1> SUFFICES ASSUME TypeOK, HandsFull, [Next]_vars PROVE HandsFull'
  OBVIOUS
<1> USE DEF HandsFull, Busy
<1>1. ASSUME NEW w \in Worker, Dispatch(w) PROVE HandsFull'
  <2>1. Head(ready) # NoJob
    BY <1>1, JobAssumption
    DEF TypeOK, CallerType, ChannelType, LoopType, JobType, WorkerType,
        Dispatch
  <2> QED
    BY <1>1, <2>1
    DEF TypeOK, CallerType, ChannelType, LoopType, JobType, WorkerType,
        Dispatch
<1>2. ASSUME NEW w \in Worker, WorkerStep(w) PROVE HandsFull'
  BY <1>2
  DEF TypeOK, CallerType, ChannelType, LoopType, JobType, WorkerType,
      WorkerStep, Begin, Finish, Post, ExitWorker
<1>3. ASSUME UNCHANGED workerVars PROVE HandsFull'
  BY <1>3 DEF workerVars
<1>4. CASE Caller \/ CancelCtx
  BY <1>3, <1>4
  DEF Caller, Enqueue, CallWait, ReturnFinished, ReturnCtx, CancelCtx
<1>5. CASE Admit \/ StopAccepting \/ CollectAndQuit \/ Collect \/ Emit \/ Drain
             \/ ExitLoop
  BY <1>3, <1>5
  DEF Admit, StopAccepting, CollectAndQuit, Collect, Emit, Drain, ExitLoop
<1>6. CASE Terminated \/ UNCHANGED vars
  BY <1>3, <1>6 DEF Terminated, vars
<1> QED
  BY <1>1, <1>2, <1>4, <1>5, <1>6 DEF Next, Loop

LEMMA TypedStep == TypeOK /\ HandsFull /\ [Next]_vars => TypeOK'
<1> SUFFICES ASSUME TypeOK, HandsFull, [Next]_vars PROVE TypeOK'
  OBVIOUS
<1>1. CASE Caller
  BY <1>1, CallerTyped
<1>2. CASE CancelCtx
  BY <1>2, CancelTyped
<1>3. CASE Loop
  BY <1>3, LoopTyped
<1>4. ASSUME NEW w \in Worker, WorkerStep(w) PROVE TypeOK'
  BY <1>4, WorkerTyped
<1>5. CASE Terminated \/ UNCHANGED vars
  BY <1>5
  DEF Terminated, TypeOK, CallerType, ChannelType, LoopType, JobType,
      WorkerType, vars, callerVars, loopVars, jobVars, workerVars
<1> QED
  BY <1>1, <1>2, <1>3, <1>4, <1>5 DEF Next

(* In every state the variables have their types and the buffered channels  *)
(* respect their capacities.                                                *)
THEOREM TypeCorrect == Spec => []TypeOK
<1>1. Init => TypeOK /\ HandsFull
  BY InitTyped DEF Init, HandsFull, Busy
<1>2. TypeOK /\ HandsFull /\ [Next]_vars => (TypeOK /\ HandsFull)'
  BY TypedStep, HandsFullStep
<1> QED
  BY <1>1, <1>2, PTL DEF Spec

-----------------------------------------------------------------------------
(* The inductive invariant                                                 *)

(* Every job that is anywhere was created by Enqueue.                       *)
Known ==
    /\ Members(enqueuec) \union Members(ready) \union Held \union Reported
         \subseteq enqueued
    /\ \A j \in Job : done[j] => j \in enqueued

(* What the loop knows about the jobs it admitted is exact: it is a         *)
(* function of the jobs that are done.                                      *)
Bookkeeping ==
    /\ \A j \in Job \ Admitted : \A d \in Job : j \notin Members(consumers[d])
    /\ \A j \in Admitted :
         /\ remaining[j] = Cardinality(Outstanding(deps[j]))
         /\ \A d \in Job :
               ~done[d] => Count(j, consumers[d]) = Count(d, deps[j])
         /\ invalid[j] <=> BornInvalid(deps[j])
    /\ \A j \in Job : j \in Members(ready) \union Held \union Reported \/ done[j]
            => remaining[j] = 0

(* Jobs that run are not invalid.                                           *)
RunningValid ==
    \A w \in Worker : phase[w] = "running" => ~invalid[current[w]]

(* The invariant that is preserved by every step.                           *)
IInv ==
    /\ TypeOK /\ HandsFull
    /\ Known /\ OnePlace
    /\ loop = "select" => Bookkeeping
    /\ SettledVerdict /\ RunningValid

(* No member occurs twice.                                                  *)
Distinct(s) == \A a, b \in DOMAIN s : s[a] = s[b] => a = b

-----------------------------------------------------------------------------
(* Sequences as lists of jobs                                              *)

(* Appending adds one member, and keeps members distinct if it is new.      *)
LEMMA AppendMembers ==
  ASSUME NEW S, NEW s \in Seq(S), NEW x \in S
  PROVE  /\ Members(Append(s, x)) = Members(s) \union {x}
         /\ Distinct(s) /\ x \notin Members(s) => Distinct(Append(s, x))
<1>1. /\ DOMAIN Append(s, x) = 1..(Len(s) + 1)
      /\ DOMAIN s = 1..Len(s) /\ Len(s) \in Nat
      /\ \A i \in DOMAIN s : Append(s, x)[i] = s[i]
      /\ Append(s, x)[Len(s) + 1] = x
  BY AppendProperties
<1>2. \A i \in DOMAIN Append(s, x) : i \in DOMAIN s \/ i = Len(s) + 1
  BY <1>1
<1>3. Members(Append(s, x)) = Members(s) \union {x}
  BY <1>1, <1>2 DEF Members
<1>4. Distinct(s) /\ x \notin Members(s) => Distinct(Append(s, x))
  BY <1>1, <1>2 DEF Members, Distinct
<1> QED
  BY <1>3, <1>4

(* The tail loses the head, and nothing else of a list without repetition.  *)
LEMMA TailMembers ==
  ASSUME NEW S, NEW s \in Seq(S), s # <<>>
  PROVE  /\ Head(s) \in Members(s)
         /\ Members(s) = {Head(s)} \union Members(Tail(s))
         /\ Distinct(s) => Distinct(Tail(s)) /\ Head(s) \notin Members(Tail(s))
<1>1. /\ Len(s) \in Nat /\ Len(s) > 0 /\ DOMAIN s = 1..Len(s) /\ Head(s) = s[1]
      /\ DOMAIN Tail(s) = 1..(Len(s) - 1)
      /\ \A i \in 1..(Len(s) - 1) : Tail(s)[i] = s[i + 1]
  BY HeadTailProperties
<1>2. \A i \in DOMAIN Tail(s) : i + 1 \in DOMAIN s /\ i + 1 # 1
  BY <1>1
<1>3. \A i \in DOMAIN s : i = 1 \/ (i - 1 \in DOMAIN Tail(s) /\ (i - 1) + 1 = i)
  BY <1>1
<1>4. 1 \in DOMAIN s
  BY <1>1
<1>5. Head(s) \in Members(s)
  BY <1>1, <1>4 DEF Members
<1>6. Members(s) = {Head(s)} \union Members(Tail(s))
  <2>1. Members(s) \subseteq {Head(s)} \union Members(Tail(s))
    <3> SUFFICES ASSUME NEW i \in DOMAIN s
                 PROVE  s[i] \in {Head(s)} \union Members(Tail(s))
      BY DEF Members
    <3>1. CASE i = 1
      BY <3>1, <1>1
    <3>2. CASE i # 1
      <4>1. i - 1 \in DOMAIN Tail(s) /\ Tail(s)[i - 1] = s[i]
        BY <3>2, <1>1, <1>3
      <4> QED
        BY <4>1 DEF Members
    <3> QED
      BY <3>1, <3>2
  <2>2. Members(Tail(s)) \subseteq Members(s)
    BY <1>1, <1>2 DEF Members
  <2> QED
    BY <1>5, <2>1, <2>2
<1>7. Distinct(s) => Distinct(Tail(s)) /\ Head(s) \notin Members(Tail(s))
  <2> SUFFICES ASSUME Distinct(s)
               PROVE  Distinct(Tail(s)) /\ Head(s) \notin Members(Tail(s))
    OBVIOUS
  <2>1. Distinct(Tail(s))
    <3> SUFFICES ASSUME NEW a \in DOMAIN Tail(s), NEW b \in DOMAIN Tail(s),
                        Tail(s)[a] = Tail(s)[b]
                 PROVE  a = b
      BY DEF Distinct
    <3>1. s[a + 1] = s[b + 1] /\ a + 1 \in DOMAIN s /\ b + 1 \in DOMAIN s
      BY <1>1, <1>2
    <3>2. a + 1 = b + 1
      BY <3>1 DEF Distinct
    <3> QED
      BY <1>1, <3>2
  <2>2. Head(s) \notin Members(Tail(s))
    <3> SUFFICES ASSUME NEW i \in DOMAIN Tail(s), Tail(s)[i] = Head(s)
                 PROVE  FALSE
      BY DEF Members
    <3>1. s[i + 1] = s[1] /\ i + 1 \in DOMAIN s /\ i + 1 # 1
      BY <1>1, <1>2
    <3> QED
      BY <1>4, <3>1 DEF Distinct
  <2> QED
    BY <2>1, <2>2
<1> QED
  BY <1>5, <1>6, <1>7

(* Concatenating two disjoint lists adds up their members.                  *)
LEMMA ConcatMembers ==
  ASSUME NEW S, NEW s \in Seq(S), NEW t \in Seq(S)
  PROVE  /\ Members(s \o t) = Members(s) \union Members(t)
         /\ Distinct(s) /\ Distinct(t) /\ Members(s) \cap Members(t) = {}
               => Distinct(s \o t)
<1>1. /\ Len(s) \in Nat /\ Len(t) \in Nat
      /\ DOMAIN s = 1..Len(s) /\ DOMAIN t = 1..Len(t)
      /\ DOMAIN (s \o t) = 1..(Len(s) + Len(t))
      /\ \A i \in 1..(Len(s) + Len(t)) :
            (s \o t)[i] = IF i <= Len(s) THEN s[i] ELSE t[i - Len(s)]
  BY ConcatProperties
<1>2. \A i \in DOMAIN s : i \in DOMAIN (s \o t) /\ (s \o t)[i] = s[i]
  BY <1>1
<1>3. \A i \in DOMAIN t : /\ i + Len(s) \in DOMAIN (s \o t)
                          /\ (s \o t)[i + Len(s)] = t[i]
  <2> SUFFICES ASSUME NEW i \in DOMAIN t
               PROVE  /\ i + Len(s) \in DOMAIN (s \o t)
                      /\ (s \o t)[i + Len(s)] = t[i]
    OBVIOUS
  <2>1. i + Len(s) \in 1..(Len(s) + Len(t)) /\ ~(i + Len(s) <= Len(s))
        /\ (i + Len(s)) - Len(s) = i
    BY <1>1
  <2> QED
    BY <1>1, <2>1
<1>4. \A i \in DOMAIN (s \o t) :
         \/ i \in DOMAIN s
         \/ i - Len(s) \in DOMAIN t /\ (s \o t)[i] = t[i - Len(s)]
  BY <1>1
<1>5. Members(s \o t) = Members(s) \union Members(t)
  <2>1. ASSUME NEW i \in DOMAIN (s \o t)
        PROVE  (s \o t)[i] \in Members(s) \union Members(t)
    <3>1. i \in DOMAIN s => (s \o t)[i] \in Members(s)
      BY <1>2 DEF Members
    <3>2. i \notin DOMAIN s => (s \o t)[i] \in Members(t)
      BY <1>4 DEF Members
    <3> QED
      BY <3>1, <3>2
  <2>2. Members(s) \subseteq Members(s \o t)
    BY <1>2 DEF Members
  <2>3. ASSUME NEW i \in DOMAIN t PROVE t[i] \in Members(s \o t)
    BY <1>3 DEF Members
  <2>4. Members(s \o t) \subseteq Members(s) \union Members(t)
    BY <2>1 DEF Members
  <2>5. Members(t) \subseteq Members(s \o t)
    BY <2>3 DEF Members
  <2> QED
    BY <2>2, <2>4, <2>5
<1>6. ASSUME Distinct(s), Distinct(t), Members(s) \cap Members(t) = {}
      PROVE  Distinct(s \o t)
  <2> SUFFICES ASSUME NEW a \in DOMAIN (s \o t), NEW b \in DOMAIN (s \o t),
                      (s \o t)[a] = (s \o t)[b]
               PROVE  a = b
    BY DEF Distinct
  <2>1. CASE a \in DOMAIN s /\ b \in DOMAIN s
    BY <1>2, <1>6, <2>1 DEF Distinct
  <2>2. CASE a \notin DOMAIN s /\ b \notin DOMAIN s
    <3>1. a - Len(s) = b - Len(s)
      BY <1>4, <1>6, <2>2 DEF Distinct
    <3> QED
      BY <1>1, <3>1
  <2>3. CASE a \in DOMAIN s /\ b \notin DOMAIN s
    <3>1. s[a] \in Members(s) /\ s[a] \in Members(t)
      BY <1>2, <1>4, <2>3 DEF Members
    <3> QED
      BY <1>6, <3>1
  <2>4. CASE a \notin DOMAIN s /\ b \in DOMAIN s
    <3>1. s[b] \in Members(s) /\ s[b] \in Members(t)
      BY <1>2, <1>4, <2>4 DEF Members
    <3> QED
      BY <1>6, <3>1
  <2> QED
    BY <2>1, <2>2, <2>3, <2>4
<1> QED
  BY <1>5, <1>6

(* A job occurs in a list iff it is counted in it.                          *)
LEMMA CountZero ==
  ASSUME NEW S, NEW s \in Seq(S), NEW x
  PROVE  Count(x, s) = 0 <=> x \notin Members(s)
<1>1. Occurrences(x, s) = {} <=> x \notin Members(s)
  BY DEF Occurrences, Members
<1> QED
  BY <1>1, OccurrencesFinite, FS_EmptySet DEF Count

(* Appending n times job counts it n times and leaves the other counts.     *)
LEMMA CountSubscribed ==
  ASSUME NEW S, NEW s \in Seq(S), NEW job \in S, NEW n \in Nat
  PROVE  LET t == s \o [i \in 1..n |-> job]
         IN  /\ t \in Seq(S)
             /\ Members(t) \subseteq Members(s) \union {job}
             /\ \A c : c # job => Count(c, t) = Count(c, s)
             /\ job \notin Members(s) => Count(job, t) = n
<1> DEFINE u == [i \in 1..n |-> job]
           t == s \o u
<1>1. u \in Seq(S) /\ Len(u) = n /\ DOMAIN u = 1..n
  <2>1. u \in Seq(S)
    BY SeqDef
  <2> QED
    BY <2>1, LenProperties
<1>2. /\ t \in Seq(S)
      /\ Len(s) \in Nat /\ DOMAIN s = 1..Len(s)
      /\ DOMAIN t = 1..(Len(s) + n)
      /\ \A i \in 1..(Len(s) + n) :
            t[i] = IF i <= Len(s) THEN s[i] ELSE u[i - Len(s)]
  BY <1>1, ConcatProperties
<1>3. \A i \in DOMAIN t : i \notin DOMAIN s => t[i] = job
  BY <1>1, <1>2
<1>4. \A i \in DOMAIN s : i \in DOMAIN t /\ t[i] = s[i]
  BY <1>2
<1>5. Members(t) \subseteq Members(s) \union {job}
  BY <1>3, <1>4 DEF Members
<1>6. ASSUME NEW c, c # job PROVE Count(c, t) = Count(c, s)
  <2>1. Occurrences(c, t) = Occurrences(c, s)
    BY <1>3, <1>4, <1>6 DEF Occurrences
  <2> QED
    BY <2>1 DEF Count
<1>7. ASSUME job \notin Members(s) PROVE Count(job, t) = n
  <2>1. Occurrences(job, t) = (Len(s) + 1)..(Len(s) + n)
    <3>1. \A i \in DOMAIN t : t[i] = job <=> i \notin DOMAIN s
      BY <1>3, <1>4, <1>7 DEF Members
    <3> QED
      BY <1>2, <3>1 DEF Occurrences
  <2>2. Cardinality((Len(s) + 1)..(Len(s) + n)) = n
    <3>1. Len(s) + 1 \in Int /\ Len(s) + n \in Int
      BY <1>2
    <3>2. Cardinality((Len(s) + 1)..(Len(s) + n))
            = IF Len(s) + 1 > Len(s) + n THEN 0
              ELSE (Len(s) + n) - (Len(s) + 1) + 1
      BY <3>1, FS_Interval
    <3> QED
      BY <1>2, <3>2
  <2> QED
    BY <2>1, <2>2 DEF Count
<1> QED
  BY <1>2, <1>5, <1>6, <1>7

(* The order of release names each released job once.                       *)
LEMMA ReleaseOrdersMembers ==
  ASSUME NEW R \in SUBSET Job, NEW s \in Seq(Job), NEW q \in ReleaseOrders(R, s)
  PROVE  Members(q) = R /\ Distinct(q)
<1>1. /\ Members(q) = R
      /\ \A a, b \in DOMAIN q : a < b =>
            \E i \in Occurrences(q[b], s) :
               \A k \in Occurrences(q[a], s) : k < i
  BY DEF ReleaseOrders
<1>2. q \in Seq(Job)
  BY ReleaseOrdersType
<1>3. DOMAIN q = 1..Len(q) /\ Len(q) \in Nat /\ DOMAIN s = 1..Len(s)
      /\ Len(s) \in Nat
  BY <1>2
<1>4. \A a, b \in DOMAIN q : a < b => q[a] # q[b]
  <2> SUFFICES ASSUME NEW a \in DOMAIN q, NEW b \in DOMAIN q, a < b,
                      q[a] = q[b]
               PROVE  FALSE
    OBVIOUS
  <2>1. PICK i \in Occurrences(q[b], s) : \A k \in Occurrences(q[a], s) : k < i
    BY <1>1
  <2>2. i < i /\ i \in Nat
    BY <1>3, <2>1 DEF Occurrences
  <2> QED
    BY <2>2
<1>5. \A a, b \in DOMAIN q : a = b \/ a < b \/ b < a
  BY <1>3
<1> QED
  BY <1>1, <1>4, <1>5 DEF Distinct

-----------------------------------------------------------------------------
(* Where the jobs are                                                      *)

(* The busy workers are those that hold a job.                              *)
LEMMA HeldByBusy ==
  ASSUME TypeOK, HandsFull
  PROVE  /\ Held = {current[w] : w \in Busy}
         /\ Held \subseteq Job
         /\ \A w \in Worker : w \notin Busy => current[w] = NoJob
<1>1. Busy \subseteq Worker
  BY DEF Busy
<1>2. \A w \in Worker : w \in Busy <=> current[w] # NoJob
  BY DEF HandsFull
<1>3. Held = {current[w] : w \in Busy}
  BY <1>1, <1>2 DEF Held
<1>4. Held \subseteq Job
  BY DEF Held, TypeOK, WorkerType
<1> QED
  BY <1>2, <1>3, <1>4

(* enqueuec holds at most one job, so receiving from it empties it.         *)
LEMMA EnqueuecFront ==
  ASSUME TypeOK, enqueuec # <<>>
  PROVE  /\ Head(enqueuec) \in Job
         /\ Members(enqueuec) = {Head(enqueuec)}
         /\ Members(Tail(enqueuec)) = {}
<1>1. enqueuec \in Seq(Job) /\ Len(enqueuec) <= 1
  BY DEF TypeOK, ChannelType
<1>2. DOMAIN Tail(enqueuec) = {}
  BY <1>1, HeadTailProperties
<1>3. Members(Tail(enqueuec)) = {}
  BY <1>2 DEF Members
<1>4. Head(enqueuec) \in Job
  BY <1>1, HeadTailProperties
<1> QED
  BY <1>1, <1>3, <1>4, TailMembers

(* Receiving a result takes its job, and no other, out of donec.            *)
LEMMA DonecFront ==
  ASSUME TypeOK, OnePlace, donec # <<>>
  PROVE  LET job == Head(donec).job
             tail == Tail(donec)
         IN  /\ Head(donec) \in Result /\ job \in Job
             /\ job \in Reported
             /\ {tail[i].job : i \in DOMAIN tail} = Reported \ {job}
             /\ \A a, b \in DOMAIN tail : tail[a].job = tail[b].job => a = b
<1> DEFINE job == Head(donec).job
           tail == Tail(donec)
<1>1. donec \in Seq(Result)
  BY DEF TypeOK, ChannelType
<1>2. /\ Len(donec) \in Nat /\ Len(donec) > 0 /\ DOMAIN donec = 1..Len(donec)
      /\ Head(donec) = donec[1] /\ Head(donec) \in Result
      /\ DOMAIN tail = 1..(Len(donec) - 1)
      /\ \A i \in 1..(Len(donec) - 1) : tail[i] = donec[i + 1]
  BY <1>1, HeadTailProperties
<1>3. \A i \in DOMAIN tail :
         i + 1 \in DOMAIN donec /\ i + 1 # 1 /\ tail[i] = donec[i + 1]
  BY <1>2
<1>4. \A i \in DOMAIN donec :
         i = 1 \/ (i - 1 \in DOMAIN tail /\ tail[i - 1] = donec[i])
  <2> SUFFICES ASSUME NEW i \in DOMAIN donec, i # 1
               PROVE  i - 1 \in DOMAIN tail /\ tail[i - 1] = donec[i]
    OBVIOUS
  <2>1. i - 1 \in 1..(Len(donec) - 1) /\ (i - 1) + 1 = i
    BY <1>2
  <2> QED
    BY <1>2, <2>1
<1>5. 1 \in DOMAIN donec
  BY <1>2
<1>6. \A a, b \in DOMAIN donec : donec[a].job = donec[b].job => a = b
  BY DEF OnePlace
<1>7. job \in Reported /\ job \in Job
  BY <1>2, <1>5 DEF Reported, Result
<1>8. \A i \in DOMAIN tail : tail[i].job \in Reported \ {job}
  BY <1>2, <1>3, <1>5, <1>6 DEF Reported
<1>9. \A i \in DOMAIN donec :
         donec[i].job # job => donec[i].job \in {tail[k].job : k \in DOMAIN tail}
  BY <1>2, <1>4
<1>10. {tail[i].job : i \in DOMAIN tail} = Reported \ {job}
  <2>1. Reported \ {job} \subseteq {tail[i].job : i \in DOMAIN tail}
    BY <1>9 DEF Reported
  <2> QED
    BY <1>8, <2>1
<1>11. ASSUME NEW a \in DOMAIN tail, NEW b \in DOMAIN tail,
              tail[a].job = tail[b].job
       PROVE  a = b
  <2>1. a + 1 = b + 1
    BY <1>3, <1>6, <1>11
  <2> QED
    BY <1>2, <2>1
<1> QED
  BY <1>2, <1>7, <1>10, <1>11

-----------------------------------------------------------------------------
(* No job is in two places: one lemma per step that moves a job            *)

(* Where the jobs are.                                                      *)
Placed == Known /\ OnePlace

(* A new job is nowhere yet when Enqueue sends it.                          *)
LEMMA EnqueuePlaced ==
  ASSUME IInv, NEW j \in Job, Enqueue(j)
  PROVE  /\ Placed'
         /\ Members(enqueuec') = Members(enqueuec) \union {j}
         /\ enqueued' = enqueued \union {j} /\ j \notin enqueued
<1> USE DEF IInv
<1>1. /\ enqueued' = enqueued \union {j} /\ j \notin enqueued
      /\ enqueuec' = Append(enqueuec, j)
      /\ UNCHANGED <<ready, donec, done, current, phase>>
  BY DEF Enqueue, loopVars, jobVars, workerVars
<1>2. Members(enqueuec') = Members(enqueuec) \union {j}
  BY <1>1, AppendMembers DEF TypeOK, ChannelType
<1>3. /\ Members(ready)' = Members(ready) /\ Held' = Held /\ Busy' = Busy
      /\ Reported' = Reported /\ Members(enqueuec)' = Members(enqueuec')
  BY <1>1 DEF Members, Held, Busy, Reported
<1>4. Known'
  BY <1>1, <1>2, <1>3 DEF Known
<1>5. OnePlace'
  BY <1>1, <1>2, <1>3 DEF Known, OnePlace
<1> QED
  BY <1>1, <1>2, <1>4, <1>5 DEF Placed

(* The front of the ready list moves to one idle worker.                    *)
LEMMA DispatchPlaced ==
  ASSUME IInv, NEW w \in Worker, Dispatch(w)
  PROVE  /\ Placed'
         /\ Members(ready') \union Held' = Members(ready) \union Held
         /\ Held' = Held \union {Head(ready)}
<1> USE DEF IInv
<1> DEFINE job == Head(ready)
<1>1. /\ ready # <<>> /\ phase[w] = "idle"
      /\ phase' = [phase EXCEPT ![w] = "got"]
      /\ current' = [current EXCEPT ![w] = job]
      /\ ready' = Tail(ready)
      /\ UNCHANGED <<enqueued, enqueuec, donec, done>>
  BY DEF Dispatch, WithoutFront, callerVars, jobVars
<1>2. ready \in Seq(Job) /\ phase \in [Worker -> {"idle", "got", "running", "posting", "exited"}]
      /\ current \in [Worker -> Job \union {NoJob}]
  BY DEF TypeOK, LoopType, WorkerType
<1>3. Distinct(ready)
  BY DEF OnePlace, Distinct
<1>4. /\ job \in Members(ready)
      /\ Members(ready) = {job} \union Members(ready')
      /\ Distinct(ready') /\ job \notin Members(ready')
  BY <1>1, <1>2, <1>3, TailMembers
<1>5. job \in Job /\ job # NoJob
  BY <1>1, <1>2, HeadTailProperties, JobAssumption
<1>6. w \notin Busy /\ current[w] = NoJob
  BY <1>1, HeldByBusy DEF Busy
<1>7. Held' = Held \union {job}
  BY <1>1, <1>2, <1>5, <1>6 DEF Held
<1>8. Busy' = Busy \union {w}
  BY <1>1, <1>2 DEF Busy
<1>9. Members(ready)' = Members(ready') /\ Members(enqueuec)' = Members(enqueuec)
      /\ Reported' = Reported
  BY <1>1 DEF Members, Reported
<1>10. Known'
  BY <1>1, <1>4, <1>7, <1>9 DEF Known
<1>11. \A u, v \in Busy' : current'[u] = current'[v] => u = v
  <2>1. \A u \in Busy : current'[u] = current[u] /\ current[u] \in Held
    BY <1>1, <1>2, <1>6, HeldByBusy DEF Busy
  <2>2. current'[w] = job /\ job \notin Held
    BY <1>1, <1>2, <1>4 DEF OnePlace
  <2>3. \A u, v \in Busy : current[u] = current[v] => u = v
    BY DEF OnePlace
  <2> QED
    BY <1>8, <2>1, <2>2, <2>3
<1>12. OnePlace'
  BY <1>1, <1>4, <1>7, <1>9, <1>11 DEF OnePlace, Distinct
<1> QED
  BY <1>4, <1>7, <1>10, <1>12 DEF Placed

(* A worker's job moves to donec.                                           *)
LEMMA PostPlaced ==
  ASSUME IInv, NEW w \in Worker, Post(w)
  PROVE  /\ Placed'
         /\ Held' \subseteq Held
         /\ Held' \union Reported' = Held \union Reported
<1> USE DEF IInv
<1> DEFINE job == current[w]
           res == [job |-> job, err |-> outcome[w]]
<1>1. /\ phase[w] = "posting"
      /\ donec' = Append(donec, res)
      /\ phase' = [phase EXCEPT ![w] = "idle"]
      /\ current' = [current EXCEPT ![w] = NoJob]
      /\ UNCHANGED <<enqueued, enqueuec, ready, done>>
  BY DEF Post, callerVars, loopVars, jobVars
<1>2. /\ phase \in [Worker -> {"idle", "got", "running", "posting", "exited"}]
      /\ current \in [Worker -> Job \union {NoJob}]
      /\ outcome \in [Worker -> Err] /\ donec \in Seq(Result)
  BY DEF TypeOK, ChannelType, WorkerType
<1>3. w \in Busy /\ job # NoJob /\ job \in Job
  BY <1>1, <1>2 DEF HandsFull, Busy
<1>4. res \in Result /\ res.job = job
  BY <1>2, <1>3 DEF Result
<1>5. /\ DOMAIN donec' = 1..(Len(donec) + 1)
      /\ DOMAIN donec = 1..Len(donec) /\ Len(donec) \in Nat
      /\ \A i \in DOMAIN donec : donec'[i] = donec[i]
      /\ donec'[Len(donec) + 1] = res
  BY <1>1, <1>2, <1>4, AppendProperties
<1>6. \A i \in DOMAIN donec' : i \in DOMAIN donec \/ i = Len(donec) + 1
  BY <1>5
<1>7. Reported' = Reported \union {job}
  <2>1. \A i \in DOMAIN donec' : donec'[i].job \in Reported \union {job}
    BY <1>4, <1>5, <1>6 DEF Reported
  <2>2. job \in Reported'
    BY <1>4, <1>5 DEF Reported
  <2>3. \A i \in DOMAIN donec : donec[i].job \in Reported' /\ i \in DOMAIN donec'
    BY <1>5 DEF Reported
  <2> QED
    BY <2>1, <2>2, <2>3 DEF Reported
<1>8. job \notin Reported
  BY <1>3, HeldByBusy DEF OnePlace
<1>9. Busy' = Busy \ {w}
  BY <1>1, <1>2 DEF Busy
<1>10. Held' = Held \ {job}
  <2>1. \A v \in Worker : v # w => current'[v] = current[v]
    BY <1>1, <1>2
  <2>2. current'[w] = NoJob
    BY <1>1, <1>2
  <2>3. \A v \in Worker : current[v] = job => v = w
    BY <1>3, HeldByBusy, JobAssumption DEF OnePlace
  <2> QED
    BY <1>3, <2>1, <2>2, <2>3 DEF Held
<1>11. Members(ready)' = Members(ready) /\ Members(enqueuec)' = Members(enqueuec)
  BY <1>1 DEF Members
<1>12. job \in Held
  BY <1>3 DEF Held
<1>13. Known'
  BY <1>1, <1>7, <1>10, <1>11, <1>12 DEF Known
<1>14. \A u, v \in Busy' : current'[u] = current'[v] => u = v
  BY <1>1, <1>2, <1>9 DEF OnePlace, Busy
<1>15. \A a, b \in DOMAIN donec' : donec'[a].job = donec'[b].job => a = b
  <2>1. \A i \in DOMAIN donec : donec'[i].job # job
    BY <1>5, <1>8 DEF Reported
  <2>2. \A a, b \in DOMAIN donec : donec'[a].job = donec'[b].job => a = b
    BY <1>5 DEF OnePlace
  <2> QED
    BY <1>4, <1>5, <1>6, <2>1, <2>2
<1>16. OnePlace'
  BY <1>1, <1>7, <1>10, <1>11, <1>12, <1>14, <1>15 DEF OnePlace
<1> QED
  BY <1>7, <1>10, <1>12, <1>13, <1>16 DEF Placed

(* The deferred drain of the loop throws away what it receives.             *)
LEMMA DrainPlaced == IInv /\ Drain => Placed'
<1> SUFFICES ASSUME IInv, Drain PROVE Placed'
  OBVIOUS
<1> USE DEF IInv
<1>1. /\ enqueuec # <<>> /\ enqueuec' = Tail(enqueuec)
      /\ UNCHANGED <<enqueued, ready, donec, done, current, phase>>
  BY DEF Drain, callerVars, loopVars, jobVars, workerVars
<1>2. Members(enqueuec') = {}
  BY <1>1, EnqueuecFront
<1>3. /\ Members(ready)' = Members(ready) /\ Held' = Held /\ Busy' = Busy
      /\ Reported' = Reported /\ Members(enqueuec)' = Members(enqueuec')
  BY <1>1 DEF Members, Held, Busy, Reported
<1>4. Known'
  BY <1>1, <1>2, <1>3 DEF Known
<1>5. OnePlace'
  BY <1>1, <1>2, <1>3 DEF OnePlace
<1> QED
  BY <1>4, <1>5 DEF Placed

(* The admitted job leaves enqueuec for the ready list or to wait.          *)
LEMMA AdmitPlaced ==
  ASSUME IInv, Admit
  PROVE  LET job == Head(enqueuec)
         IN  /\ Placed'
             /\ job \in Job /\ job \in enqueued /\ job \notin Admitted
             /\ Admitted' = Admitted \union {job}
             /\ job \notin Held \union Reported /\ ~done[job]
             /\ Members(ready') \subseteq Members(ready) \union {job}
             /\ job \notin Members(ready)
             /\ job \in Members(ready') => Outstanding(deps[job]) = {}
<1> USE DEF IInv
<1> DEFINE job == Head(enqueuec)
<1>1. /\ enqueuec # <<>> /\ enqueuec' = Tail(enqueuec)
      /\ UNCHANGED <<enqueued, donec, done, current, phase>>
      /\ \/ ready' = Append(ready, job) /\ Outstanding(deps[job]) = {}
         \/ ready' = ready
  BY DEF Admit, callerVars, workerVars
<1>2. /\ job \in Job /\ Members(enqueuec) = {job} /\ Members(enqueuec') = {}
  BY <1>1, EnqueuecFront
<1>3. /\ Held' = Held /\ Busy' = Busy /\ Reported' = Reported
      /\ Members(enqueuec)' = Members(enqueuec')
      /\ Members(ready)' = Members(ready')
  BY <1>1 DEF Members, Held, Busy, Reported
<1>4. job \in enqueued /\ job \notin Members(ready) \union Held \union Reported
      /\ ~done[job]
  BY <1>2 DEF Known, OnePlace
<1>5. Admitted' = Admitted \union {job} /\ job \notin Admitted
  BY <1>1, <1>2, <1>3, <1>4 DEF Admitted
<1>6. ready \in Seq(Job) /\ Distinct(ready)
  BY DEF TypeOK, LoopType, OnePlace, Distinct
<1>7. /\ Members(ready') \subseteq Members(ready) \union {job}
      /\ Distinct(ready')
      /\ job \in Members(ready') => Outstanding(deps[job]) = {}
  <2>1. CASE ready' = ready
    BY <1>4, <1>6, <2>1
  <2>2. CASE ready' = Append(ready, job) /\ Outstanding(deps[job]) = {}
    <3> HIDE DEF job
    <3>1. /\ Members(ready') = Members(ready) \union {job}
          /\ Distinct(ready')
      BY <1>2, <1>4, <1>6, <2>2, AppendMembers
    <3> QED
      BY <2>2, <3>1
  <2> QED
    BY <1>1, <2>1, <2>2
<1>8. Known'
  BY <1>1, <1>2, <1>3, <1>4, <1>7 DEF Known
<1>9. OnePlace'
  BY <1>1, <1>2, <1>3, <1>4, <1>7 DEF OnePlace, Distinct
<1> QED
  BY <1>2, <1>4, <1>5, <1>7, <1>8, <1>9 DEF Placed

-----------------------------------------------------------------------------
(* What the loop knows                                                     *)

(* A job that is ready, held, reported or done waits for nothing, so it is  *)
(* not among the consumers of a job that is not done.                       *)
LEMMA SettledNotNotified ==
  ASSUME TypeOK, Placed, Bookkeeping, NEW j \in Job, NEW d \in Job, ~done[d],
         j \in Members(ready) \union Held \union Reported \/ done[j]
  PROVE  /\ j \in Admitted
         /\ Outstanding(deps[j]) = {}
         /\ d \notin Members(deps[j])
         /\ Count(j, consumers[d]) = 0
         /\ j \notin Members(consumers[d])
<1> USE DEF Placed
<1>1. j \in Admitted
  BY DEF Known, OnePlace, Admitted
<1>2. deps[j] \in Seq(Job) /\ consumers[d] \in Seq(Job)
  BY DEF TypeOK, CallerType, JobType
<1>3. Cardinality(Outstanding(deps[j])) = 0
  BY <1>1 DEF Bookkeeping
<1>4. Outstanding(deps[j]) = {}
  BY <1>2, <1>3, OutstandingFinite, FS_EmptySet
<1>5. d \notin Members(deps[j])
  BY <1>4 DEF Outstanding, Members
<1>6. Count(d, deps[j]) = 0
  BY <1>2, <1>5, CountZero
<1>7. Count(j, consumers[d]) = 0
  BY <1>1, <1>6 DEF Bookkeeping
<1> QED
  BY <1>1, <1>2, <1>4, <1>5, <1>7, CountZero

(* Exact bookkeeping gives a ready job its verdict.                         *)
LEMMA BookkeepingSettles == TypeOK /\ Placed /\ Bookkeeping => SettledVerdict
<1> SUFFICES ASSUME TypeOK, Placed, Bookkeeping,
                    NEW j \in Members(ready) \union Held
             PROVE  /\ \A i \in DOMAIN deps[j] : done[deps[j][i]]
                    /\ invalid[j] <=>
                         \E i \in DOMAIN deps[j] : err[deps[j][i]] # "none"
  BY DEF SettledVerdict
<1>1. j \in Job /\ j \in Admitted /\ remaining[j] = 0
  BY DEF Placed, Known, OnePlace, Admitted, Bookkeeping, TypeOK, CallerType
<1>2. deps[j] \in Seq(Job)
  BY <1>1 DEF TypeOK, CallerType
<1>3. Cardinality(Outstanding(deps[j])) = 0
  BY <1>1 DEF Bookkeeping
<1>4. Outstanding(deps[j]) = {}
  BY <1>2, <1>3, OutstandingFinite, FS_EmptySet
<1>5. \A i \in DOMAIN deps[j] : done[deps[j][i]]
  BY <1>4 DEF Outstanding
<1>6. invalid[j] <=> \E i \in DOMAIN deps[j] :
                        done[deps[j][i]] /\ err[deps[j][i]] # "none"
  BY <1>1 DEF Bookkeeping, BornInvalid
<1> QED
  BY <1>5, <1>6

(* Admitting a job subscribes it to its unfinished dependencies.            *)
LEMMA AdmitBooked ==
  ASSUME IInv, Admit
  PROVE  Bookkeeping'
<1> USE DEF IInv
<1> DEFINE job == Head(enqueuec)
           ds  == deps[job]
<1>1. /\ Placed'
      /\ job \in Job /\ job \in enqueued /\ job \notin Admitted
      /\ Admitted' = Admitted \union {job}
      /\ job \notin Held \union Reported /\ ~done[job]
      /\ Members(ready') \subseteq Members(ready) \union {job}
      /\ job \in Members(ready') => Outstanding(ds) = {}
  BY AdmitPlaced
<1>2. /\ consumers' = Subscribe(job, ds)
      /\ remaining' = [remaining EXCEPT ![job] = Cardinality(Outstanding(ds))]
      /\ invalid' = [invalid EXCEPT ![job] = BornInvalid(ds)]
      /\ UNCHANGED <<deps, done, err, donec, current, phase>>
  BY DEF Admit, callerVars, workerVars
<1>3. Bookkeeping
  BY DEF Admit
<1>4. /\ deps \in [Job -> Seq(Job)] /\ consumers \in [Job -> Seq(Job)]
      /\ remaining \in [Job -> Int] /\ invalid \in [Job -> BOOLEAN]
      /\ Admitted \subseteq Job
  BY DEF TypeOK, CallerType, JobType, Admitted
<1>5. /\ \A j \in Job : Outstanding(deps[j])' = Outstanding(deps[j])
      /\ \A j \in Job : BornInvalid(deps[j])' = BornInvalid(deps[j])
      /\ \A j, d \in Job : Count(d, deps[j])' = Count(d, deps[j])
      /\ Held' = Held /\ Reported' = Reported
      /\ Members(ready)' = Members(ready')
  BY <1>2 DEF Outstanding, BornInvalid, Count, Occurrences, Held, Reported,
              Members
<1>6. \A d \in Job : job \notin Members(consumers[d])
  BY <1>1, <1>3 DEF Bookkeeping
<1>7. ASSUME NEW d \in Job
      PROVE  /\ Members(consumers'[d]) \subseteq Members(consumers[d]) \union {job}
             /\ \A c \in Job : c # job =>
                   Count(c, consumers'[d]) = Count(c, consumers[d])
             /\ ~done[d] => Count(job, consumers'[d]) = Count(d, ds)
  <2>1. Count(d, ds) \in Nat
    BY <1>1, <1>4, OccurrencesFinite
  <2>2. consumers[d] \in Seq(Job)
    BY <1>4
  <2>3. consumers'[d] = IF done[d] THEN consumers[d]
                        ELSE consumers[d] \o [i \in 1..Count(d, ds) |-> job]
    BY <1>2 DEF Subscribe
  <2>4. CASE done[d]
    BY <2>3, <2>4
  <2>5. CASE ~done[d]
    <3>1. consumers'[d] = consumers[d] \o [i \in 1..Count(d, ds) |-> job]
      BY <2>3, <2>5
    <3> HIDE DEF job, ds
    <3> QED
      BY <1>1, <1>6, <2>1, <2>2, <3>1, CountSubscribed
  <2> QED
    BY <2>4, <2>5
<1>8. \A j, d \in Job : /\ Members(consumers[d])' = Members(consumers'[d])
                        /\ Count(j, consumers[d])' = Count(j, consumers'[d])
  BY DEF Members, Count, Occurrences
<1> HIDE DEF job, ds
<1>9. ASSUME NEW j \in Job, j \notin Admitted', NEW d \in Job
      PROVE  j \notin Members(consumers[d])'
  BY <1>1, <1>3, <1>7, <1>8, <1>9 DEF Bookkeeping
<1>10. ASSUME NEW j \in Admitted'
       PROVE  /\ remaining'[j] = Cardinality(Outstanding(deps[j])')
              /\ \A d \in Job : ~done'[d] =>
                    Count(j, consumers[d])' = Count(d, deps[j])'
              /\ invalid'[j] <=> BornInvalid(deps[j])'
  <2>1. CASE j = job
    <3>1. remaining'[j] = Cardinality(Outstanding(deps[j])')
      BY <1>1, <1>2, <1>4, <1>5, <2>1 DEF ds
    <3>2. \A d \in Job : ~done'[d] =>
             Count(j, consumers[d])' = Count(d, deps[j])'
      BY <1>1, <1>2, <1>5, <1>7, <1>8, <2>1 DEF ds
    <3>3. invalid'[j] <=> BornInvalid(deps[j])'
      BY <1>1, <1>2, <1>4, <1>5, <2>1 DEF ds
    <3> QED
      BY <3>1, <3>2, <3>3
  <2>2. CASE j # job
    <3>1. j \in Admitted /\ j \in Job
      BY <1>1, <1>4, <2>2
    <3>2. remaining'[j] = Cardinality(Outstanding(deps[j])')
      BY <1>2, <1>3, <1>4, <1>5, <2>2, <3>1 DEF Bookkeeping
    <3>3. \A d \in Job : ~done'[d] =>
             Count(j, consumers[d])' = Count(d, deps[j])'
      BY <1>2, <1>3, <1>5, <1>7, <1>8, <2>2, <3>1 DEF Bookkeeping
    <3>4. invalid'[j] <=> BornInvalid(deps[j])'
      BY <1>2, <1>3, <1>4, <1>5, <2>2, <3>1 DEF Bookkeeping
    <3> QED
      BY <3>2, <3>3, <3>4
  <2> QED
    BY <2>1, <2>2
<1>11. ASSUME NEW j \in Job,
              \/ j \in Members(ready)' \union Held' \union Reported'
              \/ done'[j]
       PROVE  remaining'[j] = 0
  <2>1. CASE j = job
    <3>1. Outstanding(ds) = {}
      BY <1>1, <1>2, <1>5, <1>11, <2>1
    <3>2. Cardinality(Outstanding(ds)) = 0
      BY <3>1, FS_EmptySet
    <3> QED
      BY <1>1, <1>2, <1>4, <2>1, <3>2
  <2>2. CASE j # job
    BY <1>1, <1>2, <1>3, <1>4, <1>5, <1>11, <2>2 DEF Bookkeeping
  <2> QED
    BY <2>1, <2>2
<1> QED
  BY <1>9, <1>10, <1>11 DEF Bookkeeping

(* A received result moves its job from donec to the jobs that are done.    *)
LEMMA TakeResultMoves ==
  ASSUME IInv, donec # <<>>, TakeResult(Head(donec)),
         UNCHANGED <<enqueued, enqueuec, current, phase>>
  PROVE  LET res == Head(donec)
             job == res.job
         IN  /\ res \in Result /\ job \in Job /\ job \in enqueued
             /\ job \in Reported /\ ~done[job]
             /\ job \notin Members(enqueuec) \union Members(ready) \union Held
             /\ Reported' = Reported \ {job}
             /\ \A a, b \in DOMAIN donec' : donec'[a].job = donec'[b].job => a = b
             /\ \A j \in Job : done'[j] <=> done[j] \/ j = job
             /\ \A j \in Job : j # job => err'[j] = err[j]
             /\ err'[job] = res.err
             /\ Held' = Held /\ Busy' = Busy
             /\ Members(enqueuec)' = Members(enqueuec) /\ Admitted' = Admitted
<1> USE DEF IInv
<1> DEFINE res == Head(donec)
           job == res.job
<1>1. /\ donec' = Tail(donec)
      /\ done' = [done EXCEPT ![job] = TRUE]
      /\ err' = [err EXCEPT ![job] = res.err]
  BY DEF TakeResult
<1>2. /\ res \in Result /\ job \in Job /\ job \in Reported
      /\ {Tail(donec)[i].job : i \in DOMAIN Tail(donec)} = Reported \ {job}
      /\ \A a, b \in DOMAIN Tail(donec) :
            Tail(donec)[a].job = Tail(donec)[b].job => a = b
  BY DonecFront
<1>3. done \in [Job -> BOOLEAN] /\ err \in [Job -> Err]
  BY DEF TypeOK, JobType
<1>4. Reported' = Reported \ {job}
  BY <1>1, <1>2 DEF Reported
<1>5. /\ job \in enqueued /\ ~done[job]
      /\ job \notin Members(enqueuec) \union Members(ready) \union Held
  BY <1>2 DEF Known, OnePlace
<1>6. \A a, b \in DOMAIN donec' : donec'[a].job = donec'[b].job => a = b
  BY <1>1, <1>2
<1>7. \A j \in Job : done'[j] <=> done[j] \/ j = job
  BY <1>1, <1>3
<1>8. /\ \A j \in Job : j # job => err'[j] = err[j]
      /\ err'[job] = res.err
  BY <1>1, <1>2, <1>3
<1>9. /\ Held' = Held /\ Busy' = Busy
      /\ Members(enqueuec)' = Members(enqueuec) /\ Admitted' = Admitted
  BY DEF Held, Busy, Members, Admitted
<1> QED
  BY <1>2, <1>4, <1>5, <1>6, <1>7, <1>8, <1>9

(* The result that makes the loop quit leaves donec for the finished jobs.  *)
LEMMA CollectAndQuitPlaced ==
  ASSUME IInv, CollectAndQuit
  PROVE  Placed'
<1> USE DEF IInv
<1> DEFINE job == Head(donec).job
<1>1. /\ donec # <<>> /\ TakeResult(Head(donec))
      /\ UNCHANGED <<enqueued, enqueuec, current, phase, ready>>
  BY DEF CollectAndQuit, callerVars, workerVars
<1>2. /\ job \in Job /\ job \in enqueued /\ job \in Reported
      /\ job \notin Members(enqueuec) \union Members(ready) \union Held
      /\ Reported' = Reported \ {job}
      /\ \A a, b \in DOMAIN donec' : donec'[a].job = donec'[b].job => a = b
      /\ \A j \in Job : done'[j] <=> done[j] \/ j = job
      /\ Held' = Held /\ Busy' = Busy /\ Members(enqueuec)' = Members(enqueuec)
  BY <1>1, TakeResultMoves
<1>3. Members(ready)' = Members(ready)
  BY <1>1 DEF Members
<1>4. Members(ready) \union Members(enqueuec) \union Held \union Reported
         \subseteq Job
  BY DEF Known, TypeOK, CallerType
<1> HIDE DEF job
<1>5. Known'
  BY <1>1, <1>2, <1>3 DEF Known
<1>6. OnePlace'
  BY <1>1, <1>2, <1>3, <1>4 DEF OnePlace
<1> QED
  BY <1>5, <1>6 DEF Placed

(* The consumers for which a finished job was the last one outstanding were *)
(* waiting until now; they are all that joins the ready list.               *)
LEMMA ReleasedWaited ==
  ASSUME IInv, Bookkeeping, donec # <<>>, NEW c \in Released(Head(donec).job)
  PROVE  /\ c \in Job /\ c \in Admitted
         /\ c \notin Members(ready) \union Held \union Reported /\ ~done[c]
<1> USE DEF IInv
<1> DEFINE job == Head(donec).job
<1>1. job \in Job /\ job \in Reported
  BY DonecFront
<1>2. ~done[job]
  BY <1>1 DEF OnePlace
<1>3. consumers[job] \in Seq(Job)
  BY <1>1 DEF TypeOK, JobType
<1>4. c \in Members(consumers[job])
  BY DEF Released
<1>5. c \in Job
  BY <1>3, <1>4, MembersType
<1>6. c \in Admitted
  BY <1>1, <1>4, <1>5 DEF Bookkeeping
<1>7. c \notin Members(ready) \union Held \union Reported /\ ~done[c]
  BY <1>1, <1>2, <1>4, <1>5, SettledNotNotified DEF Placed
<1> QED
  BY <1>5, <1>6, <1>7

(* So does every other result, and the jobs it releases become ready.       *)
LEMMA CollectPlaced ==
  ASSUME IInv, Collect
  PROVE  /\ Placed'
         /\ Members(ready') = Members(ready) \union Released(Head(donec).job)
<1> USE DEF IInv
<1> DEFINE job == Head(donec).job
           R == Released(job)
<1>1. /\ loop = "select" /\ donec # <<>> /\ TakeResult(Head(donec))
      /\ UNCHANGED <<enqueued, enqueuec, current, phase>>
  BY DEF Collect, callerVars, workerVars
<1>2. /\ job \in Job /\ job \in enqueued /\ job \in Reported
      /\ job \notin Members(enqueuec) \union Members(ready) \union Held
      /\ Reported' = Reported \ {job}
      /\ \A a, b \in DOMAIN donec' : donec'[a].job = donec'[b].job => a = b
      /\ \A j \in Job : done'[j] <=> done[j] \/ j = job
      /\ Held' = Held /\ Busy' = Busy /\ Members(enqueuec)' = Members(enqueuec)
  BY <1>1, TakeResultMoves
<1>3. \A c \in R : /\ c \in Job /\ c \in Admitted
                   /\ c \notin Members(ready) \union Held \union Reported
                   /\ ~done[c]
  BY <1>1, ReleasedWaited
<1>4. PICK q \in ReleaseOrders(R, consumers[job]) : ready' = ready \o q
  BY DEF Collect
<1>5. ready \in Seq(Job) /\ Distinct(ready) /\ consumers[job] \in Seq(Job)
  BY <1>2 DEF TypeOK, LoopType, JobType, OnePlace, Distinct
<1>6. R \in SUBSET Job
  BY <1>3
<1> HIDE DEF job, R
<1>7. q \in Seq(Job) /\ Members(q) = R /\ Distinct(q)
  BY <1>4, <1>5, <1>6, ReleaseOrdersType, ReleaseOrdersMembers
<1>8. Members(ready) \cap R = {}
  BY <1>3
<1>9. Members(ready') = Members(ready) \union R /\ Distinct(ready')
  BY <1>4, <1>5, <1>7, <1>8, ConcatMembers
<1>10. Members(ready)' = Members(ready')
  BY DEF Members
<1>11. Members(ready) \union Members(enqueuec) \union Held \union Reported
          \subseteq Job
  BY DEF Known, TypeOK, CallerType
<1>12. R \subseteq enqueued \ Members(enqueuec)
  BY <1>3 DEF Admitted
<1>13. Known'
  BY <1>1, <1>2, <1>9, <1>10, <1>12 DEF Known
<1>14. job \notin R
  BY <1>2, <1>3
<1>15. OnePlace'
  <2>1. \A a, b \in DOMAIN ready' : ready'[a] = ready'[b] => a = b
    BY <1>9 DEF Distinct
  <2>2. \A v, w \in Busy' : current'[v] = current'[w] => v = w
    BY <1>1, <1>2 DEF OnePlace
  <2>3. \A j \in Members(enqueuec)' :
           j \notin Members(ready)' \union Held' \union Reported' /\ ~done'[j]
    BY <1>2, <1>9, <1>10, <1>11, <1>12 DEF OnePlace
  <2>4. \A j \in Members(ready)' : j \notin Held' \union Reported' /\ ~done'[j]
    BY <1>2, <1>3, <1>9, <1>10, <1>11, <1>14 DEF OnePlace
  <2>5. \A j \in Held' : j \notin Reported' /\ ~done'[j]
    BY <1>2, <1>11 DEF OnePlace
  <2>6. \A j \in Reported' : ~done'[j]
    BY <1>2, <1>11 DEF OnePlace
  <2> QED
    BY <1>2, <2>1, <2>2, <2>3, <2>4, <2>5, <2>6 DEF OnePlace
<1> QED
  BY <1>9, <1>13, <1>15 DEF Placed, R, job

(* Collecting a result notifies each consumer as often as it listed the     *)
(* job, and so keeps the books exact.                                       *)
LEMMA CollectBooked ==
  ASSUME IInv, Collect
  PROVE  Bookkeeping'
<1> USE DEF IInv
<1> DEFINE res == Head(donec)
           job == res.job
<1>1. /\ loop = "select" /\ donec # <<>> /\ TakeResult(res)
      /\ invalid' = Invalidate(res)
      /\ remaining' = Notified(job)
      /\ UNCHANGED <<enqueued, deps, enqueuec, current, phase, consumers>>
  BY DEF Collect, callerVars, workerVars
<1>2. Bookkeeping /\ Placed
  BY <1>1 DEF Placed
<1>3. /\ res \in Result /\ job \in Job /\ job \in Reported /\ ~done[job]
      /\ Reported' = Reported \ {job}
      /\ \A j \in Job : done'[j] <=> done[j] \/ j = job
      /\ \A j \in Job : j # job => err'[j] = err[j]
      /\ err'[job] = res.err
      /\ Held' = Held /\ Admitted' = Admitted
  BY <1>1, TakeResultMoves
<1>4. /\ deps \in [Job -> Seq(Job)] /\ consumers \in [Job -> Seq(Job)]
      /\ remaining \in [Job -> Int] /\ invalid \in [Job -> BOOLEAN]
      /\ Admitted \subseteq Job
  BY DEF TypeOK, CallerType, JobType, Admitted
<1>5. /\ \A d \in Job : Members(consumers[d])' = Members(consumers[d])
      /\ \A j, d \in Job : /\ Count(j, consumers[d])' = Count(j, consumers[d])
                           /\ Count(d, deps[j])' = Count(d, deps[j])
  BY <1>1 DEF Members, Count, Occurrences
<1>6. Members(ready)' = Members(ready) \union Released(job)
  BY CollectPlaced DEF Members
<1> HIDE DEF job
<1>7. \A j \in Job \ Admitted' : \A d \in Job : j \notin Members(consumers[d])'
  BY <1>2, <1>3, <1>5 DEF Bookkeeping
<1>8. ASSUME NEW j \in Admitted
      PROVE  /\ remaining'[j] = Cardinality(Outstanding(deps[j])')
             /\ \A d \in Job : ~done'[d] =>
                   Count(j, consumers[d])' = Count(d, deps[j])'
             /\ invalid'[j] <=> BornInvalid(deps[j])'
  <2> DEFINE ds == deps[j]
             O == Occurrences(job, ds)
  <2>1. j \in Job /\ ds \in Seq(Job) /\ ds' = ds
    BY <1>1, <1>4
  <2>2. \A i \in DOMAIN ds : ds[i] \in Job
    BY <2>1
  <2>3. Count(j, consumers[job]) = Cardinality(O)
    BY <1>2, <1>3, <2>1 DEF Bookkeeping, Count
  <2>4. /\ O \subseteq Outstanding(ds)
        /\ Outstanding(deps[j])' = Outstanding(ds) \ O
    <3>1. O \subseteq Outstanding(ds)
      BY <1>3 DEF Occurrences, Outstanding
    <3>2. Outstanding(deps[j])' = {i \in DOMAIN ds : ~done'[ds[i]]}
      BY <2>1 DEF Outstanding
    <3>3. \A i \in DOMAIN ds : ~done'[ds[i]] <=> ~done[ds[i]] /\ ds[i] # job
      BY <1>3, <2>2
    <3> QED
      BY <3>1, <3>2, <3>3 DEF Outstanding, Occurrences
  <2>5. Cardinality(Outstanding(ds) \ O)
           = Cardinality(Outstanding(ds)) - Cardinality(O)
    <3>1. IsFiniteSet(Outstanding(ds)) /\ IsFiniteSet(O)
      BY <2>1, OutstandingFinite, OccurrencesFinite
    <3>2. Cardinality(Outstanding(ds) \ O)
             = Cardinality(Outstanding(ds))
                 - Cardinality(Outstanding(ds) \intersect O)
      BY <3>1, FS_Difference
    <3>3. Outstanding(ds) \intersect O = O
      BY <2>4
    <3> QED
      BY <3>2, <3>3
  <2>6. remaining'[j] = Cardinality(Outstanding(deps[j])')
    <3>1. remaining'[j] = remaining[j] - Count(j, consumers[job])
      BY <1>1, <2>1 DEF Notified, job
    <3>2. remaining[j] = Cardinality(Outstanding(ds))
      BY <1>2 DEF Bookkeeping
    <3> QED
      BY <2>3, <2>4, <2>5, <3>1, <3>2
  <2>7. \A d \in Job : ~done'[d] =>
           Count(j, consumers[d])' = Count(d, deps[j])'
    BY <1>2, <1>3, <1>5, <2>1 DEF Bookkeeping
  <2>8. invalid'[j] <=> BornInvalid(deps[j])'
    <3>1. invalid'[j] <=> \/ invalid[j]
                          \/ res.err # "none" /\ j \in Members(consumers[job])
      BY <1>1, <2>1 DEF Invalidate, job
    <3>2. invalid[j] <=> \E i \in DOMAIN ds : done[ds[i]] /\ err[ds[i]] # "none"
      BY <1>2 DEF Bookkeeping, BornInvalid
    <3>3. j \in Members(consumers[job]) <=> job \in Members(ds)
      <4>1. consumers[job] \in Seq(Job)
        BY <1>3, <1>4
      <4>2. Count(j, consumers[job]) = Count(job, ds)
        BY <2>3 DEF Count
      <4> QED
        BY <2>1, <4>1, <4>2, CountZero
    <3>4. BornInvalid(deps[j])' <=>
             \E i \in DOMAIN ds : done'[ds[i]] /\ err'[ds[i]] # "none"
      BY <2>1 DEF BornInvalid
    <3>5. \A i \in DOMAIN ds :
             done'[ds[i]] /\ err'[ds[i]] # "none" <=>
                \/ done[ds[i]] /\ err[ds[i]] # "none"
                \/ ds[i] = job /\ res.err # "none"
      BY <1>3, <2>2
    <3>6. job \in Members(ds) <=> \E i \in DOMAIN ds : ds[i] = job
      BY DEF Members
    <3> QED
      BY <3>1, <3>2, <3>3, <3>4, <3>5, <3>6
  <2> QED
    BY <2>6, <2>7, <2>8
<1>9. ASSUME NEW j \in Job,
             \/ j \in Members(ready)' \union Held' \union Reported'
             \/ done'[j]
      PROVE  remaining'[j] = 0
  <2>1. remaining'[j] = remaining[j] - Count(j, consumers[job])
    BY <1>1 DEF Notified, job
  <2>2. CASE j \in Released(job)
    BY <1>1, <2>2 DEF Released, Notified, job
  <2>3. CASE j \notin Released(job)
    <3>1. j \in Members(ready) \union Held \union Reported \/ done[j]
      BY <1>3, <1>6, <1>9, <2>3
    <3>2. Count(j, consumers[job]) = 0
      BY <1>2, <1>3, <3>1, SettledNotNotified
    <3>3. remaining[j] = 0
      BY <1>2, <3>1 DEF Bookkeeping
    <3> QED
      BY <2>1, <3>2, <3>3
  <2> QED
    BY <2>2, <2>3
<1> QED
  BY <1>3, <1>7, <1>8, <1>9 DEF Bookkeeping

-----------------------------------------------------------------------------
(* The invariant is preserved                                              *)

(* BookkeepingSettles in the state after a step.                            *)
LEMMA SettlesNext == TypeOK' /\ Placed' /\ Bookkeeping' => SettledVerdict'
BY BookkeepingSettles, PTL

(* The books stay exact while no job is admitted or finished.               *)
LEMMA BookkeepingKept ==
  ASSUME TypeOK, Bookkeeping,
         UNCHANGED <<done, err, remaining, consumers, invalid>>,
         Admitted' = Admitted,
         \A j \in Admitted : deps'[j] = deps[j],
         (Members(ready) \union Held \union Reported)'
            = Members(ready) \union Held \union Reported
  PROVE  Bookkeeping'
<1>1. Admitted \subseteq Job
  BY DEF Admitted, TypeOK, CallerType
<1>2. \A d \in Job : /\ Members(consumers[d])' = Members(consumers[d])
                     /\ \A j \in Job :
                           Count(j, consumers[d])' = Count(j, consumers[d])
  BY DEF Members, Count, Occurrences
<1>3. \A j \in Admitted :
         /\ Outstanding(deps[j])' = Outstanding(deps[j])
         /\ BornInvalid(deps[j])' = BornInvalid(deps[j])
         /\ \A d \in Job : Count(d, deps[j])' = Count(d, deps[j])
  BY DEF Outstanding, BornInvalid, Count, Occurrences
<1>4. \A j \in Job \ Admitted' : \A d \in Job : j \notin Members(consumers[d])'
  BY <1>2 DEF Bookkeeping
<1>5. \A j \in Admitted' :
         /\ remaining'[j] = Cardinality(Outstanding(deps[j])')
         /\ \A d \in Job :
               ~done'[d] => Count(j, consumers[d])' = Count(d, deps[j])'
         /\ invalid'[j] <=> BornInvalid(deps[j])'
  BY <1>1, <1>2, <1>3 DEF Bookkeeping
<1>6. \A j \in Job :
         \/ j \in (Members(ready) \union Held \union Reported)'
         \/ done'[j]
            => remaining'[j] = 0
  BY DEF Bookkeeping
<1> QED
  BY <1>4, <1>5, <1>6 DEF Bookkeeping

(* A verdict stands while the job's dependencies stay finished.             *)
LEMMA VerdictKept ==
  ASSUME SettledVerdict, UNCHANGED invalid,
         (Members(ready) \union Held)' \subseteq Members(ready) \union Held,
         \A j \in Members(ready) \union Held :
            /\ deps'[j] = deps[j]
            /\ \A i \in DOMAIN deps[j] :
                  done'[deps[j][i]] /\ err'[deps[j][i]] = err[deps[j][i]]
  PROVE  SettledVerdict'
BY DEF SettledVerdict

(* Steps that neither move a job nor settle one.                            *)
LEMMA StillStep ==
  ASSUME IInv, TypeOK', HandsFull', loop' = "select" => loop = "select",
         UNCHANGED <<enqueued, deps, enqueuec, donec, ready, done, err,
                     remaining, consumers, invalid, current, Busy>>,
         \A w \in Worker :
            phase'[w] = "running" => phase[w] = "running" \/ ~invalid[current[w]]
  PROVE  IInv'
<1> USE DEF IInv
<1>1. /\ Members(ready)' = Members(ready) /\ Held' = Held
      /\ Reported' = Reported /\ Members(enqueuec)' = Members(enqueuec)
      /\ Admitted' = Admitted
  BY DEF Members, Held, Reported, Admitted
<1>2. Known' /\ OnePlace'
  BY <1>1 DEF Known, OnePlace
<1>3. loop' = "select" => Bookkeeping'
  BY <1>1, BookkeepingKept
<1>4. SettledVerdict'
  BY <1>1 DEF SettledVerdict
<1>5. RunningValid'
  BY DEF RunningValid
<1> QED
  BY <1>2, <1>3, <1>4, <1>5

(* Enqueue touches nothing the loop keeps books about.                      *)
LEMMA EnqueueSafe ==
  ASSUME IInv, TypeOK', HandsFull', NEW j \in Job, Enqueue(j)
  PROVE  IInv'
<1> USE DEF IInv
<1>1. /\ Known' /\ OnePlace'
      /\ Members(enqueuec') = Members(enqueuec) \union {j}
      /\ enqueued' = enqueued \union {j} /\ j \notin enqueued
  BY EnqueuePlaced DEF Placed
<1>2. /\ UNCHANGED <<loop, donec, ready, done, err, remaining, consumers,
                     invalid, current, phase>>
      /\ \A k \in Job : k # j => deps'[k] = deps[k]
  BY DEF Enqueue, loopVars, jobVars, workerVars, TypeOK, CallerType
<1>3. /\ Members(ready)' = Members(ready) /\ Held' = Held
      /\ Reported' = Reported /\ Members(enqueuec)' = Members(enqueuec')
  BY <1>2 DEF Members, Held, Reported
<1>4. j \notin Members(enqueuec) \union Members(ready) \union Held
  BY <1>1 DEF Known
<1>5. Admitted' = Admitted /\ j \notin Admitted /\ Admitted \subseteq Job
  BY <1>1, <1>3, <1>4 DEF Admitted, TypeOK, CallerType
<1>6. loop' = "select" => Bookkeeping'
  <2>1. \A k \in Admitted : deps'[k] = deps[k]
    BY <1>2, <1>5
  <2> QED
    BY <1>2, <1>3, <1>5, <2>1, BookkeepingKept
<1>7. SettledVerdict'
  <2>1. \A k \in Members(ready) \union Held : k \in Job /\ k # j
    BY <1>1, <1>4 DEF Known, TypeOK, CallerType
  <2>2. \A k \in Members(ready) \union Held : deps'[k] = deps[k]
    BY <1>2, <2>1
  <2> QED
    BY <1>2, <1>3, <2>2 DEF SettledVerdict
<1>8. RunningValid'
  BY <1>2 DEF RunningValid
<1> QED
  BY <1>1, <1>6, <1>7, <1>8

(* Handing a job to a worker keeps its verdict.                             *)
LEMMA DispatchSafe ==
  ASSUME IInv, TypeOK', HandsFull', NEW w \in Worker, Dispatch(w)
  PROVE  IInv'
<1> USE DEF IInv
<1>1. /\ Known' /\ OnePlace'
      /\ Members(ready') \union Held' = Members(ready) \union Held
  BY DispatchPlaced DEF Placed
<1>2. /\ loop = "select"
      /\ phase' = [phase EXCEPT ![w] = "got"]
      /\ current' = [current EXCEPT ![w] = Head(ready)]
      /\ UNCHANGED <<enqueued, deps, enqueuec, donec, done, err, remaining,
                     consumers, invalid>>
  BY DEF Dispatch, callerVars, jobVars
<1>3. /\ Members(ready)' = Members(ready') /\ Reported' = Reported
      /\ Admitted' = Admitted
  BY <1>2 DEF Members, Reported, Admitted
<1>4. Bookkeeping'
  BY <1>1, <1>2, <1>3, BookkeepingKept
<1>5. SettledVerdict'
  BY <1>1, <1>2, <1>3 DEF SettledVerdict
<1>6. RunningValid'
  BY <1>2 DEF RunningValid, TypeOK, WorkerType
<1> QED
  BY <1>1, <1>4, <1>5, <1>6

(* Admitting a job sets its counter, its subscriptions and its verdict.     *)
LEMMA AdmitSafe ==
  ASSUME IInv, TypeOK', HandsFull', Admit
  PROVE  IInv'
<1> USE DEF IInv
<1> DEFINE job == Head(enqueuec)
<1>1. Placed' /\ Bookkeeping'
  BY AdmitPlaced, AdmitBooked
<1>2. SettledVerdict'
  BY <1>1, SettlesNext
<1>3. RunningValid'
  <2>1. job \notin Held /\ job \in Job
    BY AdmitPlaced
  <2>2. /\ invalid' = [invalid EXCEPT ![job] = BornInvalid(deps[job])]
        /\ UNCHANGED <<phase, current>>
    BY DEF Admit, workerVars
  <2>3. \A w \in Worker : phase[w] = "running" =>
           current[w] \in Held /\ current[w] \in Job
    BY HeldByBusy DEF Busy
  <2>4. \A k \in Job : k # job => invalid'[k] = invalid[k]
    BY <2>2 DEF TypeOK, JobType
  <2> QED
    BY <2>1, <2>2, <2>3, <2>4 DEF RunningValid
<1> QED
  BY <1>1, <1>2, <1>3 DEF Placed

(* Handling a result updates what its consumers have counted on.            *)
LEMMA CollectSafe ==
  ASSUME IInv, TypeOK', HandsFull', Collect
  PROVE  IInv'
<1> USE DEF IInv
<1> DEFINE job == Head(donec).job
<1>1. Placed' /\ Bookkeeping'
  BY CollectPlaced, CollectBooked
<1>2. SettledVerdict'
  BY <1>1, SettlesNext
<1>3. RunningValid'
  <2>1. /\ loop = "select" /\ donec # <<>> /\ TakeResult(Head(donec))
        /\ invalid' = Invalidate(Head(donec))
        /\ UNCHANGED <<enqueued, enqueuec, phase, current>>
    BY DEF Collect, callerVars, workerVars
  <2>2. job \in Job /\ ~done[job]
    BY <2>1, TakeResultMoves
  <2>3. \A w \in Worker : phase[w] = "running" =>
           current[w] \in Held /\ current[w] \in Job
    BY HeldByBusy DEF Busy
  <2>4. \A k \in Job : k \in Held => k \notin Members(consumers[job])
    BY <2>1, <2>2, SettledNotNotified DEF Placed
  <2>5. \A k \in Job : k \in Held => invalid'[k] = invalid[k]
    BY <2>1, <2>4 DEF Invalidate, TypeOK, JobType
  <2> QED
    BY <2>1, <2>3, <2>5 DEF RunningValid
<1> QED
  BY <1>1, <1>2, <1>3 DEF Placed

(* A result that ends the loop settles one job and leaves the rest as it is.*)
LEMMA CollectAndQuitSafe ==
  ASSUME IInv, TypeOK', HandsFull', CollectAndQuit
  PROVE  IInv'
<1> USE DEF IInv
<1> DEFINE job == Head(donec).job
<1>1. Placed'
  BY CollectAndQuitPlaced
<1>2. /\ loop' = "draining" /\ donec # <<>> /\ TakeResult(Head(donec))
      /\ UNCHANGED <<enqueued, deps, enqueuec, phase, current, invalid, ready>>
  BY DEF CollectAndQuit, callerVars, workerVars
<1>3. /\ job \in Job /\ ~done[job] /\ Held' = Held
      /\ \A j \in Job : done'[j] <=> done[j] \/ j = job
      /\ \A j \in Job : j # job => err'[j] = err[j]
  BY <1>2, TakeResultMoves
<1>4. Members(ready)' = Members(ready)
  BY <1>2 DEF Members
<1>5. \A j \in Members(ready) \union Held : \A i \in DOMAIN deps[j] :
         /\ deps[j][i] \in Job /\ done[deps[j][i]]
  BY DEF SettledVerdict, Known, TypeOK, CallerType
<1>6. \A j \in Members(ready) \union Held : \A i \in DOMAIN deps[j] :
         done'[deps[j][i]] /\ err'[deps[j][i]] = err[deps[j][i]]
  BY <1>3, <1>5
<1>7. SettledVerdict'
  BY <1>2, <1>3, <1>4, <1>6, VerdictKept
<1>8. RunningValid'
  BY <1>2 DEF RunningValid
<1> QED
  BY <1>1, <1>2, <1>7, <1>8 DEF Placed

(* Draining after the loop has quit changes no job.                         *)
LEMMA DrainSafe ==
  ASSUME IInv, TypeOK', HandsFull', Drain
  PROVE  IInv'
<1> USE DEF IInv
<1>1. Placed'
  BY DrainPlaced
<1>2. /\ loop' = "draining"
      /\ UNCHANGED <<deps, ready, done, err, invalid, current, phase>>
  BY DEF Drain, callerVars, loopVars, jobVars, workerVars
<1>3. Members(ready)' = Members(ready) /\ Held' = Held
  BY <1>2 DEF Members, Held
<1>4. SettledVerdict' /\ RunningValid'
  BY <1>2, <1>3 DEF SettledVerdict, RunningValid
<1> QED
  BY <1>1, <1>2, <1>4 DEF Placed

(* Workers move jobs on; they start only those that are not invalid.        *)
LEMMA WorkerSafe ==
  ASSUME IInv, TypeOK', HandsFull', NEW w \in Worker, WorkerStep(w)
  PROVE  IInv'
<1> USE DEF IInv
<1>1. phase \in [Worker -> {"idle", "got", "running", "posting", "exited"}]
  BY DEF TypeOK, WorkerType
<1>2. CASE Post(w)
  <2>1. /\ Placed' /\ Held' \subseteq Held
        /\ Held' \union Reported' = Held \union Reported
    BY <1>2, PostPlaced
  <2>2. /\ phase' = [phase EXCEPT ![w] = "idle"]
        /\ current' = [current EXCEPT ![w] = NoJob]
        /\ UNCHANGED <<loop, enqueued, deps, enqueuec, ready, done, err,
                       remaining, consumers, invalid>>
    BY <1>2 DEF Post, callerVars, loopVars, jobVars
  <2>3. Members(ready)' = Members(ready) /\ Admitted' = Admitted
    BY <2>2 DEF Members, Admitted
  <2>4. loop' = "select" => Bookkeeping'
    BY <2>1, <2>2, <2>3, BookkeepingKept
  <2>5. SettledVerdict'
    BY <2>1, <2>2, <2>3 DEF SettledVerdict
  <2>6. RunningValid'
    BY <1>1, <2>2 DEF RunningValid, TypeOK, WorkerType
  <2> QED
    BY <2>1, <2>4, <2>5, <2>6 DEF Placed
<1>3. CASE Begin(w)
  <2>1. /\ UNCHANGED <<loop, enqueued, deps, enqueuec, donec, ready, done, err,
                       remaining, consumers, invalid, current>>
        /\ Busy' = Busy
    BY <1>1, <1>3 DEF Begin, callerVars, loopVars, jobVars, Busy
  <2>2. \A v \in Worker :
           phase'[v] = "running" => phase[v] = "running" \/ ~invalid[current[v]]
    BY <1>1, <1>3 DEF Begin
  <2> QED
    BY <2>1, <2>2, StillStep
<1>4. CASE Finish(w) \/ ExitWorker(w)
  <2>1. /\ UNCHANGED <<loop, enqueued, deps, enqueuec, donec, ready, done, err,
                       remaining, consumers, invalid, current>>
        /\ Busy' = Busy
    BY <1>1, <1>4 DEF Finish, ExitWorker, callerVars, loopVars, jobVars, Busy
  <2>2. \A v \in Worker : phase'[v] = "running" => phase[v] = "running"
    BY <1>1, <1>4 DEF Finish, ExitWorker
  <2> QED
    BY <2>1, <2>2, StillStep
<1> QED
  BY <1>2, <1>3, <1>4 DEF WorkerStep

(* Every step of every goroutine preserves the invariant ...                *)
LEMMA SafeStep == IInv /\ [Next]_vars => IInv'
<1> SUFFICES ASSUME IInv, [Next]_vars PROVE IInv'
  OBVIOUS
<1>1. TypeOK' /\ HandsFull'
  BY TypedStep, HandsFullStep DEF IInv
<1>2. ASSUME UNCHANGED <<enqueued, deps, enqueuec, donec, ready, done, err,
                         remaining, consumers, invalid, current, phase>>,
             loop' = "select" => loop = "select"
      PROVE  IInv'
  <2>1. Busy' = Busy
    BY <1>2 DEF Busy
  <2> QED
    BY <1>1, <1>2, <2>1, StillStep
<1>3. ASSUME NEW j \in Job, Enqueue(j) PROVE IInv'
  BY <1>1, <1>3, EnqueueSafe
<1>4. CASE CallWait \/ ReturnFinished \/ ReturnCtx \/ CancelCtx
  BY <1>2, <1>4
  DEF CallWait, ReturnFinished, ReturnCtx, CancelCtx, callerVars, loopVars,
      jobVars, workerVars
<1>5. ASSUME NEW w \in Worker, Dispatch(w) PROVE IInv'
  BY <1>1, <1>5, DispatchSafe
<1>6. CASE Admit
  BY <1>1, <1>6, AdmitSafe
<1>7. CASE StopAccepting \/ Emit \/ ExitLoop
  BY <1>2, <1>7
  DEF StopAccepting, Emit, ExitLoop, callerVars, jobVars, workerVars
<1>8. CASE CollectAndQuit
  BY <1>1, <1>8, CollectAndQuitSafe
<1>9. CASE Collect
  BY <1>1, <1>9, CollectSafe
<1>10. CASE Drain
  BY <1>1, <1>10, DrainSafe
<1>11. ASSUME NEW w \in Worker, WorkerStep(w) PROVE IInv'
  BY <1>1, <1>11, WorkerSafe
<1>12. CASE Terminated \/ UNCHANGED vars
  BY <1>2, <1>12
  DEF Terminated, vars, callerVars, loopVars, jobVars, workerVars
<1> QED
  BY <1>3, <1>4, <1>5, <1>6, <1>7, <1>8, <1>9, <1>10, <1>11, <1>12
  DEF Next, Caller, Loop

(* ... which holds before anything was enqueued ...                         *)
LEMMA InitSafe == Init => IInv
<1> SUFFICES ASSUME Init PROVE IInv
  OBVIOUS
<1>1. TypeOK /\ HandsFull
  BY InitTyped DEF Init, HandsFull, Busy
<1>2. /\ Members(enqueuec) = {} /\ Members(ready) = {}
      /\ Reported = {} /\ Held = {} /\ Busy = {}
  BY DEF Init, Members, Reported, Held, Busy
<1>3. Known /\ OnePlace
  BY <1>2 DEF Known, OnePlace, Init
<1>4. Bookkeeping
  <2>1. Admitted = {}
    BY DEF Init, Admitted
  <2>2. \A j, d \in Job : j \notin Members(consumers[d])
    BY DEF Init, Members
  <2>3. \A j \in Job : remaining[j] = 0
    BY DEF Init
  <2> QED
    BY <2>1, <2>2, <2>3 DEF Bookkeeping
<1>5. SettledVerdict /\ RunningValid
  BY <1>2 DEF SettledVerdict, RunningValid, Init
<1> QED
  BY <1>1, <1>3, <1>4, <1>5 DEF IInv

-----------------------------------------------------------------------------
(* The theorems                                                            *)

(* ... and so always.                                                       *)
LEMMA Invariance == Spec => []IInv
BY InitSafe, SafeStep, PTL DEF Spec

(* A job is in one place at a time, and once: it is never handed out, run   *)
(* or counted twice.                                                        *)
THEOREM JobsInOnePlace == Spec => []OnePlace
<1>1. IInv => OnePlace
  BY DEF IInv
<1> QED
  BY <1>1, Invariance, PTL

(* remaining is, for every admitted job, the number of notifications it     *)
(* will still get, whatever order dependencies finish and jobs arrive in.   *)
THEOREM CountdownExact == Spec => []RemainingExact
<1>1. IInv => RemainingExact
  BY DEF IInv, Bookkeeping, RemainingExact
<1> QED
  BY <1>1, Invariance, PTL

(* The invalid flag a worker reads says whether a dependency failed.        *)
THEOREM VerdictSettled == Spec => []SettledVerdict
<1>1. IInv => SettledVerdict
  BY DEF IInv
<1> QED
  BY <1>1, Invariance, PTL

(* A job that runs has only dependencies that finished successfully.        *)
THEOREM DependenciesSucceedFirst == Spec => []DependenciesFirst
<1>1. IInv => DependenciesFirst
  <2> SUFFICES ASSUME IInv, NEW w \in Worker, phase[w] = "running",
                      NEW i \in DOMAIN deps[current[w]]
               PROVE  LET d == deps[current[w]][i]
                      IN  done[d] /\ err[d] = "none"
    BY DEF DependenciesFirst
  <2>1. current[w] \in Held
    BY HeldByBusy DEF IInv, Busy
  <2>2. ~invalid[current[w]]
    BY DEF IInv, RunningValid
  <2> QED
    BY <2>1, <2>2 DEF IInv, SettledVerdict
<1> QED
  BY <1>1, Invariance, PTL

(* No step of the loop writes a field of a job a worker may be reading.     *)
THEOREM NoWriteToHeldJobs == Spec => NoRacyWrite
<1> DEFINE Untouched ==
      \A j \in Held : invalid'[j] = invalid[j] /\ deps'[j] = deps[j]
<1>1. IInv /\ [Next]_vars => [Untouched]_vars
  <2> SUFFICES ASSUME IInv, [Next]_vars PROVE Untouched
    OBVIOUS
  <2>1. ASSUME UNCHANGED <<invalid, deps>> PROVE Untouched
    BY <2>1
  <2>2. Held \subseteq Job
    BY HeldByBusy DEF IInv
  <2>3. ASSUME NEW j \in Job, Enqueue(j) PROVE Untouched
    <3>1. j \notin Held
      BY <2>3, EnqueuePlaced DEF IInv, Known
    <3>2. UNCHANGED invalid /\ \A k \in Job : k # j => deps'[k] = deps[k]
      BY <2>3 DEF Enqueue, jobVars, IInv, TypeOK, CallerType
    <3> QED
      BY <2>2, <3>1, <3>2
  <2>4. CASE Admit
    <3>1. Head(enqueuec) \notin Held /\ Head(enqueuec) \in Job
      BY <2>4, AdmitPlaced
    <3>2. /\ UNCHANGED deps
          /\ \A k \in Job : k # Head(enqueuec) => invalid'[k] = invalid[k]
      BY <2>4 DEF Admit, callerVars, IInv, TypeOK, JobType
    <3> QED
      BY <2>2, <3>1, <3>2
  <2>5. CASE Collect
    <3> DEFINE job == Head(donec).job
    <3>1. /\ loop = "select" /\ donec # <<>> /\ TakeResult(Head(donec))
          /\ invalid' = Invalidate(Head(donec))
          /\ UNCHANGED <<enqueued, deps, enqueuec, phase, current>>
      BY <2>5 DEF Collect, callerVars, workerVars
    <3>2. job \in Job /\ ~done[job]
      BY <3>1, TakeResultMoves
    <3>3. \A k \in Job : k \in Held => k \notin Members(consumers[job])
      BY <3>1, <3>2, SettledNotNotified DEF Placed, IInv
    <3>4. \A k \in Job : k \in Held => invalid'[k] = invalid[k]
      BY <3>1, <3>3 DEF Invalidate, IInv, TypeOK, JobType
    <3> QED
      BY <2>2, <3>1, <3>4
  <2>6. ASSUME NEW w \in Worker, Dispatch(w) \/ WorkerStep(w) PROVE Untouched
    BY <2>1, <2>6
    DEF Dispatch, WorkerStep, Begin, Finish, Post, ExitWorker, callerVars,
        jobVars
  <2>7. CASE CallWait \/ ReturnFinished \/ ReturnCtx \/ CancelCtx
    BY <2>1, <2>7
    DEF CallWait, ReturnFinished, ReturnCtx, CancelCtx, callerVars, jobVars
  <2>8. CASE StopAccepting \/ CollectAndQuit \/ Emit \/ Drain \/ ExitLoop
    BY <2>1, <2>8
    DEF StopAccepting, CollectAndQuit, Emit, Drain, ExitLoop, callerVars,
        jobVars
  <2>9. CASE Terminated \/ UNCHANGED vars
    BY <2>1, <2>9 DEF Terminated, vars, callerVars, jobVars
  <2> QED
    BY <2>3, <2>4, <2>5, <2>6, <2>7, <2>8, <2>9 DEF Next, Caller, Loop
<1> QED
  BY <1>1, Invariance, PTL DEF Spec, NoRacyWrite

-----------------------------------------------------------------------------
(* The counters of the loop                                                *)

(* The counters count what they are meant to count. They do so while the    *)
(* loop is in its select; the step that leaves it without quitting still    *)
(* finds them exact, which is why this is stated without that condition.    *)
CountersExact ==
    /\ ongoing = Cardinality(Busy) + Len(donec)
    /\ waiting = Cardinality({j \in Admitted : remaining[j] > 0})
    /\ pending = Len(ready) + waiting + ongoing
    /\ pending = Cardinality({j \in Admitted : ~done[j]})

Counted == loop = "select" => CountersExact

(* The sets that are counted are finite.                                    *)
LEMMA CountedFinite ==
  ASSUME TypeOK
  PROVE  /\ IsFiniteSet(Admitted) /\ Admitted \subseteq Job
         /\ IsFiniteSet(Busy) /\ Cardinality(Busy) \in Nat
         /\ Cardinality(Busy) <= Concurrency
<1>1. Admitted \subseteq Job
  BY DEF Admitted, TypeOK, CallerType
<1>2. IsFiniteSet(Admitted)
  BY <1>1, JobAssumption, FS_Subset
<1>3. Busy \subseteq Worker
  BY DEF Busy
<1>4. IsFiniteSet(Busy) /\ Cardinality(Busy) <= Cardinality(Worker)
  BY <1>3, WorkerAssumption, FS_Subset
<1>5. Cardinality(Busy) \in Nat
  BY <1>4, FS_CardinalityType
<1> QED
  BY <1>1, <1>2, <1>4, <1>5 DEF Concurrency

(* Jobs that move between worker and donec do not disturb the counters.     *)
LEMMA CountersKept ==
  ASSUME CountersExact,
         UNCHANGED <<ongoing, pending, waiting, ready, remaining, done>>,
         Admitted' = Admitted,
         Cardinality(Busy)' + Len(donec)' = Cardinality(Busy) + Len(donec)
  PROVE  CountersExact'
BY DEF CountersExact

(* OutstandingFinite in the state after a step.                             *)
LEMMA OutstandingNext ==
  ASSUME NEW S, NEW ds \in Seq(S)
  PROVE  Cardinality(Outstanding(ds)') \in Nat
<1>1. IsFiniteSet(DOMAIN ds)
  <2>1. DOMAIN ds = 1..Len(ds) /\ Len(ds) \in Nat
    OBVIOUS
  <2> QED
    BY <2>1, FS_Interval
<1>2. IsFiniteSet(Outstanding(ds)')
  BY <1>1, FS_Subset DEF Outstanding
<1> QED
  BY <1>2, FS_CardinalityType

(* Dispatch moves a job from the ready list to a worker.                    *)
LEMMA DispatchCounts ==
  ASSUME IInv, CountersExact, NEW w \in Worker, Dispatch(w)
  PROVE  CountersExact'
<1> USE DEF IInv
<1>1. /\ ready # <<>> /\ ready' = Tail(ready) /\ ongoing' = ongoing + 1
      /\ phase[w] = "idle" /\ phase' = [phase EXCEPT ![w] = "got"]
      /\ UNCHANGED <<enqueued, enqueuec, donec, pending, waiting, remaining, done>>
  BY DEF Dispatch, WithoutFront, callerVars, jobVars
<1>2. Busy' = Busy \union {w} /\ w \notin Busy
  BY <1>1 DEF Busy, TypeOK, WorkerType
<1>3. Cardinality(Busy') = Cardinality(Busy) + 1
  BY <1>2, CountedFinite, FS_AddElement
<1>4. Len(ready') = Len(ready) - 1
  BY <1>1, HeadTailProperties DEF TypeOK, LoopType
<1>5. Admitted' = Admitted
  BY <1>1 DEF Admitted, Members
<1>6. /\ ongoing \in Int /\ pending \in Int /\ waiting \in Int
      /\ Len(ready) \in Nat /\ Len(donec) \in Nat /\ Cardinality(Busy) \in Nat
  BY CountedFinite DEF TypeOK, LoopType, ChannelType
<1>7. ongoing' = Cardinality(Busy)' + Len(donec)'
  BY <1>1, <1>3, <1>6 DEF CountersExact
<1>8. pending' = Len(ready)' + waiting' + ongoing'
  BY <1>1, <1>4, <1>6 DEF CountersExact
<1>9. /\ waiting' = Cardinality({j \in Admitted' : remaining'[j] > 0})
      /\ pending' = Cardinality({j \in Admitted' : ~done'[j]})
  BY <1>1, <1>5 DEF CountersExact
<1> QED
  BY <1>7, <1>8, <1>9 DEF CountersExact

(* Post moves a job from a worker to donec.                                 *)
LEMMA PostCounts ==
  ASSUME IInv, CountersExact, NEW w \in Worker, Post(w)
  PROVE  CountersExact'
<1> USE DEF IInv
<1>1. /\ donec' = Append(donec, [job |-> current[w], err |-> outcome[w]])
      /\ phase[w] = "posting" /\ phase' = [phase EXCEPT ![w] = "idle"]
      /\ UNCHANGED <<enqueued, enqueuec, ready, ongoing, pending, waiting,
                     remaining, done>>
  BY DEF Post, callerVars, loopVars, jobVars
<1>2. Busy' = Busy \ {w} /\ w \in Busy
  BY <1>1 DEF Busy, TypeOK, WorkerType
<1>3. Cardinality(Busy') = Cardinality(Busy) - 1
  BY <1>2, CountedFinite, FS_RemoveElement
<1>4. donec \in Seq(Result) /\ Len(donec') = Len(donec) + 1
  BY <1>1 DEF TypeOK, ChannelType
<1>5. Admitted' = Admitted
  BY <1>1 DEF Admitted, Members
<1>6. Cardinality(Busy)' + Len(donec)' = Cardinality(Busy) + Len(donec)
  BY <1>3, <1>4, CountedFinite
<1> QED
  BY <1>1, <1>5, <1>6, CountersKept

(* Admit adds a job that is either ready or waits for another one.          *)
LEMMA AdmitCounts ==
  ASSUME IInv, CountersExact, Admit
  PROVE  CountersExact'
<1> USE DEF IInv
<1> DEFINE job == Head(enqueuec)
           ds  == deps[job]
           waits == {j \in Admitted : remaining[j] > 0}
           open == {j \in Admitted : ~done[j]}
<1>1. /\ job \in Job /\ job \notin Admitted /\ ~done[job]
      /\ Admitted' = Admitted \union {job}
  BY AdmitPlaced
<1>2. /\ remaining' = [remaining EXCEPT ![job] = Cardinality(Outstanding(ds))]
      /\ IF Outstanding(ds) = {}
         THEN ready' = Append(ready, job) /\ UNCHANGED waiting
         ELSE waiting' = waiting + 1 /\ UNCHANGED ready
      /\ pending' = pending + 1
      /\ UNCHANGED <<donec, done, ongoing, phase>>
  BY DEF Admit, callerVars, workerVars
<1>3. /\ ds \in Seq(Job) /\ remaining \in [Job -> Int] /\ ready \in Seq(Job)
      /\ ongoing \in Int /\ pending \in Int /\ waiting \in Int
      /\ Len(donec) \in Nat
  BY <1>1 DEF TypeOK, CallerType, JobType, LoopType, ChannelType
<1>4. /\ Admitted \subseteq Job /\ IsFiniteSet(waits) /\ IsFiniteSet(open)
  BY CountedFinite, FS_Subset
<1>5. Busy' = Busy
  BY <1>2 DEF Busy
<1> HIDE DEF job, ds
<1>6. open' = open \union {job} /\ job \notin open
  BY <1>1, <1>2
<1>7. Cardinality(open') = Cardinality(open) + 1
  <2> HIDE DEF open
  <2> QED
    BY <1>4, <1>6, FS_AddElement
<1>8. CASE Outstanding(ds) = {}
  <2>1. remaining'[job] = 0
    BY <1>1, <1>2, <1>3, <1>8, FS_EmptySet
  <2>2. waits' = waits
    BY <1>1, <1>2, <1>3, <1>4, <2>1
  <2>3. Len(ready') = Len(ready) + 1 /\ waiting' = waiting /\ Len(ready) \in Nat
    BY <1>1, <1>2, <1>3, <1>8, AppendProperties
  <2>4. /\ ongoing' = Cardinality(Busy)' + Len(donec)'
        /\ waiting' = Cardinality(waits')
    BY <1>2, <1>5, <2>2, <2>3 DEF CountersExact
  <2> HIDE DEF waits
  <2>5. pending' = Cardinality(open')
    BY <1>2, <1>7 DEF CountersExact
  <2> HIDE DEF open
  <2>6. pending' = Len(ready)' + waiting' + ongoing'
    BY <1>2, <1>3, <2>3 DEF CountersExact
  <2> QED
    BY <2>4, <2>5, <2>6 DEF CountersExact, waits, open
<1>9. CASE Outstanding(ds) # {}
  <2>1. Cardinality(Outstanding(ds)) \in Nat /\ Cardinality(Outstanding(ds)) # 0
    BY <1>3, <1>9, OutstandingFinite, FS_EmptySet
  <2>2. remaining'[job] > 0
    BY <1>1, <1>2, <1>3, <2>1
  <2>3. waits' = waits \union {job} /\ job \notin waits
    BY <1>1, <1>2, <1>3, <1>4, <2>2
  <2>4. Cardinality(waits') = Cardinality(waits) + 1
    <3> HIDE DEF waits
    <3> QED
      BY <1>4, <2>3, FS_AddElement
  <2>5. ready' = ready /\ waiting' = waiting + 1 /\ Len(ready) \in Nat
    BY <1>2, <1>3, <1>9
  <2> HIDE DEF waits, open
  <2> QED
    BY <1>2, <1>3, <1>5, <1>7, <2>4, <2>5 DEF CountersExact, waits, open
<1> QED
  BY <1>8, <1>9

(* Collect takes out the finished job, and moves those it released from the *)
(* waiting jobs to the ready list.                                          *)
LEMMA CollectCounts ==
  ASSUME IInv, CountersExact, Collect
  PROVE  CountersExact'
<1> USE DEF IInv
<1> DEFINE res == Head(donec)
           job == res.job
           released == Released(job)
           waits == {j \in Admitted : remaining[j] > 0}
           open == {j \in Admitted : ~done[j]}
<1>1. /\ loop = "select" /\ donec # <<>> /\ TakeResult(res)
      /\ remaining' = Notified(job)
      /\ waiting' = waiting - Cardinality(released)
      /\ donec' = Tail(donec) /\ pending' = pending - 1 /\ ongoing' = ongoing - 1
      /\ UNCHANGED <<enqueued, deps, enqueuec, current, phase, consumers>>
  BY DEF Collect, TakeResult, callerVars, workerVars
<1>2. PICK q \in ReleaseOrders(released, consumers[job]) : ready' = ready \o q
  BY DEF Collect
<1>3. /\ job \in Job /\ job \in enqueued /\ ~done[job]
      /\ job \notin Members(enqueuec)
      /\ \A j \in Job : done'[j] <=> done[j] \/ j = job
      /\ Busy' = Busy /\ Admitted' = Admitted
  BY <1>1, TakeResultMoves
<1>4. /\ Admitted \subseteq Job /\ IsFiniteSet(waits) /\ IsFiniteSet(open)
  BY CountedFinite, FS_Subset
<1>5. Bookkeeping /\ Bookkeeping'
  BY <1>1, CollectBooked
<1>6. /\ remaining \in [Job -> Int] /\ consumers[job] \in Seq(Job)
      /\ ready \in Seq(Job) /\ donec \in Seq(Result)
      /\ ongoing \in Int /\ pending \in Int /\ waiting \in Int
      /\ deps' \in [Job -> Seq(Job)]
  BY <1>1, <1>3 DEF TypeOK, JobType, LoopType, ChannelType, CallerType
<1>7. Len(donec') = Len(donec) - 1 /\ Len(donec) \in Nat
  BY <1>1, <1>6, HeadTailProperties
<1>8. released \subseteq Job
  BY <1>6, MembersType DEF Released
<1>9. IsFiniteSet(released) /\ Cardinality(released) \in Nat
  BY <1>8, JobAssumption, FS_Subset, FS_CardinalityType
<1>10. Len(ready') = Len(ready) + Cardinality(released) /\ Len(ready) \in Nat
  <2>1. q \in [1..Cardinality(released) -> released]
    BY <1>2 DEF ReleaseOrders
  <2>2. q \in Seq(released)
    BY <1>9, <2>1, SeqDef
  <2>3. q \in Seq(Job)
    BY <1>8, <2>2
  <2>4. Len(q) = Cardinality(released)
    BY <1>9, <2>1, <2>2, LenProperties
  <2> QED
    BY <1>2, <1>6, <2>3, <2>4, ConcatProperties
<1> HIDE DEF job, released
<1>11. waits' = waits \ released /\ released \subseteq waits
  <2>1. ASSUME NEW j \in Job
        PROVE  /\ remaining'[j] = remaining[j] - Count(j, consumers[job])
               /\ Count(j, consumers[job]) \in Nat
               /\ Count(j, consumers[job]) = 0 <=> j \notin Members(consumers[job])
               /\ j \in released <=> /\ j \in Members(consumers[job])
                                    /\ remaining'[j] = 0
    <3>1. remaining'[j] = remaining[j] - Count(j, consumers[job])
      BY <1>1 DEF Notified
    <3>2. j \in released <=> /\ j \in Members(consumers[job])
                            /\ remaining'[j] = 0
      BY <1>1 DEF Released, released
    <3> QED
      BY <1>6, <3>1, <3>2, OccurrencesFinite, CountZero
  <2>2. \A j \in Admitted : remaining'[j] \in Nat
    <3> SUFFICES ASSUME NEW j \in Admitted PROVE remaining'[j] \in Nat
      OBVIOUS
    <3>1. remaining'[j] = Cardinality(Outstanding(deps[j])')
      BY <1>3, <1>5 DEF Bookkeeping
    <3>2. deps[j] \in Seq(Job) /\ deps' = deps
      BY <1>1, <1>4, <1>6
    <3> QED
      BY <3>1, <3>2, OutstandingNext
  <2>3. \A j \in released : j \in Admitted
    BY <1>1, <1>5, ReleasedWaited DEF released, job
  <2>4. ASSUME NEW j \in Admitted
        PROVE  /\ j \in released => remaining[j] > 0 /\ ~(remaining'[j] > 0)
               /\ j \notin released => (remaining'[j] > 0 <=> remaining[j] > 0)
    <3>1. /\ j \in Job /\ remaining[j] \in Int /\ remaining'[j] \in Nat
      BY <1>4, <1>6, <2>2
    <3> QED
      BY <3>1, <2>1
  <2> QED
    BY <1>3, <2>3, <2>4
<1>12. Cardinality(waits') = Cardinality(waits) - Cardinality(released)
  <2> HIDE DEF waits
  <2>1. Cardinality(waits \ released)
           = Cardinality(waits) - Cardinality(waits \intersect released)
    BY <1>4, FS_Difference
  <2>2. waits \intersect released = released
    BY <1>11
  <2> QED
    BY <1>11, <2>1, <2>2
<1>13. open' = open \ {job} /\ job \in open
  BY <1>3, <1>4 DEF Admitted
<1>14. Cardinality(open') = Cardinality(open) - 1
  <2> HIDE DEF open
  <2> QED
    BY <1>4, <1>13, FS_RemoveElement
<1>15. ongoing' = Cardinality(Busy)' + Len(donec)'
  BY <1>1, <1>3, <1>6, <1>7, CountedFinite DEF CountersExact
<1> HIDE DEF waits
<1>16. waiting' = Cardinality(waits')
  BY <1>1, <1>12 DEF CountersExact, waits
<1> HIDE DEF open
<1>17. pending' = Cardinality(open')
  BY <1>1, <1>14 DEF CountersExact, open
<1>18. pending' = Len(ready)' + waiting' + ongoing'
  <2>1. pending = Len(ready) + waiting + ongoing
    BY DEF CountersExact
  <2>2. /\ pending' = pending - 1 /\ ongoing' = ongoing - 1
        /\ waiting' = waiting - Cardinality(released)
    BY <1>1
  <2>3. /\ pending \in Int /\ ongoing \in Int /\ waiting \in Int
        /\ Len(ready) \in Nat /\ Cardinality(released) \in Nat
        /\ Len(ready)' = Len(ready) + Cardinality(released)
    BY <1>6, <1>9, <1>10
  <2>4. Len(ready)' + waiting' = Len(ready) + waiting
    BY <2>2, <2>3
  <2>5. ongoing' \in Int /\ waiting' \in Int /\ Len(ready)' \in Nat
    BY <2>2, <2>3
  <2> QED
    BY <2>1, <2>2, <2>3, <2>4, <2>5
<1> QED
  BY <1>15, <1>16, <1>17, <1>18 DEF CountersExact, waits, open

(* The loop does not come back to its select once it has left it.           *)
LEMMA SelectLeft == TypeOK /\ [Next]_vars /\ loop # "select" => loop' # "select"
<1> SUFFICES ASSUME TypeOK, [Next]_vars, loop # "select" PROVE loop' # "select"
  OBVIOUS
<1>1. CASE Caller \/ CancelCtx \/ Drain \/ Terminated \/ UNCHANGED vars
  BY <1>1
  DEF Caller, Enqueue, CallWait, ReturnFinished, ReturnCtx, CancelCtx, Drain,
      Terminated, vars, loopVars
<1>2. ASSUME NEW w \in Worker, Dispatch(w) \/ WorkerStep(w) PROVE loop' # "select"
  BY <1>2 DEF Dispatch, WorkerStep, Begin, Finish, Post, ExitWorker, loopVars
<1>3. CASE Admit \/ StopAccepting \/ CollectAndQuit \/ Collect \/ Emit \/ ExitLoop
  BY <1>3 DEF Admit, StopAccepting, CollectAndQuit, Collect, Emit, ExitLoop
<1> QED
  BY <1>1, <1>2, <1>3 DEF Next, Loop

(* The counters stay exact, except when the loop quits: its caller then      *)
(* never looks at them again.                                               *)
LEMMA CountersStep ==
  ASSUME IInv, CountersExact, loop = "select", [Next]_vars, ~CollectAndQuit
  PROVE  CountersExact'
<1> USE DEF IInv
<1>1. ASSUME UNCHANGED <<ongoing, pending, waiting, ready, remaining, done, donec,
                         enqueued, enqueuec>>,
             Busy' = Busy
      PROVE  CountersExact'
  BY <1>1, CountersKept DEF Admitted, Members
<1>2. ASSUME NEW j \in Job, Enqueue(j) PROVE CountersExact'
  <2>1. /\ Members(enqueuec') = Members(enqueuec) \union {j}
        /\ enqueued' = enqueued \union {j} /\ j \notin enqueued
    BY <1>2, EnqueuePlaced
  <2>2. UNCHANGED <<ongoing, pending, waiting, ready, remaining, done, donec,
                    phase>>
    BY <1>2 DEF Enqueue, loopVars, jobVars, workerVars
  <2>3. Admitted' = Admitted
    BY <2>1 DEF Admitted, Known, Members
  <2>4. Busy' = Busy
    BY <2>2 DEF Busy
  <2> QED
    BY <2>2, <2>3, <2>4, CountersKept
<1>3. CASE CallWait \/ ReturnFinished \/ ReturnCtx \/ CancelCtx \/ StopAccepting
           \/ Emit \/ Terminated \/ UNCHANGED vars
  <2>1. /\ UNCHANGED <<ongoing, pending, waiting, ready, remaining, done, donec,
                       enqueued, enqueuec>>
        /\ UNCHANGED phase
    BY <1>3
    DEF CallWait, ReturnFinished, ReturnCtx, CancelCtx, StopAccepting, Emit,
        Terminated, vars, callerVars, loopVars, jobVars, workerVars
  <2> QED
    BY <1>1, <2>1 DEF Busy
<1>4. ASSUME NEW w \in Worker, Dispatch(w) PROVE CountersExact'
  BY <1>4, DispatchCounts
<1>5. CASE Admit
  BY <1>5, AdmitCounts
<1>6. CASE Collect
  BY <1>6, CollectCounts
<1>7. ASSUME NEW w \in Worker, WorkerStep(w) PROVE CountersExact'
  <2>1. CASE Post(w)
    BY <2>1, PostCounts
  <2>2. CASE Begin(w) \/ Finish(w) \/ ExitWorker(w)
    <3>1. /\ UNCHANGED <<ongoing, pending, waiting, ready, remaining, done,
                         donec, enqueued, enqueuec>>
          /\ Busy' = Busy
      BY <2>2
      DEF Begin, Finish, ExitWorker, callerVars, loopVars, jobVars, Busy, TypeOK,
          WorkerType
    <3> QED
      BY <1>1, <3>1
  <2> QED
    BY <1>7, <2>1, <2>2 DEF WorkerStep
<1>8. ~Drain /\ ~ExitLoop
  BY DEF Drain, ExitLoop
<1> QED
  BY <1>2, <1>3, <1>4, <1>5, <1>6, <1>7, <1>8 DEF Next, Caller, Loop

(* So every step keeps the counters exact while the loop is in its select.  *)
LEMMA CountedStep == IInv /\ Counted /\ [Next]_vars => Counted'
<1> SUFFICES ASSUME IInv, Counted, [Next]_vars, loop' = "select"
             PROVE  CountersExact'
  BY DEF Counted
<1>1. loop = "select" /\ CountersExact
  BY SelectLeft DEF IInv, Counted
<1>2. ~CollectAndQuit
  BY DEF CollectAndQuit
<1> QED
  BY <1>1, <1>2, CountersStep

(* Nothing is counted at the start.                                         *)
LEMMA InitCounted == Init => Counted
<1> SUFFICES ASSUME Init PROVE CountersExact
  BY DEF Counted
<1>1. Busy = {} /\ Admitted = {}
  BY DEF Init, Busy, Admitted
<1>2. Cardinality({}) = 0
  BY FS_EmptySet
<1>3. /\ {j \in Admitted : remaining[j] > 0} = {}
      /\ {j \in Admitted : ~done[j]} = {}
  BY <1>1
<1>4. /\ ongoing = 0 /\ pending = 0 /\ waiting = 0
      /\ Len(ready) = 0 /\ Len(donec) = 0
  BY DEF Init
<1> QED
  BY <1>1, <1>2, <1>3, <1>4 DEF CountersExact

(* The counters are exact in every state in which the loop uses them.       *)
LEMMA CountedAlways == Spec => []Counted
BY InitCounted, CountedStep, Invariance, PTL DEF Spec

(* ongoing, waiting and pending are what their comments say, although jobs  *)
(* change hands behind the loop's back; so the loop leaves its select when   *)
(* nothing is left to do, and neither earlier nor later.                     *)
THEOREM CountersRight == Spec => []CountersAgree
<1>1. Counted => CountersAgree
  BY DEF Counted, CountersExact, CountersAgree
<1> QED
  BY <1>1, CountedAlways, PTL

-----------------------------------------------------------------------------
(* What the emitter is told                                                *)

(* As many workers are busy as there are jobs held.                         *)
LEMMA HeldCount == IInv => Cardinality(Held) = Cardinality(Busy)
<1> SUFFICES ASSUME IInv PROVE Cardinality(Held) = Cardinality(Busy)
  OBVIOUS
<1> DEFINE f == [w \in Busy |-> current[w]]
<1>1. Held = {current[w] : w \in Busy}
  BY HeldByBusy DEF IInv
<1>2. f \in Injection(Busy, Held)
  BY <1>1 DEF Injection, IsInjective, IInv, OnePlace
<1>3. f \in Surjection(Busy, Held)
  BY <1>1 DEF Surjection
<1>4. ExistsBijection(Busy, Held)
  BY <1>2, <1>3 DEF ExistsBijection, Bijection
<1> QED
  BY <1>4, CountedFinite, FS_Bijection DEF IInv

(* Every State given to the emitter adds up, counts each job once, and      *)
(* reports no worker idle that holds a job.                                  *)
THEOREM ReportHonest == Spec => HonestReport
<1> DEFINE Honest ==
      emitted' # emitted =>
        /\ emitted'.Pending = emitted'.Ready + emitted'.Waiting
                                + Cardinality(Held) + Len(donec)
        /\ emitted'.IdleWorkers <= Concurrency - Cardinality(Busy)
        /\ emitted'.IdleWorkers >= 0
<1>1. IInv /\ Counted /\ [Next]_vars => [Honest]_vars
  <2> SUFFICES ASSUME IInv, Counted, [Next]_vars PROVE Honest
    OBVIOUS
  <2>1. CASE Emit
    <3>1. /\ emitted'.Pending = pending /\ emitted'.Ready = Len(ready)
          /\ emitted'.Waiting = waiting
          /\ emitted'.IdleWorkers = IdleWorkers(Concurrency, ongoing)
      BY <2>1 DEF Emit
    <3>2. CountersExact
      BY <2>1 DEF Emit, Counted
    <3>3. /\ pending = Len(ready) + waiting + ongoing
          /\ ongoing = Cardinality(Held) + Len(donec)
          /\ Cardinality(Held) = Cardinality(Busy)
      BY <3>2, HeldCount DEF CountersExact
    <3>4. /\ Cardinality(Busy) \in Nat /\ Concurrency \in Nat
          /\ Cardinality(Busy) <= Concurrency
          /\ Len(ready) \in Nat /\ Len(donec) \in Nat /\ waiting \in Int
      BY CountedFinite, ConcurrencyType DEF IInv, TypeOK, LoopType, ChannelType
    <3>5. /\ IdleWorkers(Concurrency, ongoing) <= Concurrency - Cardinality(Busy)
          /\ IdleWorkers(Concurrency, ongoing) >= 0
      BY <3>3, <3>4 DEF IdleWorkers
    <3>6. pending = Len(ready) + waiting + Cardinality(Held) + Len(donec)
      BY <3>3, <3>4
    <3> QED
      BY <3>1, <3>5, <3>6
  <2>2. ASSUME UNCHANGED emitted PROVE Honest
    BY <2>2
  <2>3. CASE Caller \/ CancelCtx \/ Terminated \/ UNCHANGED vars
    BY <2>2, <2>3
    DEF Caller, Enqueue, CallWait, ReturnFinished, ReturnCtx, CancelCtx,
        Terminated, vars
  <2>4. ASSUME NEW w \in Worker, Dispatch(w) \/ WorkerStep(w) PROVE Honest
    BY <2>2, <2>4 DEF Dispatch, WorkerStep, Begin, Finish, Post, ExitWorker
  <2>5. CASE Admit \/ StopAccepting \/ CollectAndQuit \/ Collect \/ Drain
             \/ ExitLoop
    BY <2>2, <2>5
    DEF Admit, StopAccepting, CollectAndQuit, Collect, Drain, ExitLoop
  <2> QED
    BY <2>1, <2>3, <2>4, <2>5 DEF Next, Loop
<1> QED
  BY <1>1, Invariance, CountedAlways, PTL DEF Spec, HonestReport

-----------------------------------------------------------------------------
(* What Wait returns: the inductive invariant                              *)

(* The loop stops accepting only when no job can come any more.             *)
ClosedForGood == ~accepting => Closed /\ enqueuec = <<>>

(* Scheduler.err combines exactly the failures of the jobs that are done.   *)
ErrorsRecorded ==
    /\ \A j \in schedErr : done[j] /\ err[j] \in {"fail", "exit", "ctx"}
    /\ \A j \in Job : done[j] /\ err[j] \notin {"none", "invalid"} => j \in schedErr

(* As long as no failure was recorded no job is invalid, wherever it is, so  *)
(* the sentinel is never the only sign of a failure.                        *)
InvalidForCause ==
    schedErr = {} =>
        /\ \A j \in Job : ~invalid[j] /\ (done[j] => err[j] = "none")
        /\ \A w \in Worker : outcome[w] # "invalid"
        /\ \A i \in DOMAIN donec : donec[i].err # "invalid"

(* Without ContinueOnError the first failure is the last thing recorded.    *)
QuitsOnce ==
    ~ContinueOnError =>
        schedErr = {} \/ (loop # "select" /\ Cardinality(schedErr) = 1)

(* A loop that has left its select without quitting has finished every job. *)
AllSeenTo ==
    loop # "select" /\ (ContinueOnError \/ schedErr = {}) =>
        ~accepting /\ \A j \in enqueued : done[j]

(* Wait reads Scheduler.err only after the loop has closed finishedc.       *)
ResultRead ==
    /\ result # "none" => caller = "returned"
    /\ result = "nil" => loop = "exited" /\ schedErr = {}
    /\ result = "err" => loop = "exited" /\ schedErr # {}

Outcome ==
    /\ IInv /\ Counted
    /\ ClosedForGood /\ ErrorsRecorded /\ InvalidForCause
    /\ QuitsOnce /\ AllSeenTo /\ ResultRead

-----------------------------------------------------------------------------
(* ... and its preservation, conjunct by conjunct                          *)

(* After its select the loop settles no job and records no error.           *)
LEMMA SettledAfterSelect ==
  ASSUME [Next]_vars, loop # "select"
  PROVE  UNCHANGED <<accepting, schedErr, done, err, invalid>>
<1>1. CASE Caller \/ CancelCtx \/ Drain \/ Terminated \/ UNCHANGED vars
  BY <1>1
  DEF Caller, Enqueue, CallWait, ReturnFinished, ReturnCtx, CancelCtx, Drain,
      Terminated, vars, loopVars, jobVars
<1>2. ASSUME NEW w \in Worker, Dispatch(w) \/ WorkerStep(w)
      PROVE  UNCHANGED <<accepting, schedErr, done, err, invalid>>
  BY <1>2
  DEF Dispatch, WorkerStep, Begin, Finish, Post, ExitWorker, loopVars, jobVars
<1>3. CASE Admit \/ StopAccepting \/ CollectAndQuit \/ Collect \/ Emit \/ ExitLoop
  BY <1>3
  DEF Admit, StopAccepting, CollectAndQuit, Collect, Emit, ExitLoop, jobVars
<1> QED
  BY <1>1, <1>2, <1>3 DEF Next, Loop

(* Only results settle jobs and record errors.                              *)
LEMMA SettledByResults ==
  ASSUME [Next]_vars, ~Collect, ~CollectAndQuit
  PROVE  UNCHANGED <<schedErr, done, err>>
<1>1. CASE Caller \/ CancelCtx \/ Drain \/ Terminated \/ UNCHANGED vars
  BY <1>1
  DEF Caller, Enqueue, CallWait, ReturnFinished, ReturnCtx, CancelCtx, Drain,
      Terminated, vars, loopVars, jobVars
<1>2. ASSUME NEW w \in Worker, Dispatch(w) \/ WorkerStep(w)
      PROVE  UNCHANGED <<schedErr, done, err>>
  BY <1>2
  DEF Dispatch, WorkerStep, Begin, Finish, Post, ExitWorker, loopVars, jobVars
<1>3. CASE Admit \/ StopAccepting \/ Emit \/ ExitLoop
  BY <1>3 DEF Admit, StopAccepting, Emit, ExitLoop, jobVars
<1> QED
  BY <1>1, <1>2, <1>3 DEF Next, Loop

(* Only Enqueue creates jobs.                                               *)
LEMMA EnqueuedByCaller ==
  ASSUME [Next]_vars, \A j \in Job : ~Enqueue(j)
  PROVE  UNCHANGED <<enqueued, deps>>
<1>1. CASE CallWait \/ ReturnFinished \/ ReturnCtx \/ CancelCtx \/ Terminated
           \/ UNCHANGED vars
  BY <1>1
  DEF CallWait, ReturnFinished, ReturnCtx, CancelCtx, Terminated, vars, callerVars
<1>2. ASSUME NEW w \in Worker, Dispatch(w) \/ WorkerStep(w)
      PROVE  UNCHANGED <<enqueued, deps>>
  BY <1>2
  DEF Dispatch, WorkerStep, Begin, Finish, Post, ExitWorker, callerVars
<1>3. CASE Admit \/ StopAccepting \/ CollectAndQuit \/ Collect \/ Emit \/ Drain
           \/ ExitLoop
  BY <1>3
  DEF Admit, StopAccepting, CollectAndQuit, Collect, Emit, Drain, ExitLoop,
      callerVars
<1> QED
  BY <1>1, <1>2, <1>3 DEF Next, Caller, Loop

(* Nobody sends on enqueuec after it was closed.                            *)
LEMMA ClosedForGoodStep == ClosedForGood /\ [Next]_vars => ClosedForGood'
<1> SUFFICES ASSUME ClosedForGood, [Next]_vars PROVE ClosedForGood'
  OBVIOUS
<1> USE DEF ClosedForGood, Closed
<1>1. CASE Caller
  BY <1>1
  DEF Caller, Enqueue, CallWait, ReturnFinished, ReturnCtx, loopVars
<1>2. CASE CancelCtx \/ Drain \/ Terminated \/ UNCHANGED vars
  BY <1>2 DEF CancelCtx, Drain, Terminated, vars, callerVars, loopVars
<1>3. ASSUME NEW w \in Worker, Dispatch(w) \/ WorkerStep(w) PROVE ClosedForGood'
  BY <1>3
  DEF Dispatch, WorkerStep, Begin, Finish, Post, ExitWorker, callerVars, loopVars
<1>4. CASE Admit \/ StopAccepting \/ CollectAndQuit \/ Collect \/ Emit \/ ExitLoop
  BY <1>4
  DEF Admit, StopAccepting, CollectAndQuit, Collect, Emit, ExitLoop, callerVars
<1> QED
  BY <1>1, <1>2, <1>3, <1>4 DEF Next, Loop

(* A result that makes the loop quit is the first failure, and a real one.  *)
LEMMA QuitsOnFailure ==
  ASSUME Outcome, CollectAndQuit
  PROVE  /\ schedErr = {} /\ schedErr' = {Head(donec).job}
         /\ Head(donec).err \in {"fail", "exit", "ctx"}
<1> USE DEF Outcome
<1>1. /\ loop = "select" /\ donec # <<>> /\ ~ContinueOnError
      /\ Head(donec).err # "none" /\ schedErr' = {Head(donec).job}
  BY DEF CollectAndQuit, Quits
<1>2. schedErr = {}
  BY <1>1 DEF QuitsOnce
<1>3. Head(donec) \in Result /\ 1 \in DOMAIN donec /\ Head(donec) = donec[1]
  BY <1>1, HeadTailProperties DEF IInv, TypeOK, ChannelType
<1>4. Head(donec).err # "invalid"
  BY <1>2, <1>3 DEF InvalidForCause
<1> QED
  BY <1>1, <1>2, <1>3, <1>4 DEF Result, Err

(* Each result that is received is recorded in Scheduler.err or is no failure.*)
LEMMA ErrorsRecordedStep == Outcome /\ [Next]_vars => ErrorsRecorded'
<1> SUFFICES ASSUME Outcome, [Next]_vars PROVE ErrorsRecorded'
  OBVIOUS
<1> USE DEF Outcome
<1> DEFINE res == Head(donec)
           job == res.job
<1>1. schedErr \subseteq Job
  BY DEF IInv, TypeOK, LoopType
<1>2. CASE CollectAndQuit
  <2>1. donec # <<>> /\ TakeResult(res) /\ UNCHANGED <<enqueued, enqueuec, current, phase>>
    BY <1>2 DEF CollectAndQuit, callerVars, workerVars
  <2>2. /\ job \in Job
        /\ \A j \in Job : done'[j] <=> done[j] \/ j = job
        /\ \A j \in Job : j # job => err'[j] = err[j]
        /\ err'[job] = res.err
    BY <2>1, TakeResultMoves
  <2>3. /\ schedErr = {} /\ schedErr' = {job}
        /\ res.err \in {"fail", "exit", "ctx"}
    BY <1>2, QuitsOnFailure
  <2> QED
    BY <2>2, <2>3 DEF ErrorsRecorded
<1>3. CASE Collect
  <2>1. /\ donec # <<>> /\ TakeResult(res) /\ schedErr' = Combine(res)
        /\ UNCHANGED <<enqueued, enqueuec, current, phase>>
    BY <1>3 DEF Collect, callerVars, workerVars
  <2>2. /\ job \in Job /\ res \in Result /\ ~done[job]
        /\ \A j \in Job : done'[j] <=> done[j] \/ j = job
        /\ \A j \in Job : j # job => err'[j] = err[j]
        /\ err'[job] = res.err
    BY <2>1, TakeResultMoves
  <2>3. res.err \in {"none", "fail", "exit", "ctx", "invalid"}
    BY <2>2 DEF Result, Err
  <2> QED
    BY <1>1, <2>1, <2>2, <2>3 DEF ErrorsRecorded, Combine
<1>4. CASE ~Collect /\ ~CollectAndQuit
  BY <1>4, SettledByResults DEF ErrorsRecorded
<1> QED
  BY <1>2, <1>3, <1>4

(* The sentinel appears only after a failure was recorded.                  *)
LEMMA InvalidForCauseStep == Outcome /\ [Next]_vars => InvalidForCause'
<1> SUFFICES ASSUME Outcome, [Next]_vars, schedErr' = {} PROVE InvalidForCause'
  BY DEF InvalidForCause
<1> USE DEF Outcome
<1> DEFINE res == Head(donec)
           job == res.job
<1>1. ~CollectAndQuit
  BY DEF CollectAndQuit
<1>2. schedErr = {}
  <2>1. CASE Collect
    BY <2>1 DEF Collect, Combine
  <2> QED
    BY <1>1, <2>1, SettledByResults
<1>3. /\ \A j \in Job : ~invalid[j] /\ (done[j] => err[j] = "none")
      /\ \A w \in Worker : outcome[w] # "invalid"
      /\ \A i \in DOMAIN donec : donec[i].err # "invalid"
  BY <1>2 DEF InvalidForCause
<1>4. ASSUME UNCHANGED <<invalid, done, err, outcome, donec>> PROVE InvalidForCause'
  BY <1>3, <1>4 DEF InvalidForCause
<1>5. CASE Admit
  <2> DEFINE new == Head(enqueuec)
             ds == deps[new]
  <2>1. /\ invalid' = [invalid EXCEPT ![new] = BornInvalid(ds)]
        /\ UNCHANGED <<done, err, outcome, donec>>
    BY <1>5 DEF Admit, workerVars
  <2>2. new \in Job
    BY <1>5, AdmitPlaced
  <2>3. ds \in Seq(Job) /\ invalid \in [Job -> BOOLEAN]
    BY <2>2 DEF IInv, TypeOK, CallerType, JobType
  <2>4. ~BornInvalid(ds)
    BY <1>3, <2>3 DEF BornInvalid
  <2>5. \A j \in Job : ~invalid'[j]
    BY <1>3, <2>1, <2>3, <2>4
  <2> QED
    BY <1>3, <2>1, <2>5 DEF InvalidForCause
<1>6. CASE Collect
  <2>1. /\ donec # <<>> /\ TakeResult(res) /\ schedErr' = Combine(res)
        /\ invalid' = Invalidate(res) /\ donec' = Tail(donec)
        /\ UNCHANGED <<enqueued, enqueuec, current, phase, outcome>>
    BY <1>6 DEF Collect, TakeResult, callerVars, workerVars
  <2>2. /\ job \in Job
        /\ \A j \in Job : done'[j] <=> done[j] \/ j = job
        /\ \A j \in Job : j # job => err'[j] = err[j]
        /\ err'[job] = res.err
    BY <2>1, TakeResultMoves
  <2>3. /\ res = donec[1] /\ 1 \in DOMAIN donec
        /\ \A i \in DOMAIN donec' : i + 1 \in DOMAIN donec /\ donec'[i] = donec[i + 1]
    BY <2>1, HeadTailProperties DEF IInv, TypeOK, ChannelType
  <2>4. res.err = "none"
    BY <1>3, <2>1, <2>3 DEF Combine
  <2>5. \A j \in Job : ~invalid'[j]
    BY <1>3, <2>1, <2>4 DEF Invalidate
  <2>6. \A j \in Job : done'[j] => err'[j] = "none"
    BY <1>3, <2>2, <2>4
  <2>7. \A i \in DOMAIN donec' : donec'[i].err # "invalid"
    BY <1>3, <2>3
  <2> QED
    BY <1>3, <2>1, <2>5, <2>6, <2>7 DEF InvalidForCause
<1>7. ASSUME NEW w \in Worker, Begin(w) \/ Finish(w) PROVE InvalidForCause'
  <2>1. UNCHANGED <<invalid, done, err, donec>>
    BY <1>7 DEF Begin, Finish, jobVars
  <2>2. phase[w] = "got" => ~invalid[current[w]]
    BY <1>3, HeldByBusy DEF IInv, Busy
  <2>3. \A v \in Worker : outcome'[v] # "invalid"
    BY <1>3, <1>7, <2>2 DEF Begin, Finish, IInv, TypeOK, WorkerType
  <2> QED
    BY <1>3, <2>1, <2>3 DEF InvalidForCause
<1>8. ASSUME NEW w \in Worker, Post(w) PROVE InvalidForCause'
  <2>1. /\ donec' = Append(donec, [job |-> current[w], err |-> outcome[w]])
        /\ outcome' = [outcome EXCEPT ![w] = "none"]
        /\ UNCHANGED <<invalid, done, err>>
    BY <1>8 DEF Post, jobVars
  <2>2. \A v \in Worker : outcome'[v] # "invalid"
    BY <1>3, <2>1 DEF IInv, TypeOK, WorkerType
  <2>3. \A i \in DOMAIN donec' :
           \/ i \in DOMAIN donec /\ donec'[i] = donec[i]
           \/ donec'[i] = [job |-> current[w], err |-> outcome[w]]
    BY <2>1 DEF IInv, TypeOK, ChannelType
  <2>4. \A i \in DOMAIN donec' : donec'[i].err # "invalid"
    BY <1>3, <2>3
  <2> QED
    BY <1>3, <2>1, <2>2, <2>4 DEF InvalidForCause
<1>9. ASSUME NEW w \in Worker, Dispatch(w) \/ ExitWorker(w) PROVE InvalidForCause'
  BY <1>4, <1>9 DEF Dispatch, ExitWorker, jobVars
<1>10. CASE Caller \/ CancelCtx \/ Terminated \/ UNCHANGED vars
  BY <1>4, <1>10
  DEF Caller, Enqueue, CallWait, ReturnFinished, ReturnCtx, CancelCtx,
      Terminated, vars, jobVars, workerVars
<1>11. CASE StopAccepting \/ Emit \/ Drain \/ ExitLoop
  BY <1>4, <1>11 DEF StopAccepting, Emit, Drain, ExitLoop, jobVars, workerVars
<1> QED
  BY <1>1, <1>5, <1>6, <1>7, <1>8, <1>9, <1>10, <1>11
  DEF Next, Loop, WorkerStep

(* Without ContinueOnError no result is received after the first failure.   *)
LEMMA QuitsOnceStep == Outcome /\ [Next]_vars => QuitsOnce'
<1> SUFFICES ASSUME Outcome, [Next]_vars, ~ContinueOnError PROVE QuitsOnce'
  BY DEF QuitsOnce
<1> USE DEF Outcome
<1>1. CASE CollectAndQuit
  <2>1. loop' = "draining" /\ schedErr' = {Head(donec).job}
    BY <1>1 DEF CollectAndQuit
  <2>2. Cardinality({Head(donec).job}) = 1
    BY FS_Singleton
  <2> QED
    BY <2>1, <2>2 DEF QuitsOnce
<1>2. CASE ~CollectAndQuit
  <2>1. schedErr' = schedErr
    BY <1>2, SettledByResults DEF Collect, Quits, Combine
  <2>2. loop # "select" => loop' # "select"
    BY SelectLeft DEF IInv
  <2> QED
    BY <2>1, <2>2 DEF QuitsOnce
<1> QED
  BY <1>1, <1>2

(* The step that leaves the select without quitting tested the counters.    *)
LEMMA LeavesWhenNonePending ==
  ASSUME [Next]_vars, loop = "select", loop' # "select", ~CollectAndQuit
  PROVE  pending' = 0 /\ ~accepting'
<1>1. ~(Caller \/ CancelCtx \/ Drain \/ ExitLoop \/ Terminated \/ UNCHANGED vars)
  BY DEF Caller, Enqueue, CallWait, ReturnFinished, ReturnCtx, CancelCtx, Drain,
         ExitLoop, Terminated, vars, loopVars
<1>2. \A w \in Worker : ~WorkerStep(w)
  BY DEF WorkerStep, Begin, Finish, Post, ExitWorker, loopVars
<1>3. ASSUME NEW w \in Worker, Dispatch(w) PROVE pending' = 0 /\ ~accepting'
  BY <1>3 DEF Dispatch, AfterSelect
<1>4. CASE Admit \/ StopAccepting \/ Collect \/ Emit
  BY <1>4 DEF Admit, StopAccepting, Collect, Emit, AfterSelect
<1> QED
  BY <1>1, <1>2, <1>3, <1>4 DEF Next, Loop

(* The exit test finds the counters exact, so pending = 0 means all done.   *)
LEMMA AllSeenToStep == Outcome /\ [Next]_vars => AllSeenTo'
<1> SUFFICES ASSUME Outcome, [Next]_vars, loop' # "select",
                    ContinueOnError \/ schedErr' = {}
             PROVE  ~accepting' /\ \A j \in enqueued' : done'[j]
  BY DEF AllSeenTo
<1> USE DEF Outcome
<1>1. CASE loop # "select"
  <2>1. UNCHANGED <<accepting, schedErr, done>>
    BY <1>1, SettledAfterSelect
  <2>2. ~accepting /\ \A j \in enqueued : done[j]
    BY <1>1, <2>1 DEF AllSeenTo
  <2>3. enqueued' = enqueued
    <3>1. \A j \in Job : ~Enqueue(j)
      BY <2>2 DEF ClosedForGood, Closed, Enqueue
    <3> QED
      BY <3>1, EnqueuedByCaller
  <2> QED
    BY <2>1, <2>2, <2>3
<1>2. CASE loop = "select"
  <2>1. ~CollectAndQuit
    BY DEF CollectAndQuit, Quits
  <2>2. pending' = 0 /\ ~accepting'
    BY <1>2, <2>1, LeavesWhenNonePending
  <2>3. CountersExact'
    BY <1>2, <2>1, CountersStep DEF Counted
  <2>4. TypeOK'
    BY TypedStep DEF IInv
  <2>5. enqueuec' = <<>>
    BY <2>2, ClosedForGoodStep DEF ClosedForGood
  <2>6. Admitted' = enqueued'
    BY <2>5 DEF Admitted, Members
  <2>7. {j \in Admitted' : ~done'[j]} = {}
    <3> DEFINE open == {j \in Admitted' : ~done'[j]}
    <3>1. enqueued' \subseteq Job
      BY <2>4 DEF TypeOK, CallerType
    <3>2. IsFiniteSet(open)
      BY <2>6, <3>1, JobAssumption, FS_Subset
    <3>3. Cardinality(open) = 0
      BY <2>2, <2>3 DEF CountersExact
    <3> HIDE DEF open
    <3>4. open = {}
      BY <3>2, <3>3, FS_EmptySet
    <3> QED
      BY <3>4 DEF open
  <2> QED
    BY <2>2, <2>6, <2>7
<1> QED
  BY <1>1, <1>2

(* Wait returns once, and by then Scheduler.err is final.                   *)
LEMMA ResultReadStep == Outcome /\ [Next]_vars => ResultRead'
<1> SUFFICES ASSUME Outcome, [Next]_vars PROVE ResultRead'
  OBVIOUS
<1> USE DEF Outcome, ResultRead
<1>1. CASE ReturnFinished
  BY <1>1 DEF ReturnFinished, FinalResult, loopVars
<1>2. CASE ReturnCtx
  BY <1>2 DEF ReturnCtx, loopVars
<1>3. ASSUME result' = result, caller = "returned" => caller' = "returned",
             loop = "exited" => loop' = "exited"
      PROVE  ResultRead'
  BY <1>3, SettledAfterSelect
<1>4. ASSUME NEW j \in Job, Enqueue(j) \/ CallWait PROVE ResultRead'
  BY <1>3, <1>4 DEF Enqueue, CallWait, loopVars
<1>5. CASE CancelCtx \/ Drain \/ Terminated \/ UNCHANGED vars
  BY <1>3, <1>5 DEF CancelCtx, Drain, Terminated, vars, callerVars, loopVars
<1>6. ASSUME NEW w \in Worker, Dispatch(w) \/ WorkerStep(w) PROVE ResultRead'
  BY <1>3, <1>6
  DEF Dispatch, WorkerStep, Begin, Finish, Post, ExitWorker, callerVars, loopVars
<1>7. CASE Admit \/ StopAccepting \/ CollectAndQuit \/ Collect \/ Emit \/ ExitLoop
  BY <1>3, <1>7
  DEF Admit, StopAccepting, CollectAndQuit, Collect, Emit, ExitLoop, callerVars
<1>8. CASE CallWait
  BY <1>3, <1>8 DEF CallWait, loopVars
<1> QED
  BY <1>1, <1>2, <1>4, <1>5, <1>6, <1>7, <1>8 DEF Next, Caller, Loop

-----------------------------------------------------------------------------
(* The theorem                                                             *)

(* The strengthened invariant holds before anything was enqueued ...        *)
LEMMA InitOutcome == Init => Outcome
<1> SUFFICES ASSUME Init PROVE Outcome
  OBVIOUS
<1>1. IInv /\ Counted
  BY InitSafe, InitCounted
<1>2. ClosedForGood /\ ErrorsRecorded /\ QuitsOnce /\ AllSeenTo /\ ResultRead
  BY DEF Init, ClosedForGood, ErrorsRecorded, QuitsOnce, AllSeenTo, ResultRead
<1>3. InvalidForCause
  BY DEF Init, InvalidForCause
<1> QED
  BY <1>1, <1>2, <1>3 DEF Outcome

(* ... is preserved by every step ...                                       *)
LEMMA OutcomeStep == Outcome /\ [Next]_vars => Outcome'
BY SafeStep, CountedStep, ClosedForGoodStep, ErrorsRecordedStep,
   InvalidForCauseStep, QuitsOnceStep, AllSeenToStep, ResultReadStep
DEF Outcome

(* ... and so holds always.                                                 *)
LEMMA OutcomeInvariance == Spec => []Outcome
BY InitOutcome, OutcomeStep, PTL DEF Spec

(* A finished loop with no recorded failure means that every job succeeded. *)
LEMMA NoErrorMeansSuccess ==
  ASSUME Outcome, loop = "exited", schedErr = {}
  PROVE  \A j \in enqueued : done[j] /\ err[j] = "none"
<1>1. enqueued \subseteq Job
  BY DEF Outcome, IInv, TypeOK, CallerType
<1> QED
  BY <1>1 DEF Outcome, AllSeenTo, InvalidForCause

(* nil from Wait means that every job ran and succeeded. An error means     *)
(* that a job failed: with ContinueOnError it combines exactly the failures *)
(* of all jobs, each of which was seen to; without it is one job's failure. *)
THEOREM WaitTellsTheTruth == Spec => []WaitOutcome
<1>1. Outcome => WaitOutcome
  <2> SUFFICES ASSUME Outcome PROVE WaitOutcome
    OBVIOUS
  <2>1. result = "nil" => \A j \in enqueued : done[j] /\ err[j] = "none"
    BY NoErrorMeansSuccess DEF Outcome, ResultRead
  <2>2. ASSUME result = "err"
        PROVE  /\ schedErr # {}
               /\ \A j \in schedErr : done[j] /\ err[j] \in {"fail", "exit", "ctx"}
    BY <2>2 DEF Outcome, ResultRead, ErrorsRecorded
  <2>3. ASSUME result = "err", ContinueOnError
        PROVE  \A j \in enqueued :
                  done[j] /\ (err[j] \notin {"none", "invalid"} => j \in schedErr)
    <3>1. enqueued \subseteq Job
      BY DEF Outcome, IInv, TypeOK, CallerType
    <3> QED
      BY <2>3, <3>1 DEF Outcome, ResultRead, AllSeenTo, ErrorsRecorded
  <2>4. ASSUME result = "err", ~ContinueOnError
        PROVE  Cardinality(schedErr) = 1
    BY <2>4 DEF Outcome, ResultRead, QuitsOnce
  <2> QED
    BY <2>1, <2>2, <2>3, <2>4 DEF WaitOutcome
<1> QED
  BY <1>1, OutcomeInvariance, PTL

-----------------------------------------------------------------------------
(* The abstract status of a job                                            *)

(* A job's status is told by the place it is in: done, donec, a worker, or  *)
(* any other place. StatusOf picks a result and a worker; there is only one *)
(* to pick, for a job is in one place.                                      *)
StatusRight ==
    \A j \in Job :
        /\ j \notin enqueued => StatusOf(j) = "unknown"
        /\ done[j] => StatusOf(j) = Verdict(err[j])
        /\ \A i \in DOMAIN donec :
              donec[i].job = j => StatusOf(j) = Verdict(donec[i].err)
        /\ \A w \in Worker : current[w] = j =>
              /\ phase[w] = "posting" => StatusOf(j) = Verdict(outcome[w])
              /\ phase[w] = "running" => StatusOf(j) = "running"
              /\ phase[w] = "got" => StatusOf(j) = "submitted"
        /\ j \in enqueued /\ ~done[j] /\ j \notin Held \union Reported =>
              StatusOf(j) = "submitted"

LEMMA StatusByPlace == IInv => StatusRight
<1> SUFFICES ASSUME IInv, NEW j \in Job
             PROVE
        /\ j \notin enqueued => StatusOf(j) = "unknown"
        /\ done[j] => StatusOf(j) = Verdict(err[j])
        /\ \A i \in DOMAIN donec :
              donec[i].job = j => StatusOf(j) = Verdict(donec[i].err)
        /\ \A w \in Worker : current[w] = j =>
              /\ phase[w] = "posting" => StatusOf(j) = Verdict(outcome[w])
              /\ phase[w] = "running" => StatusOf(j) = "running"
              /\ phase[w] = "got" => StatusOf(j) = "submitted"
        /\ j \in enqueued /\ ~done[j] /\ j \notin Held \union Reported =>
              StatusOf(j) = "submitted"
  BY DEF StatusRight
<1> USE DEF IInv
<1>1. j \notin enqueued => StatusOf(j) = "unknown"
  BY DEF StatusOf
<1>2. done[j] => StatusOf(j) = Verdict(err[j])
  BY DEF StatusOf, Known
<1>3. j \notin Reported => Results(j) = {}
  BY DEF Results, Reported
<1>4. j \notin Held => Holder(j) = {}
  BY JobAssumption DEF Holder, Held
<1>5. ASSUME NEW i \in DOMAIN donec, donec[i].job = j
      PROVE  StatusOf(j) = Verdict(donec[i].err)
  <2>1. j \in Reported
    BY <1>5 DEF Reported
  <2>2. j \in enqueued /\ ~done[j]
    BY <2>1 DEF Known, OnePlace
  <2>3. Results(j) = {donec[i]}
    BY <1>5 DEF Results, OnePlace
  <2>4. (CHOOSE r \in Results(j) : TRUE) = donec[i]
    BY <2>3
  <2> QED
    BY <2>2, <2>3, <2>4 DEF StatusOf
<1>6. ASSUME NEW w \in Worker, current[w] = j
      PROVE  /\ phase[w] = "posting" => StatusOf(j) = Verdict(outcome[w])
             /\ phase[w] = "running" => StatusOf(j) = "running"
             /\ phase[w] = "got" => StatusOf(j) = "submitted"
  <2>1. j \in Held
    BY <1>6, JobAssumption DEF Held
  <2>2. j \in enqueued /\ ~done[j] /\ Results(j) = {}
    BY <1>3, <2>1 DEF Known, OnePlace
  <2>3. Holder(j) = {w}
    <3>1. \A v \in Worker : current[v] = j => v \in Busy
      BY JobAssumption DEF HandsFull
    <3>2. \A v \in Worker : current[v] = j => v = w
      BY <1>6, <3>1 DEF OnePlace
    <3> QED
      BY <1>6, <3>2 DEF Holder
  <2>4. phase[w] = "posting" => (CHOOSE v \in Holder(j) : phase[v] = "posting") = w
    BY <2>3
  <2> QED
    BY <2>2, <2>3, <2>4 DEF StatusOf
<1>7. j \in enqueued /\ ~done[j] /\ j \notin Held \union Reported =>
         StatusOf(j) = "submitted"
  BY <1>3, <1>4 DEF StatusOf
<1> QED
  BY <1>1, <1>2, <1>5, <1>6, <1>7

(* StatusByPlace in the state after a step.                                 *)
LEMMA StatusByPlaceNext == IInv' => StatusRight'
BY StatusByPlace, PTL

(* The jobs submitted to the abstract graph are those Enqueue created.      *)
LEMMA SubmittedJobs ==
  ASSUME IInv
  PROVE  /\ \A j \in Job : StatusOf(j) # "unknown" <=> j \in enqueued
         /\ Graph!Submitted = enqueued
<1>1. StatusRight /\ enqueued \subseteq Job
  BY StatusByPlace DEF IInv, TypeOK, CallerType
<1>2. ASSUME NEW e \in Err PROVE Verdict(e) # "unknown"
  BY DEF Verdict, Err
<1> USE DEF IInv
<1>3. ASSUME NEW j \in Job, j \in enqueued PROVE StatusOf(j) # "unknown"
  <2>1. CASE done[j]
    BY <1>1, <1>2, <2>1 DEF StatusRight, TypeOK, JobType
  <2>2. CASE j \in Reported
    <3>1. PICK i \in DOMAIN donec : donec[i].job = j
      BY <2>2 DEF Reported
    <3>2. donec[i] \in Result
      BY DEF TypeOK, ChannelType
    <3> QED
      BY <1>1, <1>2, <3>1, <3>2 DEF StatusRight, Result
  <2>3. CASE j \in Held
    <3>1. PICK w \in Busy : current[w] = j
      BY <2>3, HeldByBusy
    <3> QED
      BY <1>1, <1>2, <3>1 DEF StatusRight, Busy, TypeOK, WorkerType
  <2>4. CASE ~done[j] /\ j \notin Held \union Reported
    BY <1>1, <1>3, <2>4 DEF StatusRight
  <2> QED
    BY <2>1, <2>2, <2>3, <2>4
<1>4. \A j \in Job : StatusOf(j) # "unknown" <=> j \in enqueued
  BY <1>1, <1>3 DEF StatusRight
<1> QED
  BY <1>1, <1>4 DEF Graph!Submitted

(* A job that is done is settled in the abstract graph, as its error says.  *)
LEMMA DoneIsSettled ==
  ASSUME IInv, NEW j \in Job, done[j]
  PROVE  /\ StatusOf(j) \in {"succeeded", "failed", "skipped"}
         /\ StatusOf(j) = "succeeded" <=> err[j] = "none"
<1>1. StatusOf(j) = Verdict(err[j])
  BY StatusByPlace DEF StatusRight
<1>2. err[j] \in Err
  BY DEF IInv, TypeOK, JobType
<1> QED
  BY <1>1, <1>2 DEF Verdict, Err

(* A job that nothing happens to keeps its status.                          *)
LEMMA StatusKept ==
  ASSUME IInv, IInv', NEW k \in Job,
         k \in enqueued' <=> k \in enqueued,
         done'[k] <=> done[k], err'[k] = err[k],
         \A i \in DOMAIN donec :
            donec[i].job = k => \E n \in DOMAIN donec' : donec'[n] = donec[i],
         k \in Held' => k \in Held, k \in Reported' => k \in Reported,
         \A w \in Worker : current[w] = k =>
            /\ current'[w] = current[w] /\ phase'[w] = phase[w]
            /\ outcome'[w] = outcome[w]
  PROVE  StatusOf(k)' = StatusOf(k)
<1>1. StatusRight /\ StatusRight'
  BY StatusByPlace, StatusByPlaceNext
<1>2. CASE k \notin enqueued
  BY <1>1, <1>2 DEF StatusRight
<1>3. CASE done[k]
  BY <1>1, <1>3 DEF StatusRight
<1>4. CASE k \in Reported
  <2>1. PICK i \in DOMAIN donec : donec[i].job = k
    BY <1>4 DEF Reported
  <2>2. PICK n \in DOMAIN donec' : donec'[n] = donec[i]
    BY <2>1
  <2>3. StatusOf(k) = Verdict(donec[i].err)
    BY <1>1, <2>1 DEF StatusRight
  <2>4. StatusOf(k)' = Verdict(donec'[n].err)
    BY <1>1, <2>1, <2>2 DEF StatusRight
  <2> QED
    BY <2>2, <2>3, <2>4
<1>5. CASE k \in Held
  <2>1. PICK w \in Busy : current[w] = k
    BY <1>5, HeldByBusy DEF IInv
  <2> QED
    BY <1>1, <2>1 DEF StatusRight, Busy
<1>6. CASE k \in enqueued /\ ~done[k] /\ k \notin Held \union Reported
  BY <1>1, <1>6 DEF StatusRight
<1> QED
  BY <1>2, <1>3, <1>4, <1>5, <1>6

-----------------------------------------------------------------------------
(* Steps the abstract graph does not see                                   *)

(* It does not see a step that settles nothing and lets the caller be.      *)
LEMMA Unseen ==
  ASSUME \A j \in Job : StatusOf(j)' = StatusOf(j),
         UNCHANGED <<caller, result, deps, ctxDone>>
  PROVE  UNCHANGED Graph!graphVars
<1>1. [j \in Job |-> StatusOf(j)]' = [j \in Job |-> StatusOf(j)]
  OBVIOUS
<1>2. [j \in Job |-> Members(deps[j])]' = [j \in Job |-> Members(deps[j])]
  BY DEF Members
<1> QED
  BY <1>1, <1>2 DEF Graph!graphVars

(* A status depends on these variables only.                                *)
LEMMA StatusUntouched ==
  ASSUME UNCHANGED <<enqueued, done, err, donec, current, phase, outcome>>
  PROVE  \A j \in Job : StatusOf(j)' = StatusOf(j)
BY DEF StatusOf, Results, Holder

(* Handing a submitted job to a worker leaves it submitted.                 *)
LEMMA DispatchUnseen ==
  ASSUME IInv, IInv', NEW w \in Worker, Dispatch(w)
  PROVE  UNCHANGED Graph!graphVars
<1> DEFINE job == Head(ready)
<1>1. /\ phase[w] = "idle" /\ ready # <<>>
      /\ phase' = [phase EXCEPT ![w] = "got"]
      /\ current' = [current EXCEPT ![w] = job]
      /\ UNCHANGED <<caller, result, enqueued, deps, ctxDone, donec, done, err,
                     outcome>>
  BY DEF Dispatch, callerVars, jobVars
<1>2. current[w] = NoJob
  BY <1>1 DEF IInv, HandsFull, Busy
<1>3. job \in Job /\ job \in Members(ready)
  BY <1>1, TailMembers, HeadTailProperties DEF IInv, TypeOK, LoopType
<1>4. job \in enqueued /\ ~done[job] /\ job \notin Held \union Reported
  BY <1>3 DEF IInv, Known, OnePlace
<1>5. Held' = Held \union {job} /\ Reported' = Reported
  BY <1>1, DispatchPlaced DEF Reported
<1> HIDE DEF job
<1>6. ASSUME NEW j \in Job, j # job PROVE StatusOf(j)' = StatusOf(j)
  <2>1. \A v \in Worker : current[v] = j =>
           /\ current'[v] = current[v] /\ phase'[v] = phase[v]
           /\ outcome'[v] = outcome[v]
    BY <1>1, <1>2, JobAssumption DEF IInv, TypeOK, WorkerType
  <2> QED
    BY <1>1, <1>5, <1>6, <2>1, StatusKept
<1>7. ASSUME NEW j \in Job, j = job PROVE StatusOf(j)' = StatusOf(j)
  <2>1. StatusOf(j) = "submitted"
    BY <1>4, <1>7, StatusByPlace DEF StatusRight
  <2>2. current'[w] = j /\ phase'[w] = "got"
    BY <1>1, <1>7 DEF IInv, TypeOK, WorkerType
  <2>3. StatusOf(j)' = "submitted"
    BY <2>2, StatusByPlaceNext DEF StatusRight
  <2> QED
    BY <2>1, <2>3
<1> QED
  BY <1>1, <1>6, <1>7, Unseen

(* Posting a result changes nothing about what the result is.               *)
LEMMA PostUnseen ==
  ASSUME IInv, IInv', NEW w \in Worker, Post(w)
  PROVE  UNCHANGED Graph!graphVars
<1> DEFINE job == current[w]
           res == [job |-> job, err |-> outcome[w]]
           n == Len(donec) + 1
<1>1. /\ phase[w] = "posting"
      /\ donec' = Append(donec, res)
      /\ phase' = [phase EXCEPT ![w] = "idle"]
      /\ current' = [current EXCEPT ![w] = NoJob]
      /\ outcome' = [outcome EXCEPT ![w] = "none"]
      /\ UNCHANGED <<caller, result, enqueued, deps, ctxDone, done, err>>
  BY DEF Post, callerVars, jobVars
<1>2. job \in Job /\ job \in Held
  BY <1>1, HeldByBusy DEF IInv, Busy
<1>3. /\ \A i \in DOMAIN donec : i \in DOMAIN donec' /\ donec'[i] = donec[i]
      /\ n \in DOMAIN donec' /\ donec'[n] = res
      /\ \A i \in DOMAIN donec' : i \in DOMAIN donec \/ i = n
  BY <1>1, AppendProperties DEF IInv, TypeOK, ChannelType
<1>4. Reported' = Reported \union {job} /\ Held' \subseteq Held
  <2>1. Held' \subseteq Held
    BY PostPlaced
  <2>2. Reported' = Reported \union {job}
    BY <1>3 DEF Reported
  <2> QED
    BY <2>1, <2>2
<1> HIDE DEF n
<1>5. ASSUME NEW j \in Job, j # job PROVE StatusOf(j)' = StatusOf(j)
  <2>1. \A v \in Worker : current[v] = j =>
           /\ current'[v] = current[v] /\ phase'[v] = phase[v]
           /\ outcome'[v] = outcome[v]
    BY <1>1, <1>5 DEF IInv, TypeOK, WorkerType
  <2>2. \A i \in DOMAIN donec :
           donec[i].job = j => \E m \in DOMAIN donec' : donec'[m] = donec[i]
    BY <1>3
  <2> HIDE DEF job
  <2> QED
    BY <1>1, <1>4, <1>5, <2>1, <2>2, StatusKept
<1>6. ASSUME NEW j \in Job, j = job PROVE StatusOf(j)' = StatusOf(j)
  <2>1. StatusOf(j) = Verdict(outcome[w])
    BY <1>1, <1>6, StatusByPlace DEF StatusRight
  <2>2. donec'[n].job = j /\ donec'[n].err = outcome[w]
    BY <1>3, <1>6
  <2>3. StatusOf(j)' = Verdict(outcome[w])
    BY <1>3, <2>2, StatusByPlaceNext DEF StatusRight
  <2> QED
    BY <2>1, <2>3
<1> QED
  BY <1>1, <1>5, <1>6, Unseen

(* The loop learns how a job ended long after the abstract graph did.       *)
LEMMA ResultUnseen ==
  ASSUME IInv, IInv', Collect \/ CollectAndQuit
  PROVE  UNCHANGED Graph!graphVars
<1> DEFINE res == Head(donec)
           job == res.job
<1>1. /\ donec # <<>> /\ TakeResult(res) /\ donec' = Tail(donec)
      /\ UNCHANGED <<caller, result, enqueued, deps, ctxDone, enqueuec, phase,
                     current, outcome>>
  BY DEF Collect, CollectAndQuit, TakeResult, callerVars, workerVars
<1>2. /\ job \in Job
      /\ Reported' = Reported \ {job} /\ Held' = Held
      /\ \A j \in Job : done'[j] <=> done[j] \/ j = job
      /\ \A j \in Job : j # job => err'[j] = err[j]
      /\ err'[job] = res.err
  BY <1>1, TakeResultMoves
<1>3. /\ 1 \in DOMAIN donec /\ res = donec[1]
      /\ \A i \in DOMAIN donec :
            i # 1 => i - 1 \in DOMAIN donec' /\ donec'[i - 1] = donec[i]
  <2>1. /\ Len(donec) \in Nat /\ Len(donec) > 0 /\ DOMAIN donec = 1..Len(donec)
        /\ res = donec[1] /\ DOMAIN donec' = 1..(Len(donec) - 1)
        /\ \A i \in 1..(Len(donec) - 1) : donec'[i] = donec[i + 1]
    BY <1>1, HeadTailProperties DEF IInv, TypeOK, ChannelType
  <2>2. 1 \in DOMAIN donec
    BY <2>1
  <2>3. ASSUME NEW i \in DOMAIN donec, i # 1
        PROVE  i - 1 \in DOMAIN donec' /\ donec'[i - 1] = donec[i]
    <3>1. i - 1 \in 1..(Len(donec) - 1) /\ (i - 1) + 1 = i
      BY <2>1, <2>3
    <3> QED
      BY <2>1, <3>1
  <2> QED
    BY <2>1, <2>2, <2>3
<1> HIDE DEF job, res
<1>4. ASSUME NEW j \in Job, j # job PROVE StatusOf(j)' = StatusOf(j)
  <2>1. \A i \in DOMAIN donec :
           donec[i].job = j => \E n \in DOMAIN donec' : donec'[n] = donec[i]
    BY <1>3, <1>4 DEF job, res
  <2> QED
    BY <1>1, <1>2, <1>4, <2>1, StatusKept
<1>5. ASSUME NEW j \in Job, j = job PROVE StatusOf(j)' = StatusOf(j)
  <2>1. StatusOf(j) = Verdict(res.err)
    BY <1>3, <1>5, StatusByPlace DEF StatusRight, job, res
  <2>2. StatusOf(j)' = Verdict(err'[j])
    BY <1>2, <1>5, StatusByPlaceNext DEF StatusRight
  <2> QED
    BY <1>2, <1>5, <2>1, <2>2
<1> QED
  BY <1>1, <1>4, <1>5, Unseen

-----------------------------------------------------------------------------
(* Steps of the abstract graph                                             *)

(* A step that changes the status of one job only.                          *)
LEMMA OneStatus ==
  ASSUME NEW j \in Job, NEW s, StatusOf(j)' = s,
         \A k \in Job : k # j => StatusOf(k)' = StatusOf(k)
  PROVE  [k \in Job |-> StatusOf(k)]'
            = [[k \in Job |-> StatusOf(k)] EXCEPT ![j] = s]
OBVIOUS

(* Enqueue submits a job with the members of its Dependencies.              *)
LEMMA EnqueueSubmits ==
  ASSUME IInv, IInv', NEW j \in Job, Enqueue(j)
  PROVE  Graph!GraphNext
<1>1. PICK ds \in DependencyLists : deps' = [deps EXCEPT ![j] = ds]
  BY DEF Enqueue
<1>2. /\ caller = "enqueueing" /\ j \notin enqueued
      /\ enqueued' = enqueued \union {j}
      /\ enqueuec' = Append(enqueuec, j)
      /\ UNCHANGED <<caller, result, ctxDone, donec, done, err, phase, current,
                     outcome>>
  BY DEF Enqueue, jobVars, workerVars
<1>3. Held' = Held /\ Reported' = Reported
  BY <1>2 DEF Held, Reported
<1>4. Members(ds) \subseteq enqueued
  BY DEF DependencyLists, Members
<1>5. ASSUME NEW k \in Job, k # j PROVE StatusOf(k)' = StatusOf(k)
  <2>1. k \in enqueued' <=> k \in enqueued
    BY <1>2, <1>5
  <2> QED
    BY <1>2, <1>3, <2>1, StatusKept
<1>6. StatusOf(j)' = "submitted"
  <2>1. j \notin Held \union Reported /\ ~done[j]
    BY <1>2 DEF IInv, Known
  <2> QED
    BY <1>2, <1>3, <2>1, StatusByPlaceNext DEF StatusRight
<1>7. [k \in Job |-> Members(deps[k])]'
         = [[k \in Job |-> Members(deps[k])] EXCEPT ![j] = Members(ds)]
  BY <1>1 DEF Members, IInv, TypeOK, CallerType
<1>8. Graph!Submit(j, Members(ds))
  <2>1. /\ j \notin Graph!Submitted /\ Members(ds) \subseteq Graph!Submitted
    BY <1>2, <1>4, SubmittedJobs
  <2>2. [k \in Job |-> StatusOf(k)]'
           = [[k \in Job |-> StatusOf(k)] EXCEPT ![j] = "submitted"]
    BY <1>5, <1>6, OneStatus
  <2> QED
    BY <1>2, <1>7, <2>1, <2>2 DEF Graph!Submit
<1>9. Members(ds) \in SUBSET Job
  BY <1>4 DEF IInv, TypeOK, CallerType
<1> QED
  BY <1>8, <1>9 DEF Graph!GraphNext

(* The worker that holds a job decides what becomes of it: while it does,   *)
(* only that job's status changes.                                          *)
LEMMA WorkerDecides ==
  ASSUME IInv, IInv', NEW w \in Worker, Begin(w) \/ Finish(w),
         NEW j \in Job, j # current[w]
  PROVE  StatusOf(j)' = StatusOf(j)
<1>1. /\ UNCHANGED <<enqueued, done, err, donec, current>>
      /\ \A v \in Worker : v # w => phase'[v] = phase[v] /\ outcome'[v] = outcome[v]
  BY DEF Begin, Finish, callerVars, jobVars, IInv, TypeOK, WorkerType
<1>2. Held' = Held /\ Reported' = Reported
  BY <1>1 DEF Held, Reported
<1> QED
  BY <1>1, <1>2, StatusKept

(* What a job needs is settled by the time a worker holds it, and the       *)
(* invalid flag tells whether all of it succeeded.                          *)
LEMMA PrerequisitesSettled ==
  ASSUME IInv, NEW j \in Job, j \in Held
  PROVE  /\ \A p \in Members(deps[j]) :
               p \in Job /\ StatusOf(p) \in {"succeeded", "failed", "skipped"}
         /\ invalid[j] <=>
               \E p \in Members(deps[j]) : StatusOf(p) # "succeeded"
<1>1. deps[j] \in Seq(Job)
  BY DEF IInv, TypeOK, CallerType
<1>2. /\ \A i \in DOMAIN deps[j] : deps[j][i] \in Job /\ done[deps[j][i]]
      /\ invalid[j] <=> \E i \in DOMAIN deps[j] : err[deps[j][i]] # "none"
  BY <1>1 DEF IInv, SettledVerdict
<1>3. \A i \in DOMAIN deps[j] :
         /\ StatusOf(deps[j][i]) \in {"succeeded", "failed", "skipped"}
         /\ StatusOf(deps[j][i]) = "succeeded" <=> err[deps[j][i]] = "none"
  BY <1>2, DoneIsSettled
<1> QED
  BY <1>2, <1>3 DEF Members

(* A worker that takes up a job starts or skips it.                         *)
LEMMA BeginStartsOrSkips ==
  ASSUME IInv, IInv', NEW w \in Worker, Begin(w)
  PROVE  Graph!GraphNext
<1>1. PICK j \in Job : j = current[w] /\ j \in Held
  BY HeldByBusy DEF Begin, IInv, Busy
<1>2. /\ phase[w] = "got"
      /\ UNCHANGED <<caller, result, deps, ctxDone, current>>
      /\ phase \in [Worker -> {"idle", "got", "running", "posting", "exited"}]
      /\ outcome \in [Worker -> Err]
  BY DEF Begin, callerVars, IInv, TypeOK, WorkerType
<1>3. StatusOf(j) = "submitted"
  BY <1>1, <1>2, StatusByPlace DEF StatusRight
<1>4. \A k \in Job : k # j => StatusOf(k)' = StatusOf(k)
  BY <1>1, WorkerDecides
<1>5. [k \in Job |-> Members(deps[k])]' = [k \in Job |-> Members(deps[k])]
  BY <1>2 DEF Members
<1>6. CASE ~ctxDone /\ ~invalid[j]
  <2>1. phase'[w] = "running"
    BY <1>1, <1>2, <1>6 DEF Begin
  <2>2. StatusOf(j)' = "running"
    BY <1>1, <1>2, <2>1, StatusByPlaceNext DEF StatusRight
  <2>3. \A p \in Members(deps[j]) : p \in Job /\ StatusOf(p) = "succeeded"
    BY <1>1, <1>6, PrerequisitesSettled
  <2>4. Graph!Start(j)
    BY <1>2, <1>3, <1>4, <1>5, <1>6, <2>2, <2>3, OneStatus DEF Graph!Start
  <2> QED
    BY <2>4 DEF Graph!GraphNext
<1>7. CASE ctxDone \/ invalid[j]
  <2>1. phase'[w] = "posting" /\ outcome'[w] \in {"ctx", "invalid"}
    BY <1>1, <1>2, <1>7 DEF Begin
  <2>2. StatusOf(j)' = "skipped"
    <3>1. StatusOf(j)' = Verdict(outcome'[w])
      BY <1>1, <1>2, <2>1, StatusByPlaceNext DEF StatusRight
    <3> QED
      BY <2>1, <3>1 DEF Verdict
  <2>3. /\ \A p \in Members(deps[j]) :
              p \in Job /\ StatusOf(p) \in {"succeeded", "failed", "skipped"}
        /\ ctxDone \/ \E p \in Members(deps[j]) : StatusOf(p) # "succeeded"
    BY <1>1, <1>7, PrerequisitesSettled
  <2>4. Graph!Skip(j)
    BY <1>2, <1>3, <1>4, <1>5, <2>2, <2>3, OneStatus
    DEF Graph!Skip, Graph!Settled
  <2> QED
    BY <2>4 DEF Graph!GraphNext
<1> QED
  BY <1>6, <1>7

(* A job that returns, or ends its goroutine, finishes.                     *)
LEMMA FinishFinishes ==
  ASSUME IInv, IInv', NEW w \in Worker, Finish(w)
  PROVE  Graph!GraphNext
<1>1. PICK j \in Job : j = current[w] /\ j \in Held
  BY HeldByBusy DEF Finish, IInv, Busy
<1>2. /\ phase[w] = "running" /\ phase'[w] = "posting"
      /\ outcome'[w] \in {"none", "fail", "exit"}
      /\ UNCHANGED <<caller, result, deps, ctxDone, current>>
  BY DEF Finish, callerVars, IInv, TypeOK, WorkerType
<1>3. StatusOf(j) = "running"
  BY <1>1, <1>2, StatusByPlace DEF StatusRight
<1>4. StatusOf(j)' \in {"succeeded", "failed"}
  <2>1. StatusOf(j)' = Verdict(outcome'[w])
    BY <1>1, <1>2, StatusByPlaceNext DEF StatusRight
  <2> QED
    BY <1>2, <2>1 DEF Verdict
<1>5. \A k \in Job : k # j => StatusOf(k)' = StatusOf(k)
  BY <1>1, WorkerDecides
<1>6. [k \in Job |-> Members(deps[k])]' = [k \in Job |-> Members(deps[k])]
  BY <1>2 DEF Members
<1>7. Graph!Finish(j)
  <2>1. PICK s \in {"succeeded", "failed"} : StatusOf(j)' = s
    BY <1>4
  <2> QED
    BY <1>2, <1>3, <1>5, <1>6, <2>1, OneStatus DEF Graph!Finish
<1> QED
  BY <1>7 DEF Graph!GraphNext

(* What Wait returns is an answer the abstract graph may give.              *)
LEMMA ReturnAnswers ==
  ASSUME Outcome, ReturnFinished \/ ReturnCtx
  PROVE  Graph!GraphNext
<1> USE DEF Outcome
<1>1. /\ caller = "waiting" /\ caller' = "returned"
      /\ UNCHANGED <<enqueued, deps, ctxDone, done, err, donec, phase, current,
                     outcome>>
  BY DEF ReturnFinished, ReturnCtx, jobVars, workerVars
<1>2. /\ [k \in Job |-> StatusOf(k)]' = [k \in Job |-> StatusOf(k)]
      /\ [k \in Job |-> Members(deps[k])]' = [k \in Job |-> Members(deps[k])]
  BY <1>1, StatusUntouched DEF Members
<1>3. /\ Graph!Submitted = enqueued
      /\ enqueued \subseteq Job /\ schedErr \subseteq Job
  BY SubmittedJobs DEF IInv, TypeOK, CallerType, LoopType
<1>4. PICK r \in {"nil", "err", "ctx"} :
        /\ result' = r
        /\ r = "nil" => loop = "exited" /\ schedErr = {}
        /\ r = "err" => loop = "exited" /\ schedErr # {}
        /\ r = "ctx" => ctxDone
  BY DEF ReturnFinished, ReturnCtx, FinalResult
<1>5. ASSUME r = "nil" PROVE \A j \in enqueued : StatusOf(j) = "succeeded"
  BY <1>3, <1>4, <1>5, NoErrorMeansSuccess, DoneIsSettled
<1>6. ASSUME r = "err"
      PROVE  /\ \E j \in enqueued : StatusOf(j) \in {"failed", "skipped"}
             /\ ContinueOnError => \A j \in enqueued :
                   StatusOf(j) \in {"succeeded", "failed", "skipped"}
  <2>1. PICK j \in schedErr : TRUE
    BY <1>4, <1>6
  <2>2. done[j] /\ err[j] # "none" /\ j \in Job
    BY <1>3, <2>1 DEF ErrorsRecorded
  <2>3. j \in enqueued
    BY <2>2 DEF IInv, Known
  <2>4. StatusOf(j) \in {"failed", "skipped"}
    BY <2>2, DoneIsSettled
  <2>5. ContinueOnError => \A k \in enqueued : done[k]
    BY <1>4, <1>6 DEF AllSeenTo
  <2>6. ContinueOnError => \A k \in enqueued :
           StatusOf(k) \in {"succeeded", "failed", "skipped"}
    BY <1>3, <2>5, DoneIsSettled
  <2> QED
    BY <2>3, <2>4, <2>6
<1>7. Graph!Answer(r)
  <2>1. \/ r = "nil" /\ \A j \in Graph!Submitted : StatusOf(j) = "succeeded"
        \/ /\ r = "err"
           /\ \E j \in Graph!Submitted : StatusOf(j) \in {"failed", "skipped"}
           /\ ContinueOnError => \A j \in Graph!Submitted :
                 StatusOf(j) \in {"succeeded", "failed", "skipped"}
        \/ r = "ctx" /\ ctxDone
    BY <1>3, <1>4, <1>5, <1>6
  <2> QED
    BY <1>1, <1>2, <1>3, <1>4, <2>1 DEF Graph!Answer, Graph!Settled
<1> QED
  BY <1>7 DEF Graph!GraphNext

-----------------------------------------------------------------------------
(* The theorem                                                             *)

(* Before anything is enqueued the graph is empty ...                       *)
LEMMA GraphInitially == Init => Graph!GraphInit
<1> SUFFICES ASSUME Init PROVE Graph!GraphInit
  OBVIOUS
<1>1. \A j \in Job : StatusOf(j) = "unknown"
  BY DEF Init, StatusOf
<1>2. \A j \in Job : Members(deps[j]) = {}
  BY DEF Init, Members
<1> QED
  BY <1>1, <1>2, ConfigAssumption DEF Init, Graph!GraphInit

(* ... and every step is one of the graph's, or is not seen in it.          *)
LEMMA GraphStep ==
  Outcome /\ Outcome' /\ [Next]_vars => [Graph!GraphNext]_(Graph!graphVars)
<1> SUFFICES ASSUME Outcome, Outcome', [Next]_vars
             PROVE  Graph!GraphNext \/ UNCHANGED Graph!graphVars
  OBVIOUS
<1> USE DEF Outcome
<1>1. ASSUME UNCHANGED <<enqueued, done, err, donec, current, phase, outcome>>
      PROVE  /\ [j \in Job |-> StatusOf(j)]' = [j \in Job |-> StatusOf(j)]
             /\ UNCHANGED <<caller, result, deps, ctxDone>> =>
                   UNCHANGED Graph!graphVars
  BY <1>1, StatusUntouched, Unseen
<1>2. ASSUME NEW j \in Job, Enqueue(j) PROVE Graph!GraphNext
  BY <1>2, EnqueueSubmits
<1>3. CASE CallWait \/ CancelCtx
  <2>1. UNCHANGED <<enqueued, deps, done, err, donec, current, phase, outcome,
                    result>>
    BY <1>3 DEF CallWait, CancelCtx, callerVars, jobVars, workerVars
  <2>2. /\ [j \in Job |-> StatusOf(j)]' = [j \in Job |-> StatusOf(j)]
        /\ [j \in Job |-> Members(deps[j])]' = [j \in Job |-> Members(deps[j])]
    BY <1>1, <2>1 DEF Members
  <2>3. CASE CallWait
    <3>1. Graph!AwaitJobs
      BY <2>1, <2>2, <2>3 DEF CallWait, Graph!AwaitJobs
    <3> QED
      BY <3>1 DEF Graph!GraphNext
  <2>4. CASE CancelCtx
    <3>1. Graph!Cancel
      BY <2>1, <2>2, <2>4 DEF CancelCtx, callerVars, Graph!Cancel
    <3> QED
      BY <3>1 DEF Graph!GraphNext
  <2> QED
    BY <1>3, <2>3, <2>4
<1>4. CASE ReturnFinished \/ ReturnCtx
  BY <1>4, ReturnAnswers
<1>5. ASSUME NEW w \in Worker, Dispatch(w) PROVE UNCHANGED Graph!graphVars
  BY <1>5, DispatchUnseen
<1>6. CASE Collect \/ CollectAndQuit
  BY <1>6, ResultUnseen
<1>7. CASE Admit \/ StopAccepting \/ Emit \/ Drain \/ ExitLoop
  BY <1>1, <1>7
  DEF Admit, StopAccepting, Emit, Drain, ExitLoop, callerVars, jobVars,
      workerVars
<1>8. ASSUME NEW w \in Worker, WorkerStep(w)
      PROVE  Graph!GraphNext \/ UNCHANGED Graph!graphVars
  <2>1. CASE Begin(w)
    BY <2>1, BeginStartsOrSkips
  <2>2. CASE Finish(w)
    BY <2>2, FinishFinishes
  <2>3. CASE Post(w)
    BY <2>3, PostUnseen
  <2>4. CASE ExitWorker(w)
    <3>1. phase[w] = "idle" /\ phase' = [phase EXCEPT ![w] = "exited"]
          /\ UNCHANGED <<caller, result, enqueued, deps, ctxDone, done, err,
                         donec, current, outcome>>
      BY <2>4 DEF ExitWorker, callerVars, jobVars
    <3>2. Held' = Held /\ Reported' = Reported
      BY <3>1 DEF Held, Reported
    <3>3. current[w] = NoJob
      BY <3>1 DEF IInv, HandsFull, Busy
    <3>4. \A j \in Job : \A v \in Worker :
             current[v] = j => phase'[v] = phase[v]
      BY <3>1, <3>3, JobAssumption DEF IInv, TypeOK, WorkerType
    <3>5. \A j \in Job : StatusOf(j)' = StatusOf(j)
      BY <3>1, <3>2, <3>4, StatusKept
    <3> QED
      BY <3>1, <3>5, Unseen
  <2> QED
    BY <1>8, <2>1, <2>2, <2>3, <2>4 DEF WorkerStep
<1>9. CASE Terminated \/ UNCHANGED vars
  BY <1>1, <1>9
  DEF Terminated, vars, callerVars, loopVars, jobVars, workerVars
<1> QED
  BY <1>2, <1>3, <1>4, <1>5, <1>6, <1>7, <1>8, <1>9 DEF Next, Caller, Loop

(* The goroutines, channels, counters and lists of the scheduler do what    *)
(* JobGraph promises: a job starts only after what it needs succeeded, is   *)
(* skipped only for a reason, is settled once, and Wait answers truthfully. *)
THEOREM SchedulerImplementsJobGraph == Spec => ImplementsJobGraph
BY GraphInitially, GraphStep, OutcomeInvariance, PTL
DEF Spec, ImplementsJobGraph, Graph!GraphSpec
==============================================================================
