------------------------ MODULE ParallelCompilerProofs ------------------------
(***************************************************************************)
(* A parallel is accepted if and only if its arguments are what the         *)
(* documentation asks for, but for the points that ParallelCompiler lists,  *)
(* and everything in it has a number of its own.                            *)
(***************************************************************************)
EXTENDS ParallelCompiler, FiniteSetTheorems, SequenceTheorems, TLAPS

Arguments == PlainParallel \union OddParallel

(* Where the compiler asks for less than the documentation.                 *)
Tolerated == {"no work", "assignable", "flow option"}

(* What the compiler asks of a collection.                                  *)
ValidCollection(a) ==
    DocumentedCollection(a, Tolerated) /\ ~(a.kind = "Map" /\ a.named)

(* A call of Tasks lists finitely many functions.                           *)
ListsAreFinite == \A a \in Arguments : a.kind = "Tasks" => IsFiniteSet(DOMAIN a.fns)

-----------------------------------------------------------------------------
(* Types                                                                   *)

ParallelTasks == [serial : Nat, instrumented : BOOLEAN]
SliceTasks    == [serial : Nat, elem : {a.elem : a \in Arguments},
                  param : {Last(Inputs(a.fn)) : a \in Arguments},
                  withIndex : BOOLEAN, withEnd : BOOLEAN]
MapTasks      == [serial : Nat, withEnd : BOOLEAN]
Parallels == [tasks : Seq(ParallelTasks), slices : Seq(SliceTasks), maps : Seq(MapTasks),
              emitters : Nat, instrumented : BOOLEAN, continueOnError : BOOLEAN, concurrency : Nat]

TypeOK ==
    /\ listed \in Seq(Arguments)
    /\ stage \in {"reading", "accepted", "refused"}
    /\ parallel \in Parallels
    /\ taskSerial \in Nat

(* A list that grows at its end.                                            *)
LEMMA Appended ==
  ASSUME NEW S, NEW s \in Seq(S), NEW e \in S
  PROVE  /\ Append(s, e) \in Seq(S) /\ Len(Append(s, e)) = Len(s) + 1
         /\ Len(s) \in Nat /\ DOMAIN s = 1..Len(s)
         /\ DOMAIN Append(s, e) = 1..(Len(s) + 1)
         /\ DOMAIN Append(s, e) = DOMAIN s \union {Len(s) + 1}
         /\ Len(s) + 1 \notin DOMAIN s
         /\ \A i \in DOMAIN s : Append(s, e)[i] = s[i]
         /\ Append(s, e)[Len(s) + 1] = e
<1>1. /\ Append(s, e) \in Seq(S) /\ Len(Append(s, e)) = Len(s) + 1
      /\ \A i \in 1..Len(s) : Append(s, e)[i] = s[i]
      /\ Append(s, e)[Len(s) + 1] = e
  BY AppendProperties
<1>2. Len(s) \in Nat /\ DOMAIN s = 1..Len(s) /\ DOMAIN Append(s, e) = 1..(Len(s) + 1)
  BY <1>1, LenProperties
<1> QED
  BY <1>1, <1>2

(* A list followed by another.                                              *)
LEMMA Followed ==
  ASSUME NEW S, NEW s \in Seq(S), NEW t \in Seq(S)
  PROVE  /\ s \o t \in Seq(S) /\ Len(s \o t) = Len(s) + Len(t)
         /\ Len(s) \in Nat /\ Len(t) \in Nat
         /\ DOMAIN s = 1..Len(s) /\ DOMAIN t = 1..Len(t) /\ DOMAIN (s \o t) = 1..(Len(s) + Len(t))
         /\ \A i \in 1..Len(s) : (s \o t)[i] = s[i]
         /\ \A i \in 1..Len(t) : (s \o t)[Len(s) + i] = t[i]
<1>1. /\ s \o t \in Seq(S) /\ Len(s \o t) = Len(s) + Len(t)
      /\ Len(s) \in Nat /\ Len(t) \in Nat
      /\ DOMAIN s = 1..Len(s) /\ DOMAIN t = 1..Len(t) /\ DOMAIN (s \o t) = 1..(Len(s) + Len(t))
  BY ConcatProperties, LenProperties
<1>2. \A i \in 1..(Len(s) + Len(t)) :
        (s \o t)[i] = IF i <= Len(s) THEN s[i] ELSE t[i - Len(s)]
  BY ConcatProperties
<1>3. ASSUME NEW i \in 1..Len(t)  PROVE (s \o t)[Len(s) + i] = t[i]
  BY <1>1, <1>2
<1> QED
  BY <1>1, <1>2, <1>3

(* What setting one field of a parallel does.                               *)
LEMMA FieldsSet ==
  ASSUME NEW p \in Parallels
  PROVE  /\ \A v \in Seq(ParallelTasks) : LET q == [p EXCEPT !.tasks = v] IN
                q \in Parallels /\ q.tasks = v /\ q.slices = p.slices /\ q.maps = p.maps /\ q.emitters = p.emitters
                /\ q.instrumented = p.instrumented /\ q.continueOnError = p.continueOnError /\ q.concurrency = p.concurrency
         /\ \A v \in Seq(SliceTasks) : LET q == [p EXCEPT !.slices = v] IN
                q \in Parallels /\ q.slices = v /\ q.tasks = p.tasks /\ q.maps = p.maps /\ q.emitters = p.emitters
                /\ q.instrumented = p.instrumented /\ q.continueOnError = p.continueOnError /\ q.concurrency = p.concurrency
         /\ \A v \in Seq(MapTasks) : LET q == [p EXCEPT !.maps = v] IN
                q \in Parallels /\ q.maps = v /\ q.tasks = p.tasks /\ q.slices = p.slices /\ q.emitters = p.emitters
                /\ q.instrumented = p.instrumented /\ q.continueOnError = p.continueOnError /\ q.concurrency = p.concurrency
         /\ \A v \in Nat : LET q == [p EXCEPT !.emitters = v] IN
                q \in Parallels /\ q.emitters = v /\ q.tasks = p.tasks /\ q.slices = p.slices /\ q.maps = p.maps
                /\ q.instrumented = p.instrumented /\ q.continueOnError = p.continueOnError /\ q.concurrency = p.concurrency
         /\ \A v \in BOOLEAN : LET q == [p EXCEPT !.instrumented = v] IN
                q \in Parallels /\ q.instrumented = v /\ q.tasks = p.tasks /\ q.slices = p.slices /\ q.maps = p.maps
                /\ q.emitters = p.emitters /\ q.continueOnError = p.continueOnError /\ q.concurrency = p.concurrency
         /\ \A v \in BOOLEAN : LET q == [p EXCEPT !.continueOnError = v] IN
                q \in Parallels /\ q.continueOnError = v /\ q.tasks = p.tasks /\ q.slices = p.slices /\ q.maps = p.maps
                /\ q.emitters = p.emitters /\ q.instrumented = p.instrumented /\ q.concurrency = p.concurrency
         /\ \A v \in Nat : LET q == [p EXCEPT !.concurrency = v] IN
                q \in Parallels /\ q.concurrency = v /\ q.tasks = p.tasks /\ q.slices = p.slices /\ q.maps = p.maps
                /\ q.emitters = p.emitters /\ q.instrumented = p.instrumented /\ q.continueOnError = p.continueOnError
<1> DEFINE T == Seq(ParallelTasks)
           S == Seq(SliceTasks)
           M == Seq(MapTasks)
<1>1. p \in [tasks : T, slices : S, maps : M, emitters : Nat,
             instrumented : BOOLEAN, continueOnError : BOOLEAN, concurrency : Nat]
  BY DEF Parallels
<1>2. Parallels = [tasks : T, slices : S, maps : M, emitters : Nat,
                   instrumented : BOOLEAN, continueOnError : BOOLEAN, concurrency : Nat]
  BY DEF Parallels
<1> HIDE DEF T, S, M
<1>3. ASSUME NEW v \in T
      PROVE  LET q == [p EXCEPT !.tasks = v] IN
                q \in Parallels /\ q.tasks = v /\ q.slices = p.slices /\ q.maps = p.maps /\ q.emitters = p.emitters
                /\ q.instrumented = p.instrumented /\ q.continueOnError = p.continueOnError /\ q.concurrency = p.concurrency
  BY <1>1, <1>2
<1>4. ASSUME NEW v \in S
      PROVE  LET q == [p EXCEPT !.slices = v] IN
                q \in Parallels /\ q.slices = v /\ q.tasks = p.tasks /\ q.maps = p.maps /\ q.emitters = p.emitters
                /\ q.instrumented = p.instrumented /\ q.continueOnError = p.continueOnError /\ q.concurrency = p.concurrency
  BY <1>1, <1>2
<1>5. ASSUME NEW v \in M
      PROVE  LET q == [p EXCEPT !.maps = v] IN
                q \in Parallels /\ q.maps = v /\ q.tasks = p.tasks /\ q.slices = p.slices /\ q.emitters = p.emitters
                /\ q.instrumented = p.instrumented /\ q.continueOnError = p.continueOnError /\ q.concurrency = p.concurrency
  BY <1>1, <1>2
<1>6. ASSUME NEW v \in Nat
      PROVE  LET q == [p EXCEPT !.emitters = v] IN
                q \in Parallels /\ q.emitters = v /\ q.tasks = p.tasks /\ q.slices = p.slices /\ q.maps = p.maps
                /\ q.instrumented = p.instrumented /\ q.continueOnError = p.continueOnError /\ q.concurrency = p.concurrency
  BY <1>1, <1>2
<1>7. ASSUME NEW v \in BOOLEAN
      PROVE  LET q == [p EXCEPT !.instrumented = v] IN
                q \in Parallels /\ q.instrumented = v /\ q.tasks = p.tasks /\ q.slices = p.slices /\ q.maps = p.maps
                /\ q.emitters = p.emitters /\ q.continueOnError = p.continueOnError /\ q.concurrency = p.concurrency
  BY <1>1, <1>2
<1>8. ASSUME NEW v \in BOOLEAN
      PROVE  LET q == [p EXCEPT !.continueOnError = v] IN
                q \in Parallels /\ q.continueOnError = v /\ q.tasks = p.tasks /\ q.slices = p.slices /\ q.maps = p.maps
                /\ q.emitters = p.emitters /\ q.instrumented = p.instrumented /\ q.concurrency = p.concurrency
  BY <1>1, <1>2
<1>9. ASSUME NEW v \in Nat
      PROVE  LET q == [p EXCEPT !.concurrency = v] IN
                q \in Parallels /\ q.concurrency = v /\ q.tasks = p.tasks /\ q.slices = p.slices /\ q.maps = p.maps
                /\ q.emitters = p.emitters /\ q.instrumented = p.instrumented /\ q.continueOnError = p.continueOnError
  BY <1>1, <1>2
<1> QED
  BY <1>3, <1>4, <1>5, <1>6, <1>7, <1>8, <1>9 DEF T, S, M

(* The tasks that one call of Tasks adds.                                   *)
Batch(n) == [k \in 1..n |-> ParallelTask(taskSerial + k - 1, FALSE)]

LEMMA BatchType ==
  ASSUME TypeOK, NEW n \in Nat
  PROVE  /\ Batch(n) \in Seq(ParallelTasks) /\ Len(Batch(n)) = n
         /\ \A k \in 1..n : Batch(n)[k] = [serial |-> taskSerial + k - 1, instrumented |-> FALSE]
<1>1. \A k \in 1..n : Batch(n)[k] = [serial |-> taskSerial + k - 1, instrumented |-> FALSE]
  BY DEF Batch, ParallelTask
<1>2. ASSUME NEW k \in 1..n  PROVE Batch(n)[k] \in ParallelTasks
  <2>1. taskSerial + k - 1 \in Nat
    BY DEF TypeOK
  <2>2. [serial |-> taskSerial + k - 1, instrumented |-> FALSE] \in ParallelTasks
    BY <2>1 DEF ParallelTasks
  <2> QED
    BY <1>1, <2>2
<1>3. Batch(n) \in [1..n -> ParallelTasks]
  BY <1>2 DEF Batch
<1>4. Batch(n) \in Seq(ParallelTasks)
  BY <1>3, SeqDef
<1>5. Len(Batch(n)) = n
  <2>1. DOMAIN Batch(n) = 1..n /\ DOMAIN Batch(n) = 1..Len(Batch(n)) /\ Len(Batch(n)) \in Nat
    BY <1>3, <1>4, LenProperties
  <2> QED
    BY <2>1, SMT
<1> QED
  BY <1>1, <1>4, <1>5

(* What the tasks made of arguments are.                                    *)
LEMMA TaskTypes ==
  ASSUME TypeOK, NEW a \in Arguments
  PROVE  /\ \A b \in BOOLEAN : ParallelTask(taskSerial, b) \in ParallelTasks
         /\ SliceTask(a) \in SliceTasks /\ MapTask(a) \in MapTasks
<1>1. \A b \in BOOLEAN : ParallelTask(taskSerial, b) \in ParallelTasks
  BY DEF TypeOK, ParallelTask, ParallelTasks
<1>2. SliceTask(a) \in SliceTasks
  <2>1. /\ a.elem \in {x.elem : x \in Arguments}
        /\ Last(Inputs(a.fn)) \in {Last(Inputs(x.fn)) : x \in Arguments}
    OBVIOUS
  <2>2. (Len(Inputs(a.fn)) = 2) \in BOOLEAN /\ (GoodEnds(a.opts) # {}) \in BOOLEAN
    OBVIOUS
  <2> QED
    BY <2>1, <2>2 DEF TypeOK, SliceTask, SliceTasks
<1>3. MapTask(a) \in MapTasks
  BY DEF TypeOK, MapTask, MapTasks
<1> QED
  BY <1>1, <1>2, <1>3

(* Reading an argument extends what the user wrote.                         *)
LEMMA ReadFacts ==
  ASSUME TypeOK, NEW a \in Arguments, ReadNext(a)
  PROVE  /\ stage = "reading" /\ stage' = "reading"
         /\ listed' \in Seq(Arguments) /\ Len(listed) + 1 \notin DOMAIN listed
         /\ DOMAIN listed' = DOMAIN listed \union {Len(listed) + 1} /\ Len(listed') = Len(listed) + 1
         /\ \A i \in DOMAIN listed : listed'[i] = listed[i]
         /\ listed'[Len(listed) + 1] = a
BY Appended DEF TypeOK, ReadNext

(* What reading each kind of argument does to the lists and the counter.    *)
LEMMA InvalidRead ==
  ASSUME TypeOK, NEW a \in Arguments, ReadInvalidParallel(a)
  PROVE  parallel' = parallel /\ taskSerial' = taskSerial
BY DEF ReadInvalidParallel

LEMMA OptionRead ==
  ASSUME TypeOK, NEW a \in Arguments, ReadOption(a)
  PROVE  /\ parallel' \in Parallels /\ taskSerial' = taskSerial
         /\ parallel'.tasks = parallel.tasks /\ parallel'.slices = parallel.slices
         /\ parallel'.maps = parallel.maps
         /\ parallel'.emitters = parallel.emitters + (IF a.kind = "WithEmitter" THEN 1 ELSE 0)
         /\ (parallel'.instrumented <=> parallel.instrumented \/ a.kind = "InstrumentParallel")
         /\ (parallel'.continueOnError <=> parallel.continueOnError \/ a.kind = "ContinueOnError")
<1>1. parallel \in Parallels /\ parallel.emitters \in Nat /\ Len(listed') \in Nat
  <2>1. Len(listed') \in Nat
    BY ReadFacts, LenProperties DEF ReadOption
  <2> QED
    BY <2>1 DEF TypeOK, Parallels
<1>2. parallel.instrumented \in BOOLEAN /\ parallel.continueOnError \in BOOLEAN
  BY <1>1 DEF Parallels
<1>3. CASE a.kind = "Concurrency"
  <2>1. parallel' = [parallel EXCEPT !.concurrency = Len(listed')] /\ taskSerial' = taskSerial
    BY <1>3 DEF ReadOption
  <2>2. Len(listed') \in Nat
    BY <1>1
  <2> QED
    BY <1>1, <1>2, <1>3, <2>1, <2>2, FieldsSet
<1>4. CASE a.kind = "ContinueOnError"
  <2>1. parallel' = [parallel EXCEPT !.continueOnError = TRUE] /\ taskSerial' = taskSerial
    BY <1>4 DEF ReadOption
  <2>2. TRUE \in BOOLEAN
    OBVIOUS
  <2> QED
    <3>1. LET q == [parallel EXCEPT !.continueOnError = TRUE]
          IN  /\ q \in Parallels /\ q.continueOnError = TRUE
              /\ q.tasks = parallel.tasks /\ q.slices = parallel.slices /\ q.maps = parallel.maps
              /\ q.emitters = parallel.emitters /\ q.instrumented = parallel.instrumented
      BY <1>1, <2>2, FieldsSet, Zenon
    <3> QED
      BY <1>1, <1>2, <1>4, <2>1, <3>1
<1>5. CASE a.kind = "InstrumentParallel"
  <2>1. parallel' = [parallel EXCEPT !.instrumented = TRUE] /\ taskSerial' = taskSerial
    BY <1>5 DEF ReadOption
  <2>2. TRUE \in BOOLEAN
    OBVIOUS
  <2> QED
    <3>1. LET q == [parallel EXCEPT !.instrumented = TRUE]
          IN  /\ q \in Parallels /\ q.instrumented = TRUE
              /\ q.tasks = parallel.tasks /\ q.slices = parallel.slices /\ q.maps = parallel.maps
              /\ q.emitters = parallel.emitters /\ q.continueOnError = parallel.continueOnError
      BY <1>1, <2>2, FieldsSet, Zenon
    <3> QED
      BY <1>1, <1>2, <1>5, <2>1, <3>1
<1>6. CASE a.kind = "WithEmitter"
  <2>1. parallel' = [parallel EXCEPT !.emitters = parallel.emitters + 1] /\ taskSerial' = taskSerial
    BY <1>6 DEF ReadOption
  <2>2. parallel.emitters + 1 \in Nat
    BY <1>1
  <2> QED
    BY <1>1, <1>2, <1>6, <2>1, <2>2, FieldsSet
<1> QED
  BY <1>3, <1>4, <1>5, <1>6 DEF ReadOption

WantsInstrument(a) == \E i \in DOMAIN a.opts : a.opts[i].kind = "Instrument"

LEMMA TaskRead ==
  ASSUME TypeOK, NEW a \in Arguments, ReadParallelTask(a), TakesNothing(a.fn)
  PROVE  /\ parallel' \in Parallels /\ taskSerial' = taskSerial + 1
         /\ parallel'.tasks = Append(parallel.tasks, ParallelTask(taskSerial, WantsInstrument(a)))
         /\ parallel'.slices = parallel.slices /\ parallel'.maps = parallel.maps
         /\ parallel'.emitters = parallel.emitters /\ parallel'.instrumented = parallel.instrumented
         /\ parallel'.continueOnError = parallel.continueOnError
<1>1. parallel \in Parallels /\ parallel.tasks \in Seq(ParallelTasks)
  BY DEF TypeOK, Parallels
<1> DEFINE l == Append(parallel.tasks, ParallelTask(taskSerial, WantsInstrument(a)))
<1>2. WantsInstrument(a) \in BOOLEAN
  BY DEF WantsInstrument
<1>3. l \in Seq(ParallelTasks)
  BY <1>1, <1>2, TaskTypes, Appended
<1>4. parallel' = [parallel EXCEPT !.tasks = l] /\ taskSerial' = taskSerial + 1
  BY DEF ReadParallelTask, Advanced, WantsInstrument
<1> HIDE DEF l
<1>5. /\ parallel' \in Parallels /\ parallel'.tasks = l
      /\ parallel'.slices = parallel.slices /\ parallel'.maps = parallel.maps
      /\ parallel'.emitters = parallel.emitters /\ parallel'.instrumented = parallel.instrumented
      /\ parallel'.continueOnError = parallel.continueOnError
  BY <1>1, <1>3, <1>4, FieldsSet
<1> QED
  BY <1>4, <1>5 DEF l

GoodFunctions(a) == {k \in DOMAIN a.fns : TakesNothing(a.fns[k])}

LEMMA TasksRead ==
  ASSUME TypeOK, ListsAreFinite, NEW a \in Arguments, ReadParallelTasks(a)
  PROVE  LET n == Cardinality(GoodFunctions(a))
         IN  /\ IsFiniteSet(GoodFunctions(a)) /\ n \in Nat
             /\ parallel' \in Parallels /\ taskSerial' = taskSerial + n
             /\ parallel'.tasks = parallel.tasks \o Batch(n)
             /\ parallel'.slices = parallel.slices /\ parallel'.maps = parallel.maps
             /\ parallel'.emitters = parallel.emitters /\ parallel'.instrumented = parallel.instrumented
             /\ parallel'.continueOnError = parallel.continueOnError
<1>1. parallel \in Parallels /\ parallel.tasks \in Seq(ParallelTasks)
  BY DEF TypeOK, Parallels
<1> DEFINE n == Cardinality(GoodFunctions(a))
           l == parallel.tasks \o Batch(n)
<1>2. IsFiniteSet(GoodFunctions(a)) /\ n \in Nat
  <2>1. IsFiniteSet(DOMAIN a.fns) /\ GoodFunctions(a) \subseteq DOMAIN a.fns
    BY DEF ReadParallelTasks, ListsAreFinite, GoodFunctions
  <2> QED
    BY <2>1, FS_Subset, FS_CardinalityType
<1>3. l \in Seq(ParallelTasks)
  BY <1>1, <1>2, BatchType, Followed
<1>4. parallel' = [parallel EXCEPT !.tasks = l] /\ taskSerial' = taskSerial + n
  BY DEF ReadParallelTasks, Advanced, GoodFunctions, Batch
<1> HIDE DEF l
<1>5. /\ parallel' \in Parallels /\ parallel'.tasks = l
      /\ parallel'.slices = parallel.slices /\ parallel'.maps = parallel.maps
      /\ parallel'.emitters = parallel.emitters /\ parallel'.instrumented = parallel.instrumented
      /\ parallel'.continueOnError = parallel.continueOnError
  BY <1>1, <1>3, <1>4, FieldsSet
<1> QED
  BY <1>2, <1>4, <1>5 DEF l

LEMMA SliceRead ==
  ASSUME TypeOK, NEW a \in Arguments, ReadSlice(a), CompilesSlice(a)
  PROVE  /\ parallel' \in Parallels /\ taskSerial' = taskSerial + 1
         /\ parallel'.slices = Append(parallel.slices, SliceTask(a))
         /\ parallel'.tasks = parallel.tasks /\ parallel'.maps = parallel.maps
         /\ parallel'.emitters = parallel.emitters /\ parallel'.instrumented = parallel.instrumented
         /\ parallel'.continueOnError = parallel.continueOnError
<1>1. parallel \in Parallels /\ parallel.slices \in Seq(SliceTasks)
  BY DEF TypeOK, Parallels
<1> DEFINE l == Append(parallel.slices, SliceTask(a))
<1>2. l \in Seq(SliceTasks)
  BY <1>1, TaskTypes, Appended
<1>3. parallel' = [parallel EXCEPT !.slices = l] /\ taskSerial' = taskSerial + 1
  BY DEF ReadSlice, Advanced
<1> HIDE DEF l
<1>4. /\ parallel' \in Parallels /\ parallel'.slices = l
      /\ parallel'.tasks = parallel.tasks /\ parallel'.maps = parallel.maps
      /\ parallel'.emitters = parallel.emitters /\ parallel'.instrumented = parallel.instrumented
      /\ parallel'.continueOnError = parallel.continueOnError
  BY <1>1, <1>2, <1>3, FieldsSet
<1> QED
  BY <1>3, <1>4 DEF l

LEMMA MapRead ==
  ASSUME TypeOK, NEW a \in Arguments, ReadMap(a), CompilesMap(a)
  PROVE  /\ parallel' \in Parallels /\ taskSerial' = taskSerial + 1
         /\ parallel'.maps = Append(parallel.maps, MapTask(a))
         /\ parallel'.tasks = parallel.tasks /\ parallel'.slices = parallel.slices
         /\ parallel'.emitters = parallel.emitters /\ parallel'.instrumented = parallel.instrumented
         /\ parallel'.continueOnError = parallel.continueOnError
<1>1. parallel \in Parallels /\ parallel.maps \in Seq(MapTasks)
  BY DEF TypeOK, Parallels
<1> DEFINE l == Append(parallel.maps, MapTask(a))
<1>2. l \in Seq(MapTasks)
  BY <1>1, TaskTypes, Appended
<1>3. parallel' = [parallel EXCEPT !.maps = l] /\ taskSerial' = taskSerial + 1
  BY DEF ReadMap, Advanced
<1> HIDE DEF l
<1>4. /\ parallel' \in Parallels /\ parallel'.maps = l
      /\ parallel'.tasks = parallel.tasks /\ parallel'.slices = parallel.slices
      /\ parallel'.emitters = parallel.emitters /\ parallel'.instrumented = parallel.instrumented
      /\ parallel'.continueOnError = parallel.continueOnError
  BY <1>1, <1>2, <1>3, FieldsSet
<1> QED
  BY <1>3, <1>4 DEF l

(* An argument that does not compile leaves lists and counter as they are.  *)
Rejected(a) ==
    \/ ReadParallelTask(a) /\ ~TakesNothing(a.fn)
    \/ ReadSlice(a) /\ ~CompilesSlice(a)
    \/ ReadMap(a) /\ ~CompilesMap(a)

LEMMA RejectedRead ==
  ASSUME NEW a \in Arguments, Rejected(a)
  PROVE  parallel' = parallel /\ taskSerial' = taskSerial
BY DEF Rejected, ReadParallelTask, ReadSlice, ReadMap

LEMMA ReadingCases ==
  ASSUME NEW a \in Arguments, ReadingParallel(a)
  PROVE  \/ ReadInvalidParallel(a) \/ ReadOption(a) \/ ReadParallelTasks(a) \/ Rejected(a)
         \/ ReadParallelTask(a) /\ TakesNothing(a.fn)
         \/ ReadSlice(a) /\ CompilesSlice(a)
         \/ ReadMap(a) /\ CompilesMap(a)
BY DEF ReadingParallel, Rejected

LEMMA TypeStep ==
  ASSUME ListsAreFinite, TypeOK, [ParallelNext]_parallelVars
  PROVE  TypeOK'
<1>1. CASE UNCHANGED parallelVars
  BY <1>1 DEF TypeOK, parallelVars
<1>2. CASE EmptyParallel \/ Finish \/ ParallelDone
  BY <1>2 DEF TypeOK, EmptyParallel, Finish, ParallelDone, parallelVars
<1>3. ASSUME NEW a \in Arguments, ReadingParallel(a)  PROVE TypeOK'
  <2>1. ReadNext(a)
    BY <1>3 DEF ReadingParallel, ReadInvalidParallel, ReadOption, ReadParallelTask, ReadParallelTasks, ReadSlice, ReadMap
  <2>2. listed' \in Seq(Arguments) /\ stage' = "reading"
    BY <2>1, ReadFacts
  <2>3. parallel \in Parallels /\ taskSerial \in Nat
    BY DEF TypeOK
  <2>4. parallel' \in Parallels /\ taskSerial' \in Nat
    <3>1. CASE ReadInvalidParallel(a) \/ Rejected(a)
      BY <2>3, <3>1, InvalidRead, RejectedRead
    <3>2. CASE ReadOption(a)
      BY <2>3, <3>2, OptionRead
    <3>3. CASE ReadParallelTask(a) /\ TakesNothing(a.fn)
      BY <2>3, <3>3, TaskRead
    <3>4. CASE ReadParallelTasks(a)
      BY <2>3, <3>4, TasksRead
    <3>5. CASE ReadSlice(a) /\ CompilesSlice(a)
      BY <2>3, <3>5, SliceRead
    <3>6. CASE ReadMap(a) /\ CompilesMap(a)
      BY <2>3, <3>6, MapRead
    <3> QED
      BY <1>3, <3>1, <3>2, <3>3, <3>4, <3>5, <3>6, ReadingCases
  <2> QED
    BY <2>2, <2>4 DEF TypeOK
<1> QED
  BY <1>1, <1>2, <1>3 DEF ParallelNext, Arguments

-----------------------------------------------------------------------------
(* Numbers                                                                 *)

(* Whether or not something was wrong so far, what was compiled is numbered *)
(* in one row.                                                              *)
Numbered == ApartFromEachOther /\ NumbersInUse = 0..(taskSerial - 1)

LEMMA NumberedAppend ==
  ASSUME NEW S, NEW s \in Seq(S), NEW e \in S,
         NumberedApart(s), e.serial \notin Serials(s)
  PROVE  /\ NumberedApart(Append(s, e))
         /\ Serials(Append(s, e)) = Serials(s) \union {e.serial}
<1> DEFINE l == Append(s, e)
           n == Len(s) + 1
<1>1. /\ DOMAIN l = DOMAIN s \union {n} /\ n \notin DOMAIN s
      /\ \A i \in DOMAIN s : l[i] = s[i]
      /\ l[n] = e
  BY Appended
<1> HIDE DEF l, n
<1>2. NumberedApart(l)
  BY <1>1 DEF NumberedApart, Serials
<1>3. Serials(l) = Serials(s) \union {e.serial}
  BY <1>1 DEF Serials
<1> QED
  BY <1>2, <1>3 DEF l

LEMMA NumberedBatch ==
  ASSUME TypeOK, NEW n \in Nat, NEW s \in Seq(ParallelTasks),
         NumberedApart(s), Serials(s) \subseteq 0..(taskSerial - 1)
  PROVE  /\ NumberedApart(s \o Batch(n))
         /\ Serials(s \o Batch(n)) = Serials(s) \union (taskSerial..(taskSerial + n - 1))
<1>0. PICK b : b = Batch(n)
  OBVIOUS
<1> DEFINE l == s \o b
           m == Len(s)
<1>1. b \in Seq(ParallelTasks) /\ Len(b) = n /\ taskSerial \in Nat
  BY <1>0, BatchType DEF TypeOK
<1>2. ASSUME NEW k \in 1..n  PROVE b[k].serial = taskSerial + k - 1
  <2>1. b[k] = [serial |-> taskSerial + k - 1, instrumented |-> FALSE]
    BY <1>0, BatchType
  <2> QED
    BY <2>1
<1>3. /\ m \in Nat /\ DOMAIN s = 1..m /\ DOMAIN l = 1..(m + n)
      /\ \A i \in 1..m : l[i] = s[i]
      /\ \A k \in 1..n : l[m + k] = b[k]
  <2>1. Len(s) \in Nat /\ DOMAIN s = 1..Len(s) /\ DOMAIN (s \o b) = 1..(Len(s) + Len(b))
    BY <1>1, Followed
  <2>2. \A i \in 1..Len(s) : (s \o b)[i] = s[i]
    BY <1>1, Followed
  <2>3. \A k \in 1..Len(b) : (s \o b)[Len(s) + k] = b[k]
    BY <1>1, Followed
  <2> QED
    BY <1>1, <2>1, <2>2, <2>3
<1> HIDE DEF l, m
<1>4. \A i \in 1..m : l[i].serial \in Serials(s)
  BY <1>3 DEF Serials
<1>5. \A i \in 1..(m + n) : i \notin 1..m => i - m \in 1..n /\ i = m + (i - m)
  BY <1>3
<1>6. \A i \in 1..(m + n) : i \notin 1..m => l[i].serial = taskSerial + (i - m) - 1
  BY <1>2, <1>3, <1>5
<1>7. ASSUME NEW i \in 1..(m + n), NEW j \in 1..(m + n), l[i].serial = l[j].serial
      PROVE  i = j
  <2>1. CASE i \in 1..m /\ j \in 1..m
    BY <1>3, <1>7, <2>1 DEF NumberedApart
  <2>2. CASE i \notin 1..m /\ j \notin 1..m
    BY <1>1, <1>3, <1>6, <1>7, <2>2
  <2>3. \A k \in 1..(m + n), h \in 1..m :
           k \notin 1..m => l[k].serial >= taskSerial /\ l[h].serial \in 0..(taskSerial - 1)
    BY <1>1, <1>3, <1>4, <1>5, <1>6
  <2> QED
    BY <1>1, <1>7, <2>1, <2>2, <2>3
<1>8. NumberedApart(l)
  BY <1>3, <1>7 DEF NumberedApart
<1>9. Serials(l) = Serials(s) \union (taskSerial..(taskSerial + n - 1))
  <2>1. ASSUME NEW x \in Serials(l)
        PROVE  x \in Serials(s) \union (taskSerial..(taskSerial + n - 1))
    <3>1. PICK i \in 1..(m + n) : x = l[i].serial
      BY <1>3 DEF Serials
    <3> QED
      BY <1>1, <1>3, <1>4, <1>5, <1>6, <3>1
  <2>2. Serials(s) \subseteq Serials(l)
    BY <1>3 DEF Serials
  <2>3. ASSUME NEW x \in taskSerial..(taskSerial + n - 1)
        PROVE  x \in Serials(l)
    <3>1. PICK k \in 1..n : k = x - taskSerial + 1
      BY <1>1
    <3>2. m + k \in DOMAIN l /\ l[m + k] = b[k] /\ taskSerial + k - 1 = x
      BY <1>1, <1>3, <3>1
    <3>3. l[m + k].serial = x
      BY <1>2, <3>2
    <3> QED
      BY <3>2, <3>3 DEF Serials
  <2> QED
    BY <2>1, <2>2, <2>3
<1> QED
  BY <1>0, <1>8, <1>9 DEF l

LEMMA NumberStep ==
  ASSUME ListsAreFinite, TypeOK, Numbered, [ParallelNext]_parallelVars
  PROVE  Numbered'
<1> USE DEF Numbered, ApartFromEachOther, NumbersInUse
<1>1. /\ taskSerial \in Nat /\ parallel.tasks \in Seq(ParallelTasks)
      /\ parallel.slices \in Seq(SliceTasks) /\ parallel.maps \in Seq(MapTasks)
  BY DEF TypeOK, Parallels
<1>2. taskSerial \notin NumbersInUse /\ 0..taskSerial = NumbersInUse \union {taskSerial}
      /\ taskSerial + 1 - 1 = taskSerial
  BY <1>1
<1>3. CASE UNCHANGED <<parallel, taskSerial>>
  BY <1>3
<1>4. ASSUME NEW a \in Arguments, ReadingParallel(a)  PROVE Numbered'
  <2>1. CASE ReadInvalidParallel(a) \/ Rejected(a)
    BY <1>3, <2>1, InvalidRead, RejectedRead
  <2>2. CASE ReadOption(a)
    <3>1. /\ parallel'.tasks = parallel.tasks /\ parallel'.slices = parallel.slices
          /\ parallel'.maps = parallel.maps /\ taskSerial' = taskSerial
      BY <2>2, OptionRead
    <3> QED
      BY <3>1
  <2>3. CASE ReadParallelTask(a) /\ TakesNothing(a.fn)
    <3> DEFINE e == ParallelTask(taskSerial, WantsInstrument(a))
    <3>1. /\ parallel'.tasks = Append(parallel.tasks, e)
          /\ parallel'.slices = parallel.slices /\ parallel'.maps = parallel.maps
          /\ taskSerial' = taskSerial + 1
      BY <2>3, TaskRead
    <3>2. e \in ParallelTasks /\ e.serial = taskSerial
      BY TaskTypes DEF WantsInstrument, ParallelTask
    <3>3. /\ NumberedApart(parallel'.tasks)
          /\ Serials(parallel'.tasks) = Serials(parallel.tasks) \union {taskSerial}
      BY <1>1, <1>2, <3>1, <3>2, NumberedAppend
    <3> HIDE DEF e
    <3> QED
      BY <1>2, <3>1, <3>3
  <2>4. CASE ReadParallelTasks(a)
    <3> DEFINE n == Cardinality(GoodFunctions(a))
    <3>1. /\ parallel'.tasks = parallel.tasks \o Batch(n) /\ n \in Nat
          /\ parallel'.slices = parallel.slices /\ parallel'.maps = parallel.maps
          /\ taskSerial' = taskSerial + n
      BY <2>4, TasksRead
    <3> HIDE DEF n
    <3>2. /\ NumberedApart(parallel'.tasks)
          /\ Serials(parallel'.tasks) = Serials(parallel.tasks)
                                        \union (taskSerial..(taskSerial + n - 1))
      BY <1>1, <3>1, NumberedBatch
    <3>3. /\ 0..(taskSerial + n - 1) = (0..(taskSerial - 1)) \union (taskSerial..(taskSerial + n - 1))
          /\ (0..(taskSerial - 1)) \intersect (taskSerial..(taskSerial + n - 1)) = {}
      BY <1>1, <3>1
    <3>4. /\ Serials(parallel'.tasks) \intersect Serials(parallel.slices) = {}
          /\ Serials(parallel'.tasks) \intersect Serials(parallel.maps) = {}
      BY <3>2, <3>3
    <3>5. Serials(parallel'.tasks) \union Serials(parallel.slices) \union Serials(parallel.maps)
             = 0..(taskSerial + n - 1)
      BY <3>2, <3>3
    <3>6. taskSerial' - 1 = taskSerial + n - 1
      BY <1>1, <3>1
    <3>7. NumbersInUse' = 0..(taskSerial' - 1)
      BY <3>1, <3>5, <3>6
    <3>8. ApartFromEachOther'
      BY <3>1, <3>2, <3>4
    <3> QED
      BY <3>7, <3>8
  <2>5. CASE ReadSlice(a) /\ CompilesSlice(a)
    <3>1. /\ parallel'.slices = Append(parallel.slices, SliceTask(a))
          /\ parallel'.tasks = parallel.tasks /\ parallel'.maps = parallel.maps
          /\ taskSerial' = taskSerial + 1
      BY <2>5, SliceRead
    <3>2. SliceTask(a) \in SliceTasks /\ SliceTask(a).serial = taskSerial
      BY TaskTypes DEF SliceTask
    <3>3. /\ NumberedApart(parallel'.slices)
          /\ Serials(parallel'.slices) = Serials(parallel.slices) \union {taskSerial}
      BY <1>1, <1>2, <3>1, <3>2, NumberedAppend
    <3> QED
      BY <1>2, <3>1, <3>3
  <2>6. CASE ReadMap(a) /\ CompilesMap(a)
    <3>1. /\ parallel'.maps = Append(parallel.maps, MapTask(a))
          /\ parallel'.tasks = parallel.tasks /\ parallel'.slices = parallel.slices
          /\ taskSerial' = taskSerial + 1
      BY <2>6, MapRead
    <3>2. MapTask(a) \in MapTasks /\ MapTask(a).serial = taskSerial
      BY TaskTypes DEF MapTask
    <3>3. /\ NumberedApart(parallel'.maps)
          /\ Serials(parallel'.maps) = Serials(parallel.maps) \union {taskSerial}
      BY <1>1, <1>2, <3>1, <3>2, NumberedAppend
    <3> QED
      BY <1>2, <3>1, <3>3
  <2> QED
    BY <1>4, <2>1, <2>2, <2>3, <2>4, <2>5, <2>6, ReadingCases
<1>5. EmptyParallel \/ Finish \/ ParallelDone \/ UNCHANGED parallelVars => UNCHANGED <<parallel, taskSerial>>
  BY DEF EmptyParallel, Finish, ParallelDone, parallelVars
<1> QED
  BY <1>3, <1>4, <1>5 DEF ParallelNext, Arguments

-----------------------------------------------------------------------------
(* Counts                                                                  *)

(* As long as nothing was wrong, nothing was left out.                      *)
Counted ==
    /\ IsFiniteSet(FunctionsOfTasks)
    /\ reported = {} =>
          /\ Len(parallel.tasks)  = Cardinality(Listed("Task")) + Cardinality(FunctionsOfTasks)
          /\ Len(parallel.slices) = Cardinality(Listed("Slice"))
          /\ Len(parallel.maps)   = Cardinality(Listed("Map"))

LEMMA WrittenNext ==
  ASSUME TypeOK, NEW a \in Arguments, ReadNext(a), NEW kind
  PROVE  /\ Cardinality(Listed(kind)) \in Nat
         /\ Listed(kind)' = IF a.kind = kind THEN Listed(kind) \union {Len(listed) + 1}
                            ELSE Listed(kind)
         /\ Cardinality(Listed(kind)') =
               IF a.kind = kind THEN Cardinality(Listed(kind)) + 1 ELSE Cardinality(Listed(kind))
<1>1. Listed(kind)' = IF a.kind = kind THEN Listed(kind) \union {Len(listed) + 1}
                      ELSE Listed(kind)
  BY ReadFacts DEF Listed
<1>2. Len(listed) + 1 \notin Listed(kind)
  BY ReadFacts DEF Listed
<1>3. IsFiniteSet(Listed(kind))
  <2>1. DOMAIN listed = 1..Len(listed) /\ Len(listed) \in Nat
    BY LenProperties DEF TypeOK
  <2>2. IsFiniteSet(1..Len(listed)) /\ Listed(kind) \in SUBSET (1..Len(listed))
    BY <2>1, FS_Interval DEF Listed
  <2> QED
    BY <2>2, FS_Subset
<1>4. Cardinality(Listed(kind)) \in Nat
  BY <1>3, FS_CardinalityType
<1>5. Cardinality(Listed(kind) \union {Len(listed) + 1}) = Cardinality(Listed(kind)) + 1
  BY <1>2, <1>3, FS_AddElement
<1> QED
  BY <1>1, <1>4, <1>5

LEMMA FunctionsNext ==
  ASSUME TypeOK, ListsAreFinite, NEW a \in Arguments, ReadNext(a), IsFiniteSet(FunctionsOfTasks)
  PROVE  /\ IsFiniteSet(FunctionsOfTasks') /\ Cardinality(FunctionsOfTasks) \in Nat
         /\ Cardinality(FunctionsOfTasks') =
               IF a.kind = "Tasks" THEN Cardinality(FunctionsOfTasks) + Cardinality(DOMAIN a.fns)
               ELSE Cardinality(FunctionsOfTasks)
<1> DEFINE n == Len(listed) + 1
           P == {n} \X DOMAIN a.fns
<1>1. Cardinality(FunctionsOfTasks) \in Nat
  BY FS_CardinalityType
<1>2. /\ Listed("Tasks")' = IF a.kind = "Tasks" THEN Listed("Tasks") \union {n} ELSE Listed("Tasks")
      /\ n \notin Listed("Tasks") /\ listed'[n] = a
      /\ \A i \in Listed("Tasks") : listed'[i] = listed[i]
  BY WrittenNext, ReadFacts DEF Listed
<1>3. CASE a.kind # "Tasks"
  <2>1. FunctionsOfTasks' = FunctionsOfTasks
    BY <1>2, <1>3 DEF FunctionsOfTasks
  <2> QED
    BY <1>1, <1>3, <2>1
<1>4. CASE a.kind = "Tasks"
  <2> HIDE DEF n
  <2>1. FunctionsOfTasks' = FunctionsOfTasks \union P
    BY <1>2, <1>4 DEF FunctionsOfTasks
  <2>2. FunctionsOfTasks \intersect P = {}
    BY <1>2 DEF FunctionsOfTasks
  <2>3. IsFiniteSet(P) /\ Cardinality(P) = Cardinality(DOMAIN a.fns)
    <3>1. /\ IsFiniteSet(DOMAIN a.fns) /\ Cardinality(DOMAIN a.fns) \in Nat
          /\ IsFiniteSet({n}) /\ Cardinality({n}) = 1
      BY <1>4, FS_Singleton, FS_CardinalityType DEF ListsAreFinite
    <3>2. IsFiniteSet(P) /\ Cardinality(P) = Cardinality({n}) * Cardinality(DOMAIN a.fns)
      BY <3>1, FS_Product
    <3> QED
      BY <3>1, <3>2
  <2> HIDE DEF P
  <2>4. /\ IsFiniteSet(FunctionsOfTasks \union P)
        /\ Cardinality(FunctionsOfTasks \union P) =
              Cardinality(FunctionsOfTasks) + Cardinality(P) - Cardinality(FunctionsOfTasks \intersect P)
    BY <2>3, FS_Union
  <2>5. Cardinality({}) = 0
    BY FS_EmptySet
  <2>6. Cardinality(P) \in Nat
    BY <2>3, FS_CardinalityType
  <2>7. Cardinality(FunctionsOfTasks \intersect P) = 0
    BY <2>2, <2>5
  <2> QED
    BY <1>1, <1>4, <2>1, <2>3, <2>4, <2>6, <2>7
<1> QED
  BY <1>3, <1>4

(* Nothing is forgotten of what was reported.                               *)
LEMMA ErrorsGrow ==
  ASSUME NEW a \in Arguments, ReadingParallel(a), reported' = {}
  PROVE  /\ reported = {} /\ ~Rejected(a)
         /\ ReadParallelTasks(a) => GoodFunctions(a) = DOMAIN a.fns
BY DEF ReadingParallel, Rejected, ReadInvalidParallel, ReadOption, ReadParallelTask, ReadParallelTasks, ReadSlice, ReadMap,
       ErrorsIf, GoodFunctions

LEMMA CountStep ==
  ASSUME ListsAreFinite, TypeOK, Counted, [ParallelNext]_parallelVars
  PROVE  Counted'
<1>1. /\ parallel.tasks \in Seq(ParallelTasks) /\ parallel.slices \in Seq(SliceTasks)
      /\ parallel.maps \in Seq(MapTasks)
  BY DEF TypeOK, Parallels
<1>2. CASE UNCHANGED <<listed, parallel>> /\ (reported' = {} => reported = {})
  <2>1. /\ FunctionsOfTasks' = FunctionsOfTasks /\ Listed("Task")' = Listed("Task")
        /\ Listed("Slice")' = Listed("Slice") /\ Listed("Map")' = Listed("Map")
    BY <1>2 DEF FunctionsOfTasks, Listed
  <2> QED
    BY <1>2, <2>1 DEF Counted
<1>3. ASSUME NEW a \in Arguments, ReadingParallel(a)  PROVE Counted'
  <2> DEFINE fns == Cardinality(FunctionsOfTasks)
             card(kind) == Cardinality(Listed(kind))
  <2>1. ReadNext(a)
    BY <1>3 DEF ReadingParallel, ReadInvalidParallel, ReadOption, ReadParallelTask, ReadParallelTasks, ReadSlice, ReadMap
  <2>2. /\ IsFiniteSet(FunctionsOfTasks') /\ fns \in Nat
        /\ fns' = IF a.kind = "Tasks" THEN fns + Cardinality(DOMAIN a.fns) ELSE fns
    BY <2>1, FunctionsNext DEF Counted
  <2>3. \A k \in {"Task", "Slice", "Map"} :
           /\ card(k) \in Nat
           /\ Cardinality(Listed(k)') = IF a.kind = k THEN card(k) + 1 ELSE card(k)
    <3>1. ASSUME NEW k  PROVE  /\ card(k) \in Nat
                             /\ Cardinality(Listed(k)') = IF a.kind = k THEN card(k) + 1 ELSE card(k)
      BY <2>1, WrittenNext
    <3> QED
      BY <3>1
  <2> HIDE DEF fns, card
  <2>4. ASSUME reported' = {}
        PROVE  /\ a.kind = "Task" => Len(parallel'.tasks) = Len(parallel.tasks) + 1
               /\ a.kind = "Tasks" =>
                     /\ Cardinality(DOMAIN a.fns) \in Nat
                     /\ Len(parallel'.tasks) = Len(parallel.tasks) + Cardinality(DOMAIN a.fns)
               /\ a.kind \notin {"Task", "Tasks"} => parallel'.tasks = parallel.tasks
               /\ a.kind = "Slice" => Len(parallel'.slices) = Len(parallel.slices) + 1
               /\ a.kind # "Slice" => parallel'.slices = parallel.slices
               /\ a.kind = "Map" => Len(parallel'.maps) = Len(parallel.maps) + 1
               /\ a.kind # "Map" => parallel'.maps = parallel.maps
    <3>1. CASE ReadInvalidParallel(a)
      BY <3>1, InvalidRead DEF ReadInvalidParallel
    <3>2. CASE ReadOption(a)
      <4>1. a.kind \notin {"Task", "Tasks", "Slice", "Map"}
        BY <3>2 DEF ReadOption
      <4> QED
        BY <3>2, <4>1, OptionRead
    <3>3. CASE ReadParallelTask(a) /\ TakesNothing(a.fn)
      <4>1. Len(parallel'.tasks) = Len(parallel.tasks) + 1
        <5>1. ParallelTask(taskSerial, WantsInstrument(a)) \in ParallelTasks
          BY TaskTypes DEF WantsInstrument
        <5> QED
          BY <1>1, <3>3, <5>1, TaskRead, Appended
      <4>2. a.kind = "Task"
        BY <3>3 DEF ReadParallelTask
      <4> QED
        BY <3>3, <4>1, <4>2, TaskRead
    <3>4. CASE ReadParallelTasks(a)
      <4>1. a.kind = "Tasks" /\ GoodFunctions(a) = DOMAIN a.fns
        BY <1>3, <2>4, <3>4, ErrorsGrow DEF ReadParallelTasks
      <4>2. /\ parallel'.tasks = parallel.tasks \o Batch(Cardinality(DOMAIN a.fns))
            /\ Cardinality(DOMAIN a.fns) \in Nat
            /\ parallel'.slices = parallel.slices /\ parallel'.maps = parallel.maps
        BY <3>4, <4>1, TasksRead
      <4>3. Batch(Cardinality(DOMAIN a.fns)) \in Seq(ParallelTasks)
            /\ Len(Batch(Cardinality(DOMAIN a.fns))) = Cardinality(DOMAIN a.fns)
        BY <4>2, BatchType
      <4>4. Len(parallel'.tasks) = Len(parallel.tasks) + Cardinality(DOMAIN a.fns)
        <5>1. ASSUME NEW b \in Seq(ParallelTasks)
              PROVE  Len(parallel.tasks \o b) = Len(parallel.tasks) + Len(b)
          BY <1>1, Followed
        <5> QED
          BY <4>2, <4>3, <5>1
      <4> QED
        BY <4>1, <4>2, <4>4
    <3>5. CASE ReadSlice(a) /\ CompilesSlice(a)
      <4>1. Len(parallel'.slices) = Len(parallel.slices) + 1
        BY <1>1, <3>5, SliceRead, TaskTypes, Appended
      <4> QED
        BY <3>5, <4>1, SliceRead DEF ReadSlice
    <3>6. CASE ReadMap(a) /\ CompilesMap(a)
      <4>1. Len(parallel'.maps) = Len(parallel.maps) + 1
        BY <1>1, <3>6, MapRead, TaskTypes, Appended
      <4> QED
        BY <3>6, <4>1, MapRead DEF ReadMap
    <3> QED
      BY <1>3, <2>4, <3>1, <3>2, <3>3, <3>4, <3>5, <3>6, ReadingCases, ErrorsGrow
  <2>5. reported' = {} => reported = {}
    BY <1>3, ErrorsGrow
  <2>6. reported' = {} => /\ Len(parallel'.tasks) = Cardinality(Listed("Task")') + fns'
                          /\ Len(parallel'.slices) = Cardinality(Listed("Slice")')
                          /\ Len(parallel'.maps) = Cardinality(Listed("Map")')
    <3>1. reported = {} => /\ Len(parallel.tasks) = card("Task") + fns
                           /\ Len(parallel.slices) = card("Slice")
                           /\ Len(parallel.maps) = card("Map")
      BY DEF Counted, fns, card
    <3>2. SUFFICES ASSUME reported' = {}
                   PROVE  /\ Len(parallel'.tasks) = Cardinality(Listed("Task")') + fns'
                          /\ Len(parallel'.slices) = Cardinality(Listed("Slice")')
                          /\ Len(parallel'.maps) = Cardinality(Listed("Map")')
      OBVIOUS
    <3>3. /\ Len(parallel.tasks) = card("Task") + fns
          /\ Len(parallel.slices) = card("Slice") /\ Len(parallel.maps) = card("Map")
          /\ card("Task") \in Nat
      BY <2>3, <2>5, <3>1, <3>2
    <3>4. Len(parallel'.slices) = Cardinality(Listed("Slice")')
      BY <2>3, <2>4, <3>2, <3>3
    <3>5. Len(parallel'.maps) = Cardinality(Listed("Map")')
      BY <2>3, <2>4, <3>2, <3>3
    <3>6. CASE a.kind = "Task"
      BY <2>2, <2>3, <2>4, <3>2, <3>3, <3>4, <3>5, <3>6
    <3>7. CASE a.kind = "Tasks"
      BY <2>2, <2>3, <2>4, <3>2, <3>3, <3>4, <3>5, <3>7
    <3>8. CASE a.kind \notin {"Task", "Tasks"}
      BY <2>2, <2>3, <2>4, <3>2, <3>3, <3>4, <3>5, <3>8
    <3> QED
      BY <3>6, <3>7, <3>8
  <2> QED
    BY <2>2, <2>6 DEF Counted, fns
<1>4. EmptyParallel \/ Finish \/ ParallelDone \/ UNCHANGED parallelVars =>
         UNCHANGED <<listed, parallel>> /\ (reported' = {} => reported = {})
  BY DEF EmptyParallel, Finish, ParallelDone, parallelVars
<1> QED
  BY <1>2, <1>3, <1>4 DEF ParallelNext, Arguments

-----------------------------------------------------------------------------
(* The judgement on a parallel                                             *)

(* What the compiler asks of one argument.                                  *)
ValidArgument(a) ==
    /\ a.kind \notin {"NoCall", "Foreign", "InstrumentFlow"}
    /\ a.kind = "Task" => /\ TakesNothing(a.fn)
                          /\ \A k \in DOMAIN a.opts : a.opts[k].kind # "NoOption"
    /\ a.kind = "Tasks" => \A k \in DOMAIN a.fns : TakesNothing(a.fns[k])
    /\ a.kind \in {"Slice", "Map"} => ValidCollection(a)

Instrumented(list) == \E i \in DOMAIN list : list[i].instrumented
TaskInstrumented  == Instrumented(parallel.tasks)
InstrumentWritten == \E i \in Listed("Task") : WantsInstrument(listed[i])
EndWritten        == HasEndWritten

(* As long as arguments are read, reported says whether each of them is    *)
(* valid, and parallel sums up what the checks at the end look at.          *)
Sums ==
    /\ reported = {} <=> \A i \in DOMAIN listed : ValidArgument(listed[i])
    /\ parallel.emitters = 0 <=> Listed("WithEmitter") = {}
    /\ parallel.instrumented <=> Listed("InstrumentParallel") # {}
    /\ parallel.continueOnError <=> Listed("ContinueOnError") # {}
    /\ reported = {} => /\ TaskInstrumented <=> InstrumentWritten
                        /\ HasEnd <=> EndWritten

Judged == (stage = "reading" => Sums) /\ ParallelAcceptedIffDocumented

LEMMA ReadingReads ==
  ASSUME NEW a \in Arguments, ReadingParallel(a)
  PROVE  ReadNext(a)
BY DEF ReadingParallel, ReadInvalidParallel, ReadOption, ReadParallelTask, ReadParallelTasks, ReadSlice, ReadMap

(* A collection compiles if it is one that its function accepts.            *)
LEMMA CollectionJudged ==
  ASSUME NEW a
  PROVE  /\ a.kind = "Slice" => (ValidCollection(a) <=> CompilesSlice(a) /\ EndErrors(a.opts) = {})
         /\ a.kind = "Map" => (ValidCollection(a) <=> CompilesMap(a) /\ EndErrors(a.opts) = {})
<1>1. EndErrors(a.opts) = {} <=>
         \A k \in DOMAIN a.opts : /\ a.opts[k].kind = "End" /\ TakesNothing(a.opts[k].fn)
                                  /\ \A j \in DOMAIN a.opts : j = k
  <2>1. EndErrors(a.opts) = {} <=> /\ Ends(a.opts) = DOMAIN a.opts
                                   /\ GoodEnds(a.opts) = Ends(a.opts)
                                   /\ \A j, k \in GoodEnds(a.opts) : j = k
    BY DEF EndErrors, ErrorsIf
  <2>2. Ends(a.opts) = DOMAIN a.opts <=> \A k \in DOMAIN a.opts : a.opts[k].kind = "End"
    BY DEF Ends
  <2>3. GoodEnds(a.opts) = Ends(a.opts) <=> \A k \in Ends(a.opts) : TakesNothing(a.opts[k].fn)
    BY DEF GoodEnds
  <2> QED
    BY <2>1, <2>2, <2>3
<1>2. \A V, T : IsOfType(V, T, Tolerated) <=> Assignable(V, T)
  BY DEF IsOfType, Assignable, Tolerated
<1> DEFINE in == Inputs(a.fn)
<1>3. ASSUME a.kind = "Slice"
      PROVE  CompilesSlice(a) <=> /\ a.elem # "NoCollection"
                                  /\ Compiles(a.fn) /\ Outputs(a.fn) = <<>> /\ Accepts(a, Tolerated)
  <2>1. CompilesSlice(a) <=> /\ Compiles(a.fn) /\ Outputs(a.fn) = <<>> /\ Len(in) \in {1, 2}
                             /\ Len(in) = 2 => in[1] = "int"
                             /\ a.elem # "NoCollection" /\ Assignable(Last(in), a.elem)
    BY DEF CompilesSlice
  <2>2. Accepts(a, Tolerated) <=> /\ Len(in) = 1 \/ (Len(in) = 2 /\ in[1] = "int")
                       /\ Assignable(Last(in), a.elem)
    BY <1>2, <1>3 DEF Accepts
  <2>3. Len(in) \in {1, 2} <=> Len(in) = 1 \/ Len(in) = 2
    OBVIOUS
  <2> HIDE DEF in
  <2> QED
    BY <2>1, <2>2, <2>3
<1>4. ASSUME a.kind = "Map"
      PROVE  CompilesMap(a) <=> /\ a.elem # "NoCollection"
                                /\ Compiles(a.fn) /\ Outputs(a.fn) = <<>> /\ Accepts(a, Tolerated)
                                /\ ~a.named
  <2>1. CompilesMap(a) <=> /\ Compiles(a.fn) /\ Outputs(a.fn) = <<>> /\ Len(in) = 2
                           /\ a.elem # "NoCollection" /\ ~a.named
                           /\ Assignable(in[1], a.key) /\ Assignable(in[2], a.elem)
    BY DEF CompilesMap
  <2>2. Accepts(a, Tolerated) <=> /\ Len(in) = 2 /\ Assignable(in[1], a.key)
                       /\ Assignable(Last(in), a.elem)
    BY <1>2, <1>4 DEF Accepts
  <2>3. Len(in) = 2 => Last(in) = in[2]
    BY DEF Last
  <2> QED
    BY <2>1, <2>2, <2>3
<1> QED
  BY <1>1, <1>3, <1>4 DEF ValidCollection, DocumentedCollection

(* An error is reported of exactly the arguments that are not valid.        *)
LEMMA ArgumentJudged ==
  ASSUME NEW a \in Arguments, ReadingParallel(a)
  PROVE  reported' = {} <=> reported = {} /\ ValidArgument(a)
<1>1. CASE ReadInvalidParallel(a)
  BY <1>1 DEF ReadInvalidParallel, ValidArgument, ErrorsIf
<1>2. CASE ReadOption(a)
  BY <1>2 DEF ReadOption, ValidArgument
<1>3. CASE ReadParallelTask(a)
  <2>1. ValidArgument(a) <=> /\ TakesNothing(a.fn)
                             /\ \A k \in DOMAIN a.opts : a.opts[k].kind # "NoOption"
    BY <1>3 DEF ReadParallelTask, ValidArgument
  <2> QED
    BY <1>3, <2>1 DEF ReadParallelTask, ErrorsIf
<1>4. CASE ReadParallelTasks(a)
  <2>1. ValidArgument(a) <=> GoodFunctions(a) = DOMAIN a.fns
    BY <1>4 DEF ReadParallelTasks, ValidArgument, GoodFunctions
  <2> QED
    BY <1>4, <2>1 DEF ReadParallelTasks, ErrorsIf, GoodFunctions
<1>5. CASE ReadSlice(a)
  <2>1. ValidArgument(a) <=> CompilesSlice(a) /\ EndErrors(a.opts) = {}
    BY <1>5, CollectionJudged DEF ReadSlice, ValidArgument
  <2> QED
    BY <1>5, <2>1 DEF ReadSlice
<1>6. CASE ReadMap(a)
  <2>1. ValidArgument(a) <=> CompilesMap(a) /\ EndErrors(a.opts) = {}
    BY <1>6, CollectionJudged DEF ReadMap, ValidArgument
  <2> QED
    BY <1>6, <2>1 DEF ReadMap
<1> QED
  BY <1>1, <1>2, <1>3, <1>4, <1>5, <1>6 DEF ReadingParallel

LEMMA InstrumentedAppend ==
  ASSUME NEW S, NEW s \in Seq(S), NEW e \in S
  PROVE  Instrumented(Append(s, e)) <=> Instrumented(s) \/ e.instrumented
<1> DEFINE l == Append(s, e)
           n == Len(s) + 1
<1>1. /\ DOMAIN l = DOMAIN s \union {n} /\ n \notin DOMAIN s
      /\ \A i \in DOMAIN s : l[i] = s[i]
      /\ l[n] = e
  BY Appended
<1> HIDE DEF l, n
<1>2. Instrumented(l) <=> Instrumented(s) \/ e.instrumented
  BY <1>1 DEF Instrumented
<1> QED
  BY <1>2 DEF l

LEMMA InstrumentedBatch ==
  ASSUME TypeOK, NEW n \in Nat, NEW s \in Seq(ParallelTasks)
  PROVE  Instrumented(s \o Batch(n)) <=> Instrumented(s)
<1>0. PICK b : b = Batch(n)
  OBVIOUS
<1>1. b \in Seq(ParallelTasks) /\ Len(b) = n
  BY <1>0, BatchType
<1>2. ASSUME NEW k \in 1..n  PROVE b[k].instrumented = FALSE
  <2>1. b[k] = [serial |-> taskSerial + k - 1, instrumented |-> FALSE]
    BY <1>0, BatchType
  <2> QED
    BY <2>1
<1> DEFINE l == s \o b
           m == Len(s)
<1>3. m \in Nat /\ DOMAIN s = 1..m /\ DOMAIN l = 1..(m + n)
  <2>1. ASSUME NEW t \in Seq(ParallelTasks)
        PROVE  /\ Len(s) \in Nat /\ DOMAIN s = 1..Len(s)
               /\ DOMAIN (s \o t) = 1..(Len(s) + Len(t))
    BY Followed
  <2> QED
    BY <1>1, <2>1
<1>4. \A i \in 1..m : l[i] = s[i]
  BY <1>1, Followed
<1>5. \A i \in 1..Len(b) : l[m + i] = b[i]
  BY <1>1, Followed
<1> HIDE DEF l, m
<1>6. ASSUME NEW i \in 1..(m + n), i \notin 1..m  PROVE ~l[i].instrumented
  <2>1. i - m \in 1..n /\ i = m + (i - m)
    BY <1>3, <1>6
  <2>2. l[i] = b[i - m]
    BY <1>1, <1>5, <2>1
  <2> QED
    BY <1>2, <2>1, <2>2
<1>7. 1..m \subseteq 1..(m + n)
  BY <1>3
<1>8. Instrumented(l) <=> Instrumented(s)
  BY <1>3, <1>4, <1>6, <1>7 DEF Instrumented
<1> QED
  BY <1>0, <1>8 DEF l

(* What an argument adds to the sums.                                       *)
LEMMA InstrumentNext ==
  ASSUME ListsAreFinite, TypeOK, NEW a \in Arguments, ReadingParallel(a), reported' = {}
  PROVE  /\ TaskInstrumented' <=> TaskInstrumented \/ (a.kind = "Task" /\ WantsInstrument(a))
         /\ InstrumentWritten' <=> InstrumentWritten \/ (a.kind = "Task" /\ WantsInstrument(a))
<1>1. parallel.tasks \in Seq(ParallelTasks)
  BY DEF TypeOK, Parallels
<1>2. Instrumented(parallel'.tasks) <=>
         Instrumented(parallel.tasks) \/ (a.kind = "Task" /\ WantsInstrument(a))
  <2>1. ReadInvalidParallel(a) => parallel'.tasks = parallel.tasks /\ a.kind # "Task"
    BY InvalidRead DEF ReadInvalidParallel
  <2>2. ReadOption(a) => parallel'.tasks = parallel.tasks /\ a.kind # "Task"
    BY OptionRead DEF ReadOption
  <2>3. /\ ReadSlice(a) /\ CompilesSlice(a) => parallel'.tasks = parallel.tasks /\ a.kind # "Task"
        /\ ReadMap(a) /\ CompilesMap(a) => parallel'.tasks = parallel.tasks /\ a.kind # "Task"
    BY SliceRead, MapRead DEF ReadSlice, ReadMap
  <2>4. CASE ReadParallelTask(a) /\ TakesNothing(a.fn)
    <3> DEFINE e == ParallelTask(taskSerial, WantsInstrument(a))
    <3>1. parallel'.tasks = Append(parallel.tasks, e) /\ a.kind = "Task"
      BY <2>4, TaskRead DEF ReadParallelTask
    <3>2. e \in ParallelTasks /\ (e.instrumented <=> WantsInstrument(a))
      BY TaskTypes DEF WantsInstrument, ParallelTask
    <3> HIDE DEF e
    <3>3. Instrumented(Append(parallel.tasks, e)) <=> Instrumented(parallel.tasks) \/ e.instrumented
      BY <1>1, <3>2, InstrumentedAppend
    <3> QED
      BY <3>1, <3>2, <3>3
  <2>5. CASE ReadParallelTasks(a)
    <3>1. /\ parallel'.tasks = parallel.tasks \o Batch(Cardinality(GoodFunctions(a)))
          /\ Cardinality(GoodFunctions(a)) \in Nat /\ a.kind = "Tasks"
      BY <2>5, TasksRead DEF ReadParallelTasks
    <3> QED
      BY <1>1, <3>1, InstrumentedBatch
  <2>6. ~Rejected(a)
    BY ErrorsGrow
  <2>7. CASE parallel'.tasks = parallel.tasks /\ a.kind # "Task"
    BY <2>7
  <2> QED
    BY <2>1, <2>2, <2>3, <2>4, <2>5, <2>6, <2>7, ReadingCases
<1>3. InstrumentWritten' <=> InstrumentWritten \/ (a.kind = "Task" /\ WantsInstrument(a))
  <2>1. /\ Listed("Task")' = IF a.kind = "Task" THEN Listed("Task") \union {Len(listed) + 1}
                             ELSE Listed("Task")
        /\ listed'[Len(listed) + 1] = a
        /\ \A i \in Listed("Task") : listed'[i] = listed[i]
    BY ReadingReads, WrittenNext, ReadFacts DEF Listed
  <2> QED
    BY <2>1 DEF InstrumentWritten
<1> QED
  BY <1>2, <1>3 DEF TaskInstrumented

Ended(list) == \E i \in DOMAIN list : list[i].withEnd

LEMMA EndedAppend ==
  ASSUME NEW S, NEW s \in Seq(S), NEW e \in S
  PROVE  Ended(Append(s, e)) <=> Ended(s) \/ e.withEnd
<1> DEFINE l == Append(s, e)
           n == Len(s) + 1
<1>1. /\ DOMAIN l = DOMAIN s \union {n} /\ n \notin DOMAIN s
      /\ \A i \in DOMAIN s : l[i] = s[i]
      /\ l[n] = e
  BY Appended
<1> HIDE DEF l, n
<1>2. Ended(l) <=> Ended(s) \/ e.withEnd
  BY <1>1 DEF Ended
<1> QED
  BY <1>2 DEF l

LEMMA EndNext ==
  ASSUME ListsAreFinite, TypeOK, NEW a \in Arguments, ReadingParallel(a), reported' = {}
  PROVE  /\ HasEnd' <=> HasEnd \/ (a.kind \in {"Slice", "Map"} /\ Ends(a.opts) # {})
         /\ EndWritten' <=> EndWritten \/ (a.kind \in {"Slice", "Map"} /\ Ends(a.opts) # {})
<1>1. parallel.slices \in Seq(SliceTasks) /\ parallel.maps \in Seq(MapTasks)
  BY DEF TypeOK, Parallels
<1>2. (HasEnd <=> Ended(parallel.slices) \/ Ended(parallel.maps))
      /\ (HasEnd' <=> Ended(parallel'.slices) \/ Ended(parallel'.maps))
  BY DEF HasEnd, Ended
<1>3. a.kind \in {"Slice", "Map"} => GoodEnds(a.opts) = Ends(a.opts)
  <2>1. ReadSlice(a) \/ ReadMap(a) => EndErrors(a.opts) = {}
    BY ErrorsGrow DEF ReadSlice, ReadMap, Rejected
  <2>2. a.kind \in {"Slice", "Map"} => ReadSlice(a) \/ ReadMap(a)
    BY DEF ReadingParallel, ReadInvalidParallel, ReadOption, ReadParallelTask, ReadParallelTasks
  <2> QED
    BY <2>1, <2>2 DEF EndErrors, ErrorsIf
<1>4. \/ a.kind \notin {"Slice", "Map"} /\ parallel'.slices = parallel.slices
                                         /\ parallel'.maps = parallel.maps
      \/ /\ a.kind = "Slice" /\ parallel'.slices = Append(parallel.slices, SliceTask(a))
         /\ parallel'.maps = parallel.maps
      \/ /\ a.kind = "Map" /\ parallel'.maps = Append(parallel.maps, MapTask(a))
         /\ parallel'.slices = parallel.slices
  <2>1. CASE ReadInvalidParallel(a)
    BY <2>1, InvalidRead DEF ReadInvalidParallel
  <2>2. CASE ReadOption(a)
    <3>1. a.kind \notin {"Slice", "Map"}
      BY <2>2 DEF ReadOption
    <3> QED
      BY <2>2, <3>1, OptionRead
  <2>3. CASE ReadParallelTask(a) /\ TakesNothing(a.fn)
    BY <2>3, TaskRead DEF ReadParallelTask
  <2>4. CASE ReadParallelTasks(a)
    BY <2>4, TasksRead DEF ReadParallelTasks
  <2>5. CASE ReadSlice(a) /\ CompilesSlice(a)
    BY <2>5, SliceRead DEF ReadSlice
  <2>6. CASE ReadMap(a) /\ CompilesMap(a)
    BY <2>6, MapRead DEF ReadMap
  <2> QED
    BY <2>1, <2>2, <2>3, <2>4, <2>5, <2>6, ReadingCases, ErrorsGrow
<1>5. /\ Ended(Append(parallel.slices, SliceTask(a))) <=>
            Ended(parallel.slices) \/ GoodEnds(a.opts) # {}
      /\ Ended(Append(parallel.maps, MapTask(a))) <=>
            Ended(parallel.maps) \/ GoodEnds(a.opts) # {}
  <2>1. (SliceTask(a).withEnd <=> GoodEnds(a.opts) # {}) /\ (MapTask(a).withEnd <=> GoodEnds(a.opts) # {})
    BY DEF SliceTask, MapTask
  <2>2. SliceTask(a) \in SliceTasks /\ MapTask(a) \in MapTasks
    BY TaskTypes
  <2>3. Ended(Append(parallel.slices, SliceTask(a))) <=> Ended(parallel.slices) \/ SliceTask(a).withEnd
    BY <1>1, <2>2, EndedAppend
  <2>4. Ended(Append(parallel.maps, MapTask(a))) <=> Ended(parallel.maps) \/ MapTask(a).withEnd
    BY <1>1, <2>2, EndedAppend
  <2> QED
    BY <2>1, <2>3, <2>4
<1>6. HasEnd' <=> HasEnd \/ (a.kind \in {"Slice", "Map"} /\ Ends(a.opts) # {})
  BY <1>2, <1>3, <1>4, <1>5
<1>7. EndWritten' <=> EndWritten \/ (a.kind \in {"Slice", "Map"} /\ Ends(a.opts) # {})
  <2>1. Collections' = IF a.kind \in {"Slice", "Map"} THEN Collections \union {Len(listed) + 1}
                       ELSE Collections
    <3>1. /\ Listed("Slice")' = IF a.kind = "Slice" THEN Listed("Slice") \union {Len(listed) + 1}
                                ELSE Listed("Slice")
          /\ Listed("Map")' = IF a.kind = "Map" THEN Listed("Map") \union {Len(listed) + 1}
                              ELSE Listed("Map")
      BY ReadingReads, WrittenNext
    <3> QED
      BY <3>1 DEF Collections
  <2>2. listed'[Len(listed) + 1] = a /\ \A i \in Collections : listed'[i] = listed[i]
    BY ReadingReads, ReadFacts DEF Collections, Listed
  <2> QED
    BY <2>1, <2>2 DEF EndWritten, HasEndWritten
<1> QED
  BY <1>6, <1>7

LEMMA SumStep ==
  ASSUME ListsAreFinite, TypeOK, Sums, NEW a \in Arguments, ReadingParallel(a)
  PROVE  Sums'
<1>1. ReadNext(a)
  BY ReadingReads
<1>2. reported' = {} <=> \A i \in DOMAIN listed' : ValidArgument(listed'[i])
  <2>1. /\ DOMAIN listed' = DOMAIN listed \union {Len(listed) + 1} /\ listed'[Len(listed) + 1] = a
        /\ \A i \in DOMAIN listed : listed'[i] = listed[i]
    BY <1>1, ReadFacts
  <2>2. reported' = {} <=> reported = {} /\ ValidArgument(a)
    BY ArgumentJudged
  <2> QED
    BY <2>1, <2>2 DEF Sums
<1>3. ASSUME NEW kind
      PROVE  Listed(kind)' = IF a.kind = kind THEN Listed(kind) \union {Len(listed) + 1}
                             ELSE Listed(kind)
  BY <1>1, WrittenNext
<1>4. /\ parallel \in Parallels /\ parallel.emitters \in Nat
      /\ parallel.instrumented \in BOOLEAN /\ parallel.continueOnError \in BOOLEAN
  BY DEF TypeOK, Parallels
<1>5. /\ a.kind = "WithEmitter" => parallel'.emitters = parallel.emitters + 1
      /\ a.kind # "WithEmitter" => parallel'.emitters = parallel.emitters
      /\ parallel'.instrumented <=> parallel.instrumented \/ a.kind = "InstrumentParallel"
      /\ parallel'.continueOnError <=> parallel.continueOnError \/ a.kind = "ContinueOnError"
  <2>1. CASE ReadOption(a)
    BY <1>4, <2>1, OptionRead
  <2>2. CASE ReadInvalidParallel(a) \/ Rejected(a)
    BY <1>4, <2>2, InvalidRead, RejectedRead
       DEF ReadInvalidParallel, Rejected, ReadParallelTask, ReadSlice, ReadMap
  <2>3. CASE ReadParallelTask(a) /\ TakesNothing(a.fn)
    BY <2>3, TaskRead DEF ReadParallelTask
  <2>4. CASE ReadParallelTasks(a)
    BY <2>4, TasksRead DEF ReadParallelTasks
  <2>5. CASE ReadSlice(a) /\ CompilesSlice(a)
    BY <2>5, SliceRead DEF ReadSlice
  <2>6. CASE ReadMap(a) /\ CompilesMap(a)
    BY <2>6, MapRead DEF ReadMap
  <2> QED
    BY <2>1, <2>2, <2>3, <2>4, <2>5, <2>6, ReadingCases
<1>6. /\ parallel'.emitters = 0 <=> Listed("WithEmitter")' = {}
      /\ parallel'.instrumented <=> Listed("InstrumentParallel")' # {}
      /\ parallel'.continueOnError <=> Listed("ContinueOnError")' # {}
  <2>1. parallel'.emitters = 0 <=> Listed("WithEmitter")' = {}
    <3>1. Listed("WithEmitter")' = IF a.kind = "WithEmitter"
                                   THEN Listed("WithEmitter") \union {Len(listed) + 1}
                                   ELSE Listed("WithEmitter")
      BY <1>3
    <3>2. parallel.emitters = 0 <=> Listed("WithEmitter") = {}
      BY DEF Sums
    <3>3. parallel.emitters \in Nat => parallel.emitters + 1 # 0
      OBVIOUS
    <3> QED
      BY <1>4, <1>5, <3>1, <3>2, <3>3
  <2>2. parallel'.instrumented <=> Listed("InstrumentParallel")' # {}
    <3>1. Listed("InstrumentParallel")' = IF a.kind = "InstrumentParallel"
                                          THEN Listed("InstrumentParallel") \union {Len(listed) + 1}
                                          ELSE Listed("InstrumentParallel")
      BY <1>3
    <3>2. parallel.instrumented <=> Listed("InstrumentParallel") # {}
      BY DEF Sums
    <3> QED
      BY <1>5, <3>1, <3>2
  <2>3. parallel'.continueOnError <=> Listed("ContinueOnError")' # {}
    <3>1. Listed("ContinueOnError")' = IF a.kind = "ContinueOnError"
                                       THEN Listed("ContinueOnError") \union {Len(listed) + 1}
                                       ELSE Listed("ContinueOnError")
      BY <1>3
    <3>2. parallel.continueOnError <=> Listed("ContinueOnError") # {}
      BY DEF Sums
    <3> QED
      BY <1>5, <3>1, <3>2
  <2> QED
    BY <2>1, <2>2, <2>3
<1>7. reported' = {} => /\ TaskInstrumented' <=> InstrumentWritten'
                        /\ HasEnd' <=> EndWritten'
  BY InstrumentNext, EndNext, ErrorsGrow DEF Sums
<1> QED
  BY <1>2, <1>6, <1>7 DEF Sums

(* At the end, what is summed up decides.                                   *)
LEMMA DocumentedSummed ==
  ASSUME TypeOK, Sums, listed # <<>>
  PROVE  ParallelDocumentedButFor <=> reported = {} /\ ~ParallelLacksEmitter /\ ~(HasEnd /\ parallel.continueOnError)
<1>1. (\A i \in DOMAIN listed : ValidArgument(listed[i])) <=>
        /\ Listed("NoCall") \union Listed("Foreign") \union Listed("InstrumentFlow") = {}
        /\ \A i \in Listed("Task") : /\ TakesNothing(listed[i].fn)
                                     /\ \A k \in DOMAIN listed[i].opts : listed[i].opts[k].kind # "NoOption"
        /\ \A i \in Listed("Tasks") : \A k \in DOMAIN listed[i].fns : TakesNothing(listed[i].fns[k])
        /\ \A i \in Collections : ValidCollection(listed[i])
  BY DEF ValidArgument, Listed, Collections
<1>2. ParallelLacksEmitter <=> parallel.emitters = 0 /\ (parallel.instrumented \/ TaskInstrumented)
  BY DEF ParallelLacksEmitter, TaskInstrumented, Instrumented
<1>3. InstrumentWritten <=>
        ~ \A i \in Listed("Task") : \A k \in DOMAIN listed[i].opts : listed[i].opts[k].kind # "Instrument"
  BY DEF InstrumentWritten, WantsInstrument
<1>4. (\A i \in Collections : ValidCollection(listed[i])) <=>
        /\ \A i \in Collections : DocumentedCollection(listed[i], Tolerated)
        /\ ~\E i \in Listed("Map") : listed[i].named
  BY DEF ValidCollection, Collections, Listed
<1>5. ParallelDocumentedButFor <=>
        /\ \A i \in DOMAIN listed : ValidArgument(listed[i])
        /\ Listed("ContinueOnError") # {} => ~EndWritten
        /\ Listed("WithEmitter") = {} => Listed("InstrumentParallel") = {} /\ ~InstrumentWritten
  <2>1. {"no work", "assignable", "flow option"} = Tolerated
    BY DEF Tolerated
  <2>2. "no work" \in Tolerated /\ "flow option" \in Tolerated
    BY DEF Tolerated
  <2> QED
    BY <1>1, <1>3, <1>4, <2>1, <2>2
       DEF ParallelDocumentedButFor, ParallelAsDocumented, ParallelAllowedButRefused, EndWritten
<1> QED
  BY <1>2, <1>5 DEF Sums

LEMMA JudgeStep ==
  ASSUME ListsAreFinite, TypeOK, Judged, [ParallelNext]_parallelVars
  PROVE  Judged'
<1>1. ASSUME NEW a \in Arguments, ReadingParallel(a)  PROVE Judged'
  <2>1. stage = "reading" /\ stage' = "reading"
    BY <1>1, ReadingReads, ReadFacts
  <2>2. Sums'
    BY <1>1, <2>1, SumStep DEF Judged
  <2> QED
    BY <2>1, <2>2 DEF Judged, ParallelAcceptedIffDocumented
<1>2. CASE EmptyParallel
  <2>1. stage' = "refused" /\ listed' = <<>>
    BY <1>2 DEF EmptyParallel
  <2> QED
    BY <2>1 DEF Judged, ParallelAcceptedIffDocumented, ParallelDocumentedButFor, ParallelAsDocumented
<1>3. CASE Finish
  <2>1. /\ stage = "reading" /\ listed # <<>> /\ listed' = listed /\ Sums
        /\ stage' = IF reported' = {} THEN "accepted" ELSE "refused"
        /\ reported' = {} <=> /\ reported = {} /\ ~ParallelLacksEmitter
                              /\ ~(HasEnd /\ parallel.continueOnError)
    BY <1>3 DEF Finish, Judged, ErrorsIf
  <2>2. ParallelDocumentedButFor <=> reported' = {}
    BY <2>1, DocumentedSummed
  <2>3. ParallelDocumentedButFor' <=> ParallelDocumentedButFor
    BY <2>1 DEF ParallelDocumentedButFor, ParallelAsDocumented, ParallelAllowedButRefused, HasEndWritten, HasFunctions, Listed, Collections
  <2> QED
    BY <2>1, <2>2, <2>3 DEF Judged, ParallelAcceptedIffDocumented
<1>4. CASE UNCHANGED parallelVars
  <2>1. ParallelDocumentedButFor' <=> ParallelDocumentedButFor
    BY <1>4 DEF parallelVars, ParallelDocumentedButFor, ParallelAsDocumented, ParallelAllowedButRefused, HasEndWritten, HasFunctions, Listed, Collections
  <2>2. Sums' <=> Sums
    BY <1>4 DEF parallelVars, Sums, Listed, Collections, TaskInstrumented, InstrumentWritten, HasEnd, EndWritten, HasEndWritten
  <2> QED
    BY <1>4, <2>1, <2>2 DEF parallelVars, Judged, ParallelAcceptedIffDocumented
<1> QED
  BY <1>1, <1>2, <1>3, <1>4 DEF ParallelNext, ParallelDone, Arguments

-----------------------------------------------------------------------------
(* Theorems                                                                *)

LEMMA Initially ==
  ASSUME ParallelInit
  PROVE  TypeOK /\ Numbered /\ Counted /\ Judged
<1> USE DEF ParallelInit
<1>1. TypeOK
  BY DEF TypeOK, Parallels
<1>2. DOMAIN listed = {} /\ parallel.tasks = <<>> /\ parallel.slices = <<>> /\ parallel.maps = <<>>
  OBVIOUS
<1>3. Numbered
  BY <1>2 DEF Numbered, ApartFromEachOther, NumbersInUse, NumberedApart, Serials
<1>4. \A kind : Listed(kind) = {}
  BY <1>2 DEF Listed
<1>5. Counted
  <2>1. FunctionsOfTasks = {}
    BY <1>4 DEF FunctionsOfTasks
  <2>2. IsFiniteSet({}) /\ Cardinality({}) = 0
    BY FS_EmptySet
  <2>3. /\ Cardinality(Listed("Task")) = 0 /\ Cardinality(Listed("Slice")) = 0
        /\ Cardinality(Listed("Map")) = 0 /\ Cardinality(FunctionsOfTasks) = 0
    BY <1>4, <2>1, <2>2
  <2>4. Len(parallel.tasks) = 0 /\ Len(parallel.slices) = 0 /\ Len(parallel.maps) = 0
    BY <1>2
  <2> QED
    BY <2>1, <2>2, <2>3, <2>4 DEF Counted
<1>6. Judged
  BY <1>2, <1>4 DEF Judged, Sums, Collections, TaskInstrumented, Instrumented, InstrumentWritten,
                    HasEnd, EndWritten, HasEndWritten, ParallelAcceptedIffDocumented
<1> QED
  BY <1>1, <1>3, <1>5, <1>6

(* Every function and collection of an accepted parallel has a number of    *)
(* its own, and none is left out.                                           *)
THEOREM EverythingNumbered ==
  ASSUME ListsAreFinite
  PROVE  ParallelSpec => []ParallelEverythingNumbered
<1> DEFINE Inv == TypeOK /\ Numbered /\ Counted /\ (stage = "accepted" => reported = {})
<1>1. ParallelInit => Inv
  BY Initially DEF ParallelInit
<1>2. Inv /\ [ParallelNext]_parallelVars => Inv'
  <2> SUFFICES ASSUME Inv, [ParallelNext]_parallelVars  PROVE Inv'
    OBVIOUS
  <2>1. (stage = "accepted" => reported = {})'
    BY DEF ParallelNext, parallelVars, ReadingParallel, ReadInvalidParallel, ReadOption, ReadParallelTask, ReadParallelTasks, ReadSlice, ReadMap,
           ReadNext, EmptyParallel, Finish, ParallelDone
  <2> QED
    BY <2>1, TypeStep, NumberStep, CountStep
<1>3. Inv => ParallelEverythingNumbered
  BY DEF Numbered, Counted, ParallelEverythingNumbered
<1> QED
  BY <1>1, <1>2, <1>3, PTL DEF ParallelSpec

(* A parallel is accepted if and only if its arguments are what the         *)
(* documentation asks for, but for the five points that are listed,         *)
(* whatever types are assignable to whatever others.                        *)
THEOREM AcceptedIffDocumented ==
  ASSUME ListsAreFinite
  PROVE  ParallelSpec => []ParallelAcceptedIffDocumented
<1>1. ParallelInit => TypeOK /\ Judged
  BY Initially
<1>2. TypeOK /\ Judged /\ [ParallelNext]_parallelVars => TypeOK' /\ Judged'
  BY TypeStep, JudgeStep
<1>3. Judged => ParallelAcceptedIffDocumented
  BY DEF Judged
<1> QED
  BY <1>1, <1>2, <1>3, PTL DEF ParallelSpec
=============================================================================
