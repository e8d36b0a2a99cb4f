------------------------- MODULE FlowCompilerProofs -------------------------
(***************************************************************************)
(* What holds of every call of cff.Flow: a cycle is reported if and only if *)
(* there is one, the functions of an accepted flow are sorted, the compiler *)
(* crashes on certain uses of Invoke only, and a flow is accepted if and    *)
(* only if its arguments are what the documentation asks for, but for the   *)
(* points that FlowCompiler lists.                                          *)
(***************************************************************************)
EXTENDS FlowCompiler, FiniteSetTheorems, SequenceTheorems, WellFoundedInduction, TLAPS

-----------------------------------------------------------------------------
(* What the compiler itself asks of the arguments, in no order but that of  *)
(* the options of one task.                                                 *)

ValidOption(a, o) ==
    /\ o.kind # "NoOption"
    /\ o.kind = "FallbackWith" => /\ HasError(a.fn) /\ Len(o.fits) = Len(Outputs(a.fn))
                                  /\ \A i \in DOMAIN o.fits : o.fits[i] # "other"
    /\ o.kind = "Predicate" => IsPredicate(o.fn)
ValidTask(a) ==
    /\ Compiles(a.fn) /\ IsInjective(Outputs(a.fn))
    /\ \A k \in DOMAIN a.opts : ValidOption(a, a.opts[k])
    /\ WantsInvoke(a) <=> Outputs(a.fn) = <<>>
ValidArgument(a) ==
    /\ a.kind \notin {"NoCall", "Foreign", "ParallelOption", "ContinueOnError"}
    /\ a.kind = "Params"  => IsInjective(a.types)
    /\ a.kind = "Results" => "NoPointer" \notin Range(a.types)
    /\ a.kind = "Task"    => ValidTask(a)

Acceptable ==
    /\ args # <<>> /\ \A i \in DOMAIN args : ValidArgument(args[i])
    /\ \A i, k \in Written("Task") : i # k => Gives(args[i]) \intersect Gives(args[k]) = {}
    /\ Given \intersect Supplied = {}
    /\ Given \union Supplied = Needed
    /\ ~Circular
    /\ Written("WithEmitter") = {} =>
          /\ Written("InstrumentFlow") = {}
          /\ \A i \in Written("Task") : \A k \in DOMAIN args[i].opts : args[i].opts[k].kind # "Instrument"

-----------------------------------------------------------------------------
(* Finite sets and the relations on them                                   *)

(* Among sets of elements of a finite set there is one that contains no     *)
(* other.                                                                   *)
LEMMA SmallestSet ==
  ASSUME NEW F, IsFiniteSet(F), NEW T, T \subseteq SUBSET F, T # {}
  PROVE  \E A \in T : \A B \in T : B \subseteq A => B = A
<1>1. IsWellFoundedOn(StrictSubsetOrdering(F), FiniteSubsetsOf(F)) /\ T \subseteq FiniteSubsetsOf(F)
  BY FS_StrictSubsetOrderingWellFounded, FS_FiniteSubsetsOfFinite
<1>2. PICK A \in T : \A B \in T : <<B, A>> \notin StrictSubsetOrdering(F)
  BY <1>1, WFMin
<1>3. ASSUME NEW B \in T, B \subseteq A  PROVE B = A
  BY <1>2, <1>3 DEF StrictSubsetOrdering
<1> QED
  BY <1>3

LEMMA Largest ==
  ASSUME NEW n \in Nat, NEW S, S \subseteq 1..n, S # {}
  PROVE  Max(S) \in S /\ \A i \in S : i <= Max(S)
<1> DEFINE Above(i) == {j \in S : j > i}
<1>1. PICK i \in S : \A k \in S : Above(k) \subseteq Above(i) => Above(k) = Above(i)
  <2> DEFINE F == 1..n
             T == {Above(i) : i \in S}
  <2>1. IsFiniteSet(F)
    BY FS_Interval
  <2>2. T \subseteq SUBSET F /\ T # {}
    OBVIOUS
  <2>3. \E A \in T : \A B \in T : B \subseteq A => B = A
    <3> HIDE DEF T, F
    <3> QED
      BY <2>1, <2>2, SmallestSet
  <2>4. PICK i \in S : \A B \in T : B \subseteq Above(i) => B = Above(i)
    BY <2>3
  <2>5. ASSUME NEW k \in S  PROVE Above(k) \in T
    OBVIOUS
  <2> HIDE DEF T, Above
  <2> QED
    BY <2>4, <2>5
<1>2. ASSUME NEW k \in S  PROVE k <= i
  <2>1. SUFFICES ASSUME k > i  PROVE FALSE
    OBVIOUS
  <2>2. \A j \in S : j > k => j > i
    BY <2>1
  <2>3. k \in Above(i)
    BY <2>1
  <2>4. k \notin Above(k)
    <3>1. k \in 1..n
      OBVIOUS
    <3>2. ~(k > k)
      BY <3>1
    <3> QED
      BY <3>2
  <2>5. Above(k) \subseteq Above(i)
    BY <2>2
  <2> QED
    BY <1>1, <2>3, <2>4, <2>5
<1>3. \E x \in S : \A y \in S : x >= y
  BY <1>2
<1>4. Max(S) \in S /\ \A y \in S : Max(S) >= y
  BY <1>3 DEF Max
<1> QED
  BY <1>4

(* If every element leads to another, some elements are led to by one       *)
(* another.                                                                 *)
AllLead(R, U)  == \A i \in U : \E k \in U : k \in R[i]
AllAreLed(R, U) == \A k \in U : \E i \in U : k \in R[i]

LEMMA LedTo ==
  ASSUME NEW F, IsFiniteSet(F), NEW R, NEW U, U \subseteq F, U # {}, AllLead(R, U)
  PROVE  \E S \in SUBSET U : S # {} /\ AllAreLed(R, S)
<1> USE DEF AllLead, AllAreLed
<1> DEFINE T == {A \in SUBSET U : A # {} /\ \A i \in A : \E k \in A : k \in R[i]}
<1>1. T \subseteq SUBSET F /\ T # {}
  OBVIOUS
<1>2. PICK A \in T : \A B \in T : B \subseteq A => B = A
  <2> HIDE DEF T
  <2> QED
    BY <1>1, SmallestSet
<1>3. ASSUME NEW k \in A, \A i \in A : k \notin R[i]  PROVE FALSE
  <2>1. A \ {k} \subseteq A /\ A \ {k} # A
    OBVIOUS
  <2>2. A # {} /\ \A i \in A : \E j \in A : j \in R[i] /\ j # k
    BY <1>2, <1>3
  <2>3. A \ {k} \in T
    <3>1. A \ {k} \in SUBSET U
      BY <1>2
    <3>2. \A i \in A \ {k} : \E j \in A \ {k} : j \in R[i]
      BY <2>2
    <3>3. PICK j \in A : j # k
      BY <2>2
    <3> QED
      BY <3>1, <3>2, <3>3
  <2> QED
    BY <1>2, <2>1, <2>3
<1> QED
  BY <1>3

-----------------------------------------------------------------------------
(* Lists                                                                   *)

LEMMA Appended ==
  ASSUME NEW S, NEW s \in Seq(S), NEW e \in S
  PROVE  /\ Append(s, e) \in Seq(S) /\ Len(Append(s, e)) = Len(s) + 1
         /\ Len(s) \in Nat /\ DOMAIN s = 1..Len(s)
         /\ DOMAIN Append(s, e) = 1..(Len(s) + 1)
         /\ DOMAIN Append(s, e) = DOMAIN s \union {Len(s) + 1}
         /\ Len(s) + 1 \notin DOMAIN s
         /\ \A i \in DOMAIN s : Append(s, e)[i] = s[i]
         /\ Append(s, e)[Len(s) + 1] = e
         /\ Last(Append(s, e)) = e /\ Append(s, e) # <<>>
         /\ Range(Append(s, e)) = Range(s) \union {e}
<1>1. /\ Append(s, e) \in Seq(S) /\ Len(Append(s, e)) = Len(s) + 1
      /\ \A i \in 1..Len(s) : Append(s, e)[i] = s[i]
      /\ Append(s, e)[Len(s) + 1] = e /\ Append(s, e) # <<>>
  BY AppendProperties
<1>2. /\ Len(s) \in Nat /\ DOMAIN s = 1..Len(s) /\ DOMAIN Append(s, e) = 1..(Len(s) + 1)
      /\ DOMAIN Append(s, e) = DOMAIN s \union {Len(s) + 1}
  BY <1>1, LenProperties
<1>3. Range(Append(s, e)) = Range(s) \union {e}
  BY <1>1, <1>2 DEF Range
<1> QED
  BY <1>1, <1>2, <1>3 DEF Last

LEMMA Shortened ==
  ASSUME NEW S, NEW s \in Seq(S), s # <<>>
  PROVE  /\ Len(s) \in Nat \ {0} /\ DOMAIN s = 1..Len(s)
         /\ Last(s) \in S /\ Last(s) = s[Len(s)] /\ Last(s) \in Range(s)
         /\ Front(s) \in Seq(S) /\ Len(Front(s)) = Len(s) - 1 /\ DOMAIN Front(s) = 1..(Len(s) - 1)
         /\ \A i \in 1..(Len(s) - 1) : Front(s)[i] = s[i]
         /\ Range(s) = Range(Front(s)) \union {Last(s)}
<1>1. Len(s) \in Nat \ {0} /\ DOMAIN s = 1..Len(s) /\ s \in [1..Len(s) -> S]
  BY LenProperties, EmptySeq
<1>2. /\ Front(s) \in Seq(S) /\ Len(Front(s)) = Len(s) - 1
      /\ \A i \in 1..(Len(s) - 1) : Front(s)[i] = s[i]
  <2>1. \A i \in 1..(Len(s) - 1) : s[i] \in S
    BY <1>1
  <2>2. Len(s) - 1 \in Int /\ 1 \in Int
    BY <1>1
  <2>3. /\ SubSeq(s, 1, Len(s) - 1) \in Seq(S)
        /\ Len(SubSeq(s, 1, Len(s) - 1)) = IF 1 <= Len(s) - 1 THEN (Len(s) - 1) - 1 + 1 ELSE 0
        /\ \A i \in 1..((Len(s) - 1) - 1 + 1) : SubSeq(s, 1, Len(s) - 1)[i] = s[1 + i - 1]
    BY <2>1, <2>2, SubSeqProperties
  <2>4. /\ (Len(s) - 1) - 1 + 1 = Len(s) - 1
        /\ \A i \in 1..(Len(s) - 1) : 1 + i - 1 = i
        /\ ~(1 <= Len(s) - 1) => Len(s) - 1 = 0
    BY <1>1
  <2> QED
    BY <2>3, <2>4 DEF Front
<1>3. DOMAIN Front(s) = 1..(Len(s) - 1)
  BY <1>2, LenProperties
<1>4. 1..Len(s) = (1..(Len(s) - 1)) \union {Len(s)}
  BY <1>1
<1>5. Range(s) = Range(Front(s)) \union {s[Len(s)]}
  BY <1>1, <1>2, <1>3, <1>4 DEF Range
<1> QED
  BY <1>1, <1>2, <1>3, <1>5 DEF Last, Range

LEMMA Followed ==
  ASSUME NEW S, NEW s \in Seq(S), NEW t \in Seq(S)
  PROVE  s \o t \in Seq(S) /\ Len(s \o t) = Len(s) + Len(t) /\ Range(s \o t) = Range(s) \union Range(t)
<1>1. /\ s \o t \in Seq(S) /\ Len(s \o t) = Len(s) + Len(t)
      /\ Len(s) \in Nat /\ Len(t) \in Nat
      /\ DOMAIN s = 1..Len(s) /\ DOMAIN t = 1..Len(t) /\ DOMAIN (s \o t) = 1..(Len(s) + Len(t))
  BY ConcatProperties, LenProperties
<1>2. \A i \in 1..(Len(s) + Len(t)) :
        (s \o t)[i] = IF i <= Len(s) THEN s[i] ELSE t[i - Len(s)]
  BY ConcatProperties
<1>3. \A i \in 1..(Len(s) + Len(t)) : IF i <= Len(s) THEN i \in 1..Len(s) ELSE i - Len(s) \in 1..Len(t)
  BY <1>1
<1>4. \A i \in 1..Len(t) : Len(s) + i \in 1..(Len(s) + Len(t)) /\ (s \o t)[Len(s) + i] = t[i]
  BY <1>1, <1>2
<1>5. \A i \in 1..Len(s) : i \in 1..(Len(s) + Len(t)) /\ (s \o t)[i] = s[i]
  BY <1>1, <1>2
<1>6. Range(s \o t) \subseteq Range(s) \union Range(t)
  BY <1>1, <1>2, <1>3 DEF Range
<1>7. Range(s) \union Range(t) \subseteq Range(s \o t)
  BY <1>1, <1>4, <1>5 DEF Range
<1> QED
  BY <1>1, <1>6, <1>7

-----------------------------------------------------------------------------
(* Types                                                                   *)

(* The types in a function's lists; the sentinel of its Invoke is apart.    *)
Types == UserTypes \union {Predicted(n) : n \in Nat}

CompiledTasks == [fallback : BOOLEAN, predicate : Nat, instrumented : BOOLEAN]
Flows == [inputs : SUBSET UserTypes, outputs : SUBSET UserTypes, emitters : Nat,
          instrumented : BOOLEAN, concurrency : Nat, invokeTypeCnt : Nat,
          predicateTypeCnt : Nat, tasks : Seq(CompiledTasks)]
TasksRead == [next : Nat, fallback : BOOLEAN, instrumented : BOOLEAN,
              invoke : Nat, predicate : Nat, predicateInputs : Seq(UserTypes)]
Functions == [of : Nat, isPredicate : BOOLEAN, invoke : Nat, predicate : Nat,
              deps : Seq(Types), outs : Seq(Types)]

TypeOK ==
    /\ args \in Seq(Arguments)
    /\ phase \in {"reading", "options", "visiting", "searching", "sorting",
                  "accepted", "refused", "crashed"}
    /\ flow \in Flows /\ task \in TasksRead /\ funcs \in Seq(Functions)
    /\ phase = "options" => args # <<>> /\ ThisTask.kind = "Task"

(* What setting one field does.                                             *)
AllBut(f, g, field) ==
    /\ g \in Flows
    /\ field # "inputs" => g.inputs = f.inputs
    /\ field # "outputs" => g.outputs = f.outputs
    /\ field # "emitters" => g.emitters = f.emitters
    /\ field # "instrumented" => g.instrumented = f.instrumented
    /\ field # "invokeTypeCnt" => g.invokeTypeCnt = f.invokeTypeCnt
    /\ field # "predicateTypeCnt" => g.predicateTypeCnt = f.predicateTypeCnt
    /\ field # "tasks" => g.tasks = f.tasks

LEMMA FieldSet ==
  ASSUME NEW f \in Flows
  PROVE  /\ \A v \in SUBSET UserTypes :
               LET g == [f EXCEPT !.inputs = v] IN AllBut(f, g, "inputs") /\ g.inputs = v
         /\ \A v \in SUBSET UserTypes :
               LET g == [f EXCEPT !.outputs = v] IN AllBut(f, g, "outputs") /\ g.outputs = v
         /\ \A v \in Nat :
               LET g == [f EXCEPT !.emitters = v] IN AllBut(f, g, "emitters") /\ g.emitters = v
         /\ \A v \in BOOLEAN :
               LET g == [f EXCEPT !.instrumented = v] IN AllBut(f, g, "instrumented") /\ g.instrumented = v
         /\ \A v \in Nat :
               LET g == [f EXCEPT !.concurrency = v] IN AllBut(f, g, "concurrency")
         /\ \A v \in Nat :
               LET g == [f EXCEPT !.invokeTypeCnt = v] IN AllBut(f, g, "invokeTypeCnt") /\ g.invokeTypeCnt = v
         /\ \A v \in Nat :
               LET g == [f EXCEPT !.predicateTypeCnt = v] IN AllBut(f, g, "predicateTypeCnt") /\ g.predicateTypeCnt = v
         /\ \A v \in Seq(CompiledTasks) :
               LET g == [f EXCEPT !.tasks = v] IN AllBut(f, g, "tasks") /\ g.tasks = v
<1> DEFINE T == Seq(CompiledTasks)
           U == SUBSET UserTypes
<1>1. Flows = [inputs : U, outputs : U, emitters : Nat,
               instrumented : BOOLEAN, concurrency : Nat, invokeTypeCnt : Nat,
               predicateTypeCnt : Nat, tasks : T]
  BY DEF Flows
<1> HIDE DEF T, U
<1> USE DEF AllBut
<1>2. \A v \in U : LET g == [f EXCEPT !.inputs = v] IN AllBut(f, g, "inputs") /\ g.inputs = v
  BY <1>1
<1>3. \A v \in U : LET g == [f EXCEPT !.outputs = v] IN AllBut(f, g, "outputs") /\ g.outputs = v
  BY <1>1
<1>4. \A v \in Nat : LET g == [f EXCEPT !.emitters = v] IN AllBut(f, g, "emitters") /\ g.emitters = v
  BY <1>1
<1>5. \A v \in BOOLEAN :
         LET g == [f EXCEPT !.instrumented = v] IN AllBut(f, g, "instrumented") /\ g.instrumented = v
  BY <1>1
<1>6. \A v \in Nat : LET g == [f EXCEPT !.concurrency = v] IN AllBut(f, g, "concurrency")
  BY <1>1
<1>7. \A v \in Nat :
         LET g == [f EXCEPT !.invokeTypeCnt = v] IN AllBut(f, g, "invokeTypeCnt") /\ g.invokeTypeCnt = v
  BY <1>1
<1>8. \A v \in Nat : LET g == [f EXCEPT !.predicateTypeCnt = v] IN
                        AllBut(f, g, "predicateTypeCnt") /\ g.predicateTypeCnt = v
  BY <1>1
<1>9. \A v \in T : LET g == [f EXCEPT !.tasks = v] IN AllBut(f, g, "tasks") /\ g.tasks = v
  BY <1>1
<1> HIDE DEF AllBut
<1> QED
  BY <1>2, <1>3, <1>4, <1>5, <1>6, <1>7, <1>8, <1>9 DEF T, U

(* Reading an argument extends what the user wrote.                         *)
LEMMA ReadFacts ==
  ASSUME TypeOK, NEW a \in Arguments, Reading(a)
  PROVE  /\ phase = "reading" /\ (phase' = "reading" \/ phase' = "options")
         /\ (phase' = "options" <=> a.kind = "Task" /\ Compiles(a.fn))
         /\ args' \in Seq(Arguments) /\ Len(args) + 1 \notin DOMAIN args /\ args' # <<>>
         /\ DOMAIN args' = DOMAIN args \union {Len(args) + 1} /\ Len(args') = Len(args) + 1
         /\ \A i \in DOMAIN args : args'[i] = args[i]
         /\ args'[Len(args) + 1] = a /\ Last(args') = a
         /\ UNCHANGED <<funcs, providers, walks>>
<1>1. Read(a)
  BY DEF Reading, ReadInvalid, ReadParams, ReadResults, ReadFlowOption, ReadTask
<1>2. /\ (phase' = "reading" \/ phase' = "options")
      /\ (phase' = "options" <=> a.kind = "Task" /\ Compiles(a.fn))
  <2>1. phase = "reading"
    BY <1>1 DEF Read
  <2>2. CASE ReadTask(a)
    BY <2>1, <2>2 DEF ReadTask
  <2>3. CASE ReadInvalid(a) \/ ReadParams(a) \/ ReadResults(a) \/ ReadFlowOption(a)
    BY <2>1, <2>3 DEF ReadInvalid, ReadParams, ReadResults, ReadFlowOption
  <2> QED
    BY <2>2, <2>3 DEF Reading
<1>3. phase = "reading" /\ args' = Append(args, a) /\ UNCHANGED <<funcs, providers, walks>>
  BY <1>1 DEF Read
<1>4. args \in Seq(Arguments)
  BY DEF TypeOK
<1> QED
  BY <1>2, <1>3, <1>4, Appended

(* What an argument adds to the flow; tasks only begin.                     *)
LEMMA ReadFlow ==
  ASSUME TypeOK, NEW a \in Arguments, Reading(a)
  PROVE  /\ flow' \in Flows /\ task' \in TasksRead
         /\ flow'.inputs = flow.inputs \union (IF a.kind = "Params" THEN Range(a.types) ELSE {})
         /\ flow'.outputs = flow.outputs
                \union (IF a.kind = "Results" THEN CompiledOutputs(a.types) ELSE {})
         /\ received' = received \union (IF a.kind = "Results" THEN CompiledOutputs(a.types) ELSE {})
         /\ (flow'.emitters = 0 <=> flow.emitters = 0 /\ a.kind # "WithEmitter")
         /\ (flow'.instrumented <=> flow.instrumented \/ a.kind = "InstrumentFlow")
         /\ flow'.invokeTypeCnt = flow.invokeTypeCnt /\ flow'.predicateTypeCnt = flow.predicateTypeCnt
         /\ flow'.tasks = flow.tasks
         /\ phase' = "options" => task' = NewTask
<1>1. flow \in Flows /\ task \in TasksRead
  BY DEF TypeOK
<1>2. /\ flow.inputs \in SUBSET UserTypes /\ flow.outputs \in SUBSET UserTypes
      /\ flow.emitters \in Nat /\ flow.instrumented \in BOOLEAN
  BY <1>1 DEF Flows
<1>3. NewTask \in TasksRead
  BY DEF NewTask, TasksRead
<1>4. Len(args') \in Nat
  BY ReadFacts, LenProperties
<1>5. phase' = "options" <=> a.kind = "Task" /\ Compiles(a.fn)
  BY ReadFacts
<1>6. CASE ReadInvalid(a)
  BY <1>1, <1>2, <1>5, <1>6 DEF ReadInvalid
<1>7. CASE ReadParams(a)
  <2>1. /\ a.kind = "Params" /\ received' = received /\ task' = task
        /\ flow' = [flow EXCEPT !.inputs = flow.inputs \union Range(a.types)]
    BY <1>7 DEF ReadParams
  <2>2. flow.inputs \union Range(a.types) \in SUBSET UserTypes
    BY <1>2, <2>1, ArgumentsTyped
  <2>3. AllBut(flow, flow', "inputs") /\ flow'.inputs = flow.inputs \union Range(a.types)
    BY <1>1, <2>1, <2>2, FieldSet
  <2> QED
    BY <1>1, <1>2, <1>5, <2>1, <2>3 DEF AllBut
<1>8. CASE ReadResults(a)
  <2>1. /\ a.kind = "Results" /\ received' = received \union CompiledOutputs(a.types) /\ task' = task
        /\ flow' = [flow EXCEPT !.outputs = flow.outputs \union CompiledOutputs(a.types)]
    BY <1>8 DEF ReadResults
  <2>2. flow.outputs \union CompiledOutputs(a.types) \in SUBSET UserTypes
    BY <1>2, <2>1, ArgumentsTyped DEF CompiledOutputs
  <2>3. AllBut(flow, flow', "outputs") /\ flow'.outputs = flow.outputs \union CompiledOutputs(a.types)
    BY <1>1, <2>1, <2>2, FieldSet
  <2> QED
    BY <1>1, <1>2, <1>5, <2>1, <2>3 DEF AllBut
<1>9. CASE ReadFlowOption(a)
  <2>1. received' = received /\ task' = task /\ a.kind \in {"InstrumentFlow", "WithEmitter", "Concurrency"}
    BY <1>9 DEF ReadFlowOption
  <2>2. CASE a.kind = "InstrumentFlow"
    <3>1. flow' = [flow EXCEPT !.instrumented = TRUE]
      BY <1>9, <2>2 DEF ReadFlowOption
    <3>2. LET g == [flow EXCEPT !.instrumented = TRUE]
          IN  AllBut(flow, g, "instrumented") /\ g.instrumented = TRUE
      <4>1. TRUE \in BOOLEAN
        OBVIOUS
      <4> QED
        BY <1>1, <4>1, FieldSet, Zenon
    <3> QED
      BY <1>1, <1>2, <1>5, <2>1, <2>2, <3>1, <3>2 DEF AllBut
  <2>3. CASE a.kind = "WithEmitter"
    <3>1. flow' = [flow EXCEPT !.emitters = flow.emitters + 1] /\ flow.emitters + 1 \in Nat
      BY <1>2, <1>9, <2>3 DEF ReadFlowOption
    <3>2. AllBut(flow, flow', "emitters") /\ flow'.emitters = flow.emitters + 1
      BY <1>1, <3>1, FieldSet
    <3> QED
      BY <1>1, <1>2, <1>5, <2>1, <2>3, <3>2 DEF AllBut
  <2>4. CASE a.kind = "Concurrency"
    <3>1. flow' = [flow EXCEPT !.concurrency = Len(args')]
      BY <1>9, <2>4 DEF ReadFlowOption
    <3>2. AllBut(flow, flow', "concurrency")
      BY <1>1, <1>4, <3>1, FieldSet
    <3> QED
      BY <1>1, <1>2, <1>5, <2>1, <2>4, <3>2 DEF AllBut
  <2> QED
    BY <2>1, <2>2, <2>3, <2>4
<1>10. CASE ReadTask(a)
  <2>1. /\ a.kind = "Task" /\ flow' = flow /\ received' = received
        /\ IF Compiles(a.fn) THEN task' = NewTask ELSE task' = task
    BY <1>10 DEF ReadTask
  <2> QED
    BY <1>1, <1>2, <1>3, <1>5, <2>1
<1> QED
  BY <1>6, <1>7, <1>8, <1>9, <1>10 DEF Reading

(* The task under compilation is a task, and its options are a list.        *)
LEMMA ThisTaskFacts ==
  ASSUME TypeOK, phase = "options"
  PROVE  /\ ThisTask \in Arguments /\ ThisTask.kind = "Task" /\ ThisTask = args[Len(args)]
         /\ Len(args) \in DOMAIN args /\ Len(args) \in Nat \ {0} /\ DOMAIN args = 1..Len(args)
         /\ Inputs(ThisTask.fn) \in Seq(UserTypes) /\ Outputs(ThisTask.fn) \in Seq(UserTypes)
         /\ Len(ThisTask.opts) \in Nat /\ DOMAIN ThisTask.opts = 1..Len(ThisTask.opts)
         /\ \A k \in DOMAIN ThisTask.opts :
               /\ ThisTask.opts[k].kind \in {"NoOption", "FallbackWith", "Predicate", "Instrument", "Invoke"}
               /\ ThisTask.opts[k].kind = "Predicate" => Inputs(ThisTask.opts[k].fn) \in Seq(UserTypes)
               /\ ThisTask.opts[k].kind = "Invoke" => ThisTask.opts[k].value \in {"true", "false", "variable"}
<1>1. args \in Seq(Arguments) /\ args # <<>> /\ ThisTask.kind = "Task"
  BY DEF TypeOK
<1>2. /\ ThisTask \in Arguments /\ ThisTask = args[Len(args)] /\ Len(args) \in Nat \ {0}
      /\ DOMAIN args = 1..Len(args)
  BY <1>1, Shortened DEF ThisTask
<1> QED
  BY <1>1, <1>2, ArgumentsTyped

(* What an option does to the task and to the flow's counters.              *)
Interpreted ==
    /\ flow' \in Flows /\ task' \in TasksRead
    /\ flow'.inputs = flow.inputs /\ flow'.outputs = flow.outputs
    /\ flow'.emitters = flow.emitters /\ flow'.instrumented = flow.instrumented
    /\ flow'.tasks = flow.tasks
    /\ phase' \in {"options", "crashed"}
    /\ (phase' = "crashed" <=> NextOption.kind = "Invoke" /\ NextOption.value = "variable")
    /\ phase' = "options" =>
          /\ task'.next = task.next + 1
          /\ (task'.instrumented <=> task.instrumented \/ NextOption.kind = "Instrument")
    /\ NextOption.kind = "Predicate" /\ IsPredicate(NextOption.fn) =>
          /\ flow'.predicateTypeCnt = flow.predicateTypeCnt + 1
          /\ task'.predicate = flow.predicateTypeCnt + 1
          /\ task'.predicateInputs = Inputs(NextOption.fn)
    /\ ~(NextOption.kind = "Predicate" /\ IsPredicate(NextOption.fn)) =>
          /\ flow'.predicateTypeCnt = flow.predicateTypeCnt
          /\ task'.predicateInputs = task.predicateInputs
    /\ NextOption.kind = "Predicate" /\ ~IsPredicate(NextOption.fn) => task'.predicate = 0
    /\ NextOption.kind # "Predicate" => task'.predicate = task.predicate
    /\ NextOption.kind = "Invoke" /\ NextOption.value = "true" =>
          /\ flow'.invokeTypeCnt = flow.invokeTypeCnt + 1
          /\ task'.invoke = flow.invokeTypeCnt + 1
    /\ NextOption.kind = "Invoke" /\ NextOption.value = "false" => task'.invoke = 0
    /\ ~(NextOption.kind = "Invoke" /\ NextOption.value = "true") =>
          flow'.invokeTypeCnt = flow.invokeTypeCnt
    /\ NextOption.kind # "Invoke" => task'.invoke = task.invoke

(* What it reports.                                                         *)
OptionReported ==
    \E E \in SUBSET {"NoOption", "FallbackCount", "FallbackNoError", "FallbackType", "PredicateSignature"} :
        /\ errors' = errors \union E
        /\ (E = {} <=> ValidOption(ThisTask, NextOption))

LEMMA Reports ==
  ASSUME NEW E \in SUBSET {"NoOption", "FallbackCount", "FallbackNoError", "FallbackType", "PredicateSignature"},
         errors' = errors \union E, E = {} <=> ValidOption(ThisTask, NextOption)
  PROVE  OptionReported
BY DEF OptionReported

LEMMA InterpretFacts ==
  ASSUME TypeOK, Interpret
  PROVE  /\ phase = "options" /\ task.next \in DOMAIN ThisTask.opts
         /\ NextOption.kind \in {"NoOption", "FallbackWith", "Predicate", "Instrument", "Invoke"}
         /\ NextOption.kind = "Invoke" => NextOption.value \in {"true", "false", "variable"}
         /\ UNCHANGED <<args, funcs, providers, received, walks>>
         /\ Interpreted /\ OptionReported
<1>1. /\ phase = "options" /\ task.next \in DOMAIN ThisTask.opts
      /\ UNCHANGED <<args, funcs, providers, received, walks>>
  BY DEF Interpret, InterpretNoOption, InterpretFallbackWith, InterpretPredicate,
         InterpretInstrument, InterpretInvoke, Interprets
<1>2. flow \in Flows /\ task \in TasksRead
  BY DEF TypeOK
<1>3. /\ flow.invokeTypeCnt + 1 \in Nat /\ flow.predicateTypeCnt + 1 \in Nat
      /\ task.instrumented \in BOOLEAN /\ task.fallback \in BOOLEAN
      /\ task.next + 1 \in Nat
  <2>1. flow.invokeTypeCnt \in Nat /\ flow.predicateTypeCnt \in Nat
    BY <1>2 DEF Flows
  <2>2. task.instrumented \in BOOLEAN /\ task.fallback \in BOOLEAN /\ task.next \in Nat
    BY <1>2 DEF TasksRead
  <2> QED
    BY <2>1, <2>2
<1> DEFINE T == Seq(UserTypes)
<1>0. TasksRead = [next : Nat, fallback : BOOLEAN, instrumented : BOOLEAN,
                   invoke : Nat, predicate : Nat, predicateInputs : T]
  BY DEF TasksRead
<1> HIDE DEF T
<1>4. /\ NextOption.kind \in {"NoOption", "FallbackWith", "Predicate", "Instrument", "Invoke"}
      /\ NextOption.kind = "Invoke" => NextOption.value \in {"true", "false", "variable"}
      /\ NextOption.kind = "Predicate" => Inputs(NextOption.fn) \in Seq(UserTypes)
  BY <1>1, ThisTaskFacts DEF NextOption
<1>5. CASE InterpretNoOption
  <2>1. /\ task' = [task EXCEPT !.next = task.next + 1] /\ flow' = flow /\ phase' = phase
        /\ NextOption.kind = "NoOption" /\ errors' = errors \union {"NoOption"}
    BY <1>5 DEF InterpretNoOption, Interprets
  <2>2. /\ task' \in TasksRead /\ task'.next = task.next + 1 /\ task'.invoke = task.invoke
        /\ task'.predicate = task.predicate /\ task'.predicateInputs = task.predicateInputs
        /\ task'.instrumented = task.instrumented
    BY <1>2, <1>3, <2>1, <1>0
  <2>3. Interpreted
    BY <1>1, <1>2, <2>1, <2>2 DEF Interpreted
  <2>4. OptionReported
    <3>1. errors' = errors \union {"NoOption"} /\ ({"NoOption"} = {} <=> ValidOption(ThisTask, NextOption))
      BY <2>1 DEF ValidOption
    <3>2. {"NoOption"} \in SUBSET {"NoOption", "FallbackCount", "FallbackNoError", "FallbackType", "PredicateSignature"}
      OBVIOUS
    <3> QED
      BY <3>1, <3>2, Reports
  <2> QED
    BY <1>1, <1>4, <2>3, <2>4
<1>6. CASE InterpretFallbackWith
  <2> DEFINE fits    == NextOption.fits
             refusal == IF Len(fits) # Len(Outputs(ThisTask.fn)) THEN {"FallbackCount"}
                        ELSE ErrorsIf(~HasError(ThisTask.fn), "FallbackNoError")
             E == IF refusal # {} THEN refusal
                  ELSE ErrorsIf(\E i \in DOMAIN fits : fits[i] = "other", "FallbackType")
  <2>1. /\ flow' = flow /\ phase' = phase /\ NextOption.kind = "FallbackWith"
        /\ task' = [task EXCEPT !.next = task.next + 1, !.fallback = @ \/ refusal = {}]
        /\ errors' = errors \union E
    BY <1>6 DEF InterpretFallbackWith, Interprets
  <2>2. PICK b \in BOOLEAN : task' = [task EXCEPT !.next = task.next + 1, !.fallback = b]
    <3>1. (task.fallback \/ refusal = {}) \in BOOLEAN
      BY <1>3
    <3> QED
      BY <2>1, <3>1
  <2>3. /\ task' \in TasksRead /\ task'.next = task.next + 1 /\ task'.invoke = task.invoke
        /\ task'.predicate = task.predicate /\ task'.predicateInputs = task.predicateInputs
        /\ task'.instrumented = task.instrumented
    <3> HIDE DEF refusal
    <3> QED
      BY <1>2, <1>3, <2>2, <1>0
  <2>4. Interpreted
    <3> HIDE DEF refusal, E
    <3> QED
      BY <1>1, <1>2, <2>1, <2>3 DEF Interpreted
  <2>5. E \in SUBSET {"FallbackCount", "FallbackNoError", "FallbackType"}
    BY DEF ErrorsIf
  <2>6. E = {} <=> ValidOption(ThisTask, NextOption)
    BY <2>1 DEF ErrorsIf, ValidOption
  <2>7. OptionReported
    <3> HIDE DEF E
    <3> QED
      BY <2>1, <2>5, <2>6 DEF OptionReported
  <2> QED
    BY <1>1, <1>4, <2>4, <2>7
<1>7. CASE InterpretPredicate
  <2>1. phase' = phase /\ NextOption.kind = "Predicate"
    BY <1>7 DEF InterpretPredicate, Interprets
  <2>2. CASE IsPredicate(NextOption.fn)
    <3>1. /\ flow' = [flow EXCEPT !.predicateTypeCnt = flow.predicateTypeCnt + 1]
          /\ task' = [task EXCEPT !.next = task.next + 1, !.predicate = flow.predicateTypeCnt + 1,
                                  !.predicateInputs = Inputs(NextOption.fn)]
          /\ errors' = errors
      BY <1>7, <2>2 DEF InterpretPredicate
    <3>2. Inputs(NextOption.fn) \in T
      BY <1>4, <2>1 DEF T
    <3>3. /\ task' \in TasksRead /\ task'.next = task.next + 1 /\ task'.invoke = task.invoke
          /\ task'.predicate = flow.predicateTypeCnt + 1 /\ task'.predicateInputs = Inputs(NextOption.fn)
          /\ task'.instrumented = task.instrumented
      BY <1>2, <1>3, <3>1, <3>2, <1>0
    <3>4. AllBut(flow, flow', "predicateTypeCnt") /\ flow'.predicateTypeCnt = flow.predicateTypeCnt + 1
      BY <1>2, <1>3, <3>1, FieldSet
    <3>5. Interpreted
      BY <1>1, <1>2, <2>1, <2>2, <3>3, <3>4 DEF AllBut, Interpreted
    <3>6. OptionReported
      <4>1. errors' = errors \union {} /\ ({} = {} <=> ValidOption(ThisTask, NextOption))
        BY <2>1, <2>2, <3>1 DEF ValidOption
      <4>2. {} \in SUBSET {"NoOption", "FallbackCount", "FallbackNoError", "FallbackType", "PredicateSignature"}
        OBVIOUS
      <4> QED
        BY <4>1, <4>2, Reports
    <3> QED
      BY <1>1, <1>4, <3>5, <3>6
  <2>3. CASE ~IsPredicate(NextOption.fn)
    <3>1. /\ flow' = flow /\ task' = [task EXCEPT !.next = task.next + 1, !.predicate = 0]
          /\ errors' = errors \union {"PredicateSignature"}
      BY <1>7, <2>3 DEF InterpretPredicate
    <3>2. /\ task' \in TasksRead /\ task'.next = task.next + 1 /\ task'.invoke = task.invoke
          /\ task'.predicate = 0 /\ task'.predicateInputs = task.predicateInputs
          /\ task'.instrumented = task.instrumented
      BY <1>2, <1>3, <3>1, <1>0
    <3>3. Interpreted
      BY <1>1, <1>2, <2>1, <2>3, <3>1, <3>2 DEF Interpreted
    <3>4. OptionReported
      <4>1. errors' = errors \union {"PredicateSignature"} /\ ({"PredicateSignature"} = {} <=> ValidOption(ThisTask, NextOption))
        BY <2>1, <2>3, <3>1 DEF ValidOption
      <4>2. {"PredicateSignature"} \in SUBSET {"NoOption", "FallbackCount", "FallbackNoError", "FallbackType", "PredicateSignature"}
        OBVIOUS
      <4> QED
        BY <4>1, <4>2, Reports
    <3> QED
      BY <1>1, <1>4, <3>3, <3>4
  <2> QED
    BY <2>2, <2>3
<1>8. CASE InterpretInstrument
  <2>1. /\ task' = [task EXCEPT !.next = task.next + 1, !.instrumented = TRUE]
        /\ flow' = flow /\ phase' = phase /\ NextOption.kind = "Instrument" /\ errors' = errors
    BY <1>8 DEF InterpretInstrument, Interprets
  <2>2. /\ task' \in TasksRead /\ task'.next = task.next + 1 /\ task'.invoke = task.invoke
        /\ task'.predicate = task.predicate /\ task'.predicateInputs = task.predicateInputs
        /\ task'.instrumented = TRUE
    <3>1. TRUE \in BOOLEAN
      OBVIOUS
    <3> QED
      BY <1>2, <1>3, <2>1, <1>0
  <2>3. Interpreted
    BY <1>1, <1>2, <2>1, <2>2 DEF Interpreted
  <2>4. OptionReported
    <3>1. errors' = errors \union {} /\ ({} = {} <=> ValidOption(ThisTask, NextOption))
      BY <2>1 DEF ValidOption
    <3>2. {} \in SUBSET {"NoOption", "FallbackCount", "FallbackNoError", "FallbackType", "PredicateSignature"}
      OBVIOUS
    <3> QED
      BY <3>1, <3>2, Reports
  <2> QED
    BY <1>1, <1>4, <2>3, <2>4
<1>9. CASE InterpretInvoke
  <2>1. NextOption.kind = "Invoke" /\ errors' = errors
    BY <1>9 DEF InterpretInvoke, Interprets
  <2>2. OptionReported
    <3>1. errors' = errors \union {} /\ ({} = {} <=> ValidOption(ThisTask, NextOption))
      BY <2>1 DEF ValidOption
    <3>2. {} \in SUBSET {"NoOption", "FallbackCount", "FallbackNoError", "FallbackType", "PredicateSignature"}
      OBVIOUS
    <3> QED
      BY <3>1, <3>2, Reports
  <2>3. CASE NextOption.value = "true"
    <3>1. /\ flow' = [flow EXCEPT !.invokeTypeCnt = flow.invokeTypeCnt + 1] /\ phase' = phase
          /\ task' = [task EXCEPT !.next = task.next + 1, !.invoke = flow.invokeTypeCnt + 1]
      BY <1>9, <2>3 DEF InterpretInvoke
    <3>2. /\ task' \in TasksRead /\ task'.next = task.next + 1 /\ task'.invoke = flow.invokeTypeCnt + 1
          /\ task'.predicate = task.predicate /\ task'.predicateInputs = task.predicateInputs
          /\ task'.instrumented = task.instrumented
      BY <1>2, <1>3, <3>1, <1>0
    <3>3. AllBut(flow, flow', "invokeTypeCnt") /\ flow'.invokeTypeCnt = flow.invokeTypeCnt + 1
      BY <1>2, <1>3, <3>1, FieldSet
    <3>4. Interpreted
      BY <1>1, <1>2, <2>1, <2>3, <3>1, <3>2, <3>3 DEF AllBut, Interpreted
    <3> QED
      BY <1>1, <1>4, <2>2, <3>4
  <2>4. CASE NextOption.value = "false"
    <3>1. /\ flow' = flow /\ phase' = phase
          /\ task' = [task EXCEPT !.next = task.next + 1, !.invoke = 0]
      BY <1>9, <2>4 DEF InterpretInvoke
    <3>2. /\ task' \in TasksRead /\ task'.next = task.next + 1 /\ task'.invoke = 0
          /\ task'.predicate = task.predicate /\ task'.predicateInputs = task.predicateInputs
          /\ task'.instrumented = task.instrumented
      BY <1>2, <1>3, <3>1, <1>0
    <3>3. Interpreted
      BY <1>1, <1>2, <2>1, <2>4, <3>1, <3>2 DEF Interpreted
    <3> QED
      BY <1>1, <1>4, <2>2, <3>3
  <2>5. CASE NextOption.value = "variable"
    <3>1. flow' = flow /\ task' = task /\ phase' = "crashed"
      BY <1>9, <2>5 DEF InterpretInvoke
    <3>2. Interpreted
      BY <1>1, <1>2, <2>1, <2>5, <3>1 DEF Interpreted
    <3> QED
      BY <1>1, <1>4, <2>2, <3>2
  <2> QED
    BY <1>9, <2>3, <2>4, <2>5 DEF InterpretInvoke
<1> QED
  BY <1>1, <1>4, <1>5, <1>6, <1>7, <1>8, <1>9 DEF Interpret

(* A finished task adds one function or two.                                *)
Added == funcs' = funcs \o IF task.predicate = 0 THEN <<TaskFunction>>
                           ELSE <<TaskFunction, PredicateFunction>>

LEMMA FunctionsAdded ==
  ASSUME TypeOK, phase = "options", Added
  PROVE  /\ TaskFunction \in Functions
         /\ task.predicate # 0 => PredicateFunction \in Functions
         /\ funcs' \in Seq(Functions) /\ Len(funcs) \in Nat /\ DOMAIN funcs = 1..Len(funcs)
         /\ \A i \in DOMAIN funcs : i \in DOMAIN funcs' /\ funcs'[i] = funcs[i]
         /\ Len(funcs) + 1 \in DOMAIN funcs' /\ funcs'[Len(funcs) + 1] = TaskFunction
         /\ task.predicate = 0 => DOMAIN funcs' = DOMAIN funcs \union {Len(funcs) + 1}
         /\ task.predicate # 0 =>
               /\ DOMAIN funcs' = DOMAIN funcs \union {Len(funcs) + 1, Len(funcs) + 2}
               /\ funcs'[Len(funcs) + 2] = PredicateFunction
<1>1. /\ task \in TasksRead /\ funcs \in Seq(Functions)
      /\ Inputs(ThisTask.fn) \in Seq(UserTypes) /\ Outputs(ThisTask.fn) \in Seq(UserTypes)
      /\ Len(args) \in Nat
  BY ThisTaskFacts DEF TypeOK
<1>2. /\ task.predicate \in Nat /\ task.invoke \in Nat /\ task.predicateInputs \in Seq(UserTypes)
  BY <1>1 DEF TasksRead
<1>3. /\ <<>> \in Seq(Types) /\ <<Predicted(task.predicate)>> \in Seq(Types)
      /\ \A q \in Seq(UserTypes) : q \in Seq(Types)
  <2>1. Predicted(task.predicate) \in Types /\ UserTypes \subseteq Types
    BY <1>2 DEF Types
  <2> HIDE DEF Types
  <2> QED
    BY <2>1
<1>4. TaskFunction \in Functions
  <2> DEFINE d == Inputs(ThisTask.fn) \o IF task.predicate = 0 THEN <<>> ELSE <<Predicted(task.predicate)>>
             S == Seq(Types)
  <2>1. d \in S /\ Outputs(ThisTask.fn) \in S
    BY <1>1, <1>3, Followed
  <2>2. TaskFunction = [of |-> Len(args), isPredicate |-> FALSE, invoke |-> task.invoke,
                        predicate |-> task.predicate, deps |-> d, outs |-> Outputs(ThisTask.fn)]
    BY DEF TaskFunction
  <2>3. Functions = [of : Nat, isPredicate : BOOLEAN, invoke : Nat, predicate : Nat, deps : S, outs : S]
    BY DEF Functions
  <2> HIDE DEF d, S
  <2> QED
    BY <1>1, <1>2, <2>1, <2>2, <2>3
<1>5. PredicateFunction \in Functions
  <2> DEFINE S == Seq(Types)
  <2>1. task.predicateInputs \in S /\ <<Predicted(task.predicate)>> \in S
    BY <1>2, <1>3
  <2>2. Functions = [of : Nat, isPredicate : BOOLEAN, invoke : Nat, predicate : Nat, deps : S, outs : S]
    BY DEF Functions
  <2> HIDE DEF S
  <2> QED
    BY <1>1, <1>2, <2>1, <2>2 DEF PredicateFunction
<1>6. Len(funcs) \in Nat /\ DOMAIN funcs = 1..Len(funcs)
  BY <1>1, LenProperties
<1>7. ASSUME NEW t \in Seq(Functions)
      PROVE  /\ funcs \o t \in Seq(Functions)
             /\ DOMAIN (funcs \o t) = 1..(Len(funcs) + Len(t))
             /\ \A i \in DOMAIN funcs : (funcs \o t)[i] = funcs[i]
             /\ \A i \in 1..Len(t) : (funcs \o t)[Len(funcs) + i] = t[i]
  <2>1. Len(t) \in Nat
    BY LenProperties
  <2>2. /\ funcs \o t \in Seq(Functions) /\ Len(funcs \o t) = Len(funcs) + Len(t)
        /\ \A i \in 1..(Len(funcs) + Len(t)) :
               (funcs \o t)[i] = IF i <= Len(funcs) THEN funcs[i] ELSE t[i - Len(funcs)]
    BY <1>1, ConcatProperties
  <2>3. DOMAIN (funcs \o t) = 1..(Len(funcs) + Len(t))
    BY <2>2, LenProperties
  <2>4. \A i \in 1..Len(t) : /\ Len(funcs) + i \in 1..(Len(funcs) + Len(t))
                             /\ ~(Len(funcs) + i <= Len(funcs))
                             /\ (Len(funcs) + i) - Len(funcs) = i
    BY <1>6, <2>1
  <2>5. \A i \in 1..Len(funcs) : i \in 1..(Len(funcs) + Len(t)) /\ i <= Len(funcs)
    BY <1>6, <2>1
  <2> QED
    BY <1>6, <2>2, <2>3, <2>4, <2>5
<1>8. CASE task.predicate = 0
  <2> DEFINE t == <<TaskFunction>>
  <2>1. t \in Seq(Functions) /\ Len(t) = 1 /\ t[1] = TaskFunction
    BY <1>4
  <2>2. funcs' = funcs \o t
    BY <1>8 DEF Added
  <2> HIDE DEF t
  <2>3. /\ funcs' \in Seq(Functions)
        /\ DOMAIN funcs' = 1..(Len(funcs) + 1)
        /\ \A i \in DOMAIN funcs : funcs'[i] = funcs[i]
        /\ \A i \in 1..1 : funcs'[Len(funcs) + i] = t[i]
    BY <1>7, <2>1, <2>2
  <2>4. /\ DOMAIN funcs' = DOMAIN funcs \union {Len(funcs) + 1}
        /\ funcs'[Len(funcs) + 1] = TaskFunction
    BY <1>6, <2>1, <2>3
  <2> QED
    BY <1>4, <1>6, <1>8, <2>3, <2>4
<1>9. CASE task.predicate # 0
  <2> DEFINE t == <<TaskFunction, PredicateFunction>>
  <2>1. t \in Seq(Functions) /\ Len(t) = 2 /\ t[1] = TaskFunction /\ t[2] = PredicateFunction
    BY <1>4, <1>5
  <2>2. funcs' = funcs \o t
    BY <1>9 DEF Added
  <2> HIDE DEF t
  <2>3. /\ funcs' \in Seq(Functions)
        /\ DOMAIN funcs' = 1..(Len(funcs) + 2)
        /\ \A i \in DOMAIN funcs : funcs'[i] = funcs[i]
        /\ \A i \in 1..2 : funcs'[Len(funcs) + i] = t[i]
    BY <1>7, <2>1, <2>2
  <2>4. /\ DOMAIN funcs' = DOMAIN funcs \union {Len(funcs) + 1, Len(funcs) + 2}
        /\ funcs'[Len(funcs) + 1] = TaskFunction /\ funcs'[Len(funcs) + 2] = PredicateFunction
    BY <1>6, <2>1, <2>3
  <2> QED
    BY <1>4, <1>5, <1>6, <1>9, <2>3, <2>4
<1> QED
  BY <1>8, <1>9

LEMMA EndTaskFacts ==
  ASSUME TypeOK, EndTask
  PROVE  /\ phase = "options" /\ phase' = "reading" /\ task.next \notin DOMAIN ThisTask.opts
         /\ Added /\ errors' = errors \union TaskErrors
         /\ UNCHANGED <<args, task, providers, received, walks>>
         /\ flow' \in Flows
         /\ flow'.inputs = flow.inputs /\ flow'.outputs = flow.outputs
         /\ flow'.emitters = flow.emitters /\ flow'.instrumented = flow.instrumented
         /\ flow'.invokeTypeCnt = flow.invokeTypeCnt /\ flow'.predicateTypeCnt = flow.predicateTypeCnt
         /\ CompiledTask \in CompiledTasks /\ flow.tasks \in Seq(CompiledTasks)
         /\ flow'.tasks = Append(flow.tasks, CompiledTask)
<1>1. /\ phase = "options" /\ phase' = "reading" /\ task.next \notin DOMAIN ThisTask.opts
      /\ Added /\ errors' = errors \union TaskErrors
      /\ UNCHANGED <<args, task, providers, received, walks>>
      /\ flow' = [flow EXCEPT !.tasks = Append(flow.tasks, CompiledTask)]
  BY DEF EndTask, Added
<1>2. flow \in Flows /\ task \in TasksRead
  BY DEF TypeOK
<1>3. task.fallback \in BOOLEAN /\ task.predicate \in Nat
  BY <1>2 DEF TasksRead
<1>4. (task.instrumented \/ AutoInstrumented) \in BOOLEAN
  OBVIOUS
<1>5. CompiledTask \in CompiledTasks
  BY <1>3, <1>4 DEF CompiledTask, CompiledTasks
<1>6. flow.tasks \in Seq(CompiledTasks)
  BY <1>2 DEF Flows
<1>7. Append(flow.tasks, CompiledTask) \in Seq(CompiledTasks)
  BY <1>5, <1>6, AppendProperties
<1>8. AllBut(flow, flow', "tasks") /\ flow'.tasks = Append(flow.tasks, CompiledTask)
  BY <1>1, <1>2, <1>7, FieldSet
<1> QED
  BY <1>1, <1>5, <1>6, <1>8 DEF AllBut

(* After the loop, the arguments and what was made of them stay.            *)
LEMMA WalkFacts ==
  ASSUME Walking
  PROVE  /\ phase \in {"visiting", "searching", "sorting"}
         /\ phase' \in {"visiting", "searching", "sorting", "accepted", "refused", "crashed"}
         /\ UNCHANGED <<args, flow, task, funcs, providers, received>>
<1>1. CASE (\E t \in queue : Visit(t)) \/ EndVisits
  BY <1>1 DEF Visit, EndVisits
<1>2. CASE \/ \E i \in DOMAIN funcs : \E t \in Unsearched(i) : SearchBelow(i, t)
           \/ SearchBack \/ EndSearch
  BY <1>2 DEF SearchBelow, SearchBack, EndSearch, Searches
<1>3. CASE \/ \E i \in DOMAIN funcs : SortFrom(i)
           \/ \E t \in DOMAIN providers : SortBelow(t)
           \/ SortBack \/ Accept
  BY <1>3 DEF SortFrom, SortBelow, SortBack, Accept, Sorts
<1> QED
  BY <1>1, <1>2, <1>3 DEF Walking

LEMMA TypeStep ==
  ASSUME TypeOK, [Next]_vars
  PROVE  TypeOK'
<1>1. CASE \E a \in Arguments : Reading(a)
  <2>1. PICK a \in Arguments : Reading(a)
    BY <1>1
  <2>2. flow' \in Flows /\ task' \in TasksRead
    BY <2>1, ReadFlow
  <2>3. /\ args' \in Seq(Arguments) /\ args' # <<>> /\ Last(args') = a
        /\ (phase' = "reading" \/ phase' = "options") /\ (phase' = "options" => a.kind = "Task")
        /\ funcs' = funcs
    BY <2>1, ReadFacts
  <2> QED
    BY <2>2, <2>3 DEF TypeOK, ThisTask
<1>2. CASE Interpret
  <2>1. /\ flow' \in Flows /\ task' \in TasksRead /\ phase' \in {"options", "crashed"}
        /\ args' = args /\ funcs' = funcs /\ phase = "options"
    BY <1>2, InterpretFacts DEF Interpreted
  <2> QED
    BY <2>1 DEF TypeOK, ThisTask
<1>3. CASE EndTask
  <2>1. /\ phase = "options" /\ phase' = "reading" /\ args' = args /\ task' = task
        /\ flow' \in Flows /\ Added
    BY <1>3, EndTaskFacts
  <2>2. funcs' \in Seq(Functions)
    BY <2>1, FunctionsAdded
  <2> QED
    BY <2>1, <2>2 DEF TypeOK
<1>4. CASE NoArguments \/ Link
  BY <1>4 DEF TypeOK, NoArguments, Link
<1>5. CASE Walking
  BY <1>5, WalkFacts DEF TypeOK
<1>6. CASE Done \/ UNCHANGED vars
  BY <1>6 DEF TypeOK, Done, vars, ThisTask
<1> QED
  BY <1>1, <1>2, <1>3, <1>4, <1>5, <1>6 DEF Next

LEMMA TypeInit == Init => TypeOK
<1> SUFFICES ASSUME Init  PROVE TypeOK
  OBVIOUS
<1> DEFINE T == Seq(CompiledTasks)
           U == SUBSET UserTypes
           Q == Seq(UserTypes)
<1>1. <<>> \in T /\ {} \in U /\ <<>> \in Q
  OBVIOUS
<1>2. flow \in Flows
  <2>1. Flows = [inputs : U, outputs : U, emitters : Nat,
                 instrumented : BOOLEAN, concurrency : Nat, invokeTypeCnt : Nat,
                 predicateTypeCnt : Nat, tasks : T]
    BY DEF Flows
  <2> HIDE DEF T, U
  <2> QED
    BY <1>1, <2>1 DEF Init
<1>3. task \in TasksRead
  <2>1. TasksRead = [next : Nat, fallback : BOOLEAN, instrumented : BOOLEAN,
                     invoke : Nat, predicate : Nat, predicateInputs : Q]
    BY DEF TasksRead
  <2> HIDE DEF Q
  <2> QED
    BY <1>1, <2>1 DEF Init, NewTask
<1>4. /\ args = <<>> /\ phase = "reading" /\ funcs = <<>>
  BY DEF Init
<1>5. args \in Seq(Arguments) /\ funcs \in Seq(Functions)
  BY <1>4
<1> QED
  BY <1>2, <1>3, <1>4, <1>5 DEF TypeOK

-----------------------------------------------------------------------------
(* Functions are linked by the types they provide                          *)

Linked == \/ phase \in {"visiting", "searching", "sorting", "accepted"}
          \/ phase = "refused" /\ args # <<>>

ProvidersKnown ==
    /\ DOMAIN providers = Provided
    /\ \A t \in DOMAIN providers : providers[t] \in DOMAIN funcs /\ t \in Provides(funcs[providers[t]])

LinkInv ==
    /\ phase \in {"reading", "options"} => received = flow.outputs /\ visited = {}
    /\ phase \in {"reading", "options", "visiting"} => path = <<>> /\ searched = {}
    /\ phase \in {"reading", "options", "visiting", "searching"} => stack = <<>> /\ topo = <<>>
    /\ Linked => ProvidersKnown /\ received = flow.outputs \union Received

LEMMA LinkFacts ==
  ASSUME TypeOK, Link
  PROVE  ProvidersKnown'
<1>1. providers' = [t \in Provided |-> Max(Providers(t))] /\ funcs' = funcs
  BY DEF Link
<1>2. Provided' = Provided /\ \A f : Provides(f)' = Provides(f)
  BY <1>1 DEF Provided, Provides
<1>3. Len(funcs) \in Nat /\ DOMAIN funcs = 1..Len(funcs)
  BY LenProperties DEF TypeOK
<1>4. ASSUME NEW t \in Provided
      PROVE  Max(Providers(t)) \in Providers(t)
  <2>1. Providers(t) \subseteq 1..Len(funcs) /\ Providers(t) # {}
    BY <1>3 DEF Providers, Provided
  <2> QED
    BY <1>3, <2>1, Largest
<1>5. \A t \in Provided : providers'[t] \in DOMAIN funcs /\ t \in Provides(funcs[providers'[t]])
  BY <1>1, <1>4 DEF Providers
<1> QED
  BY <1>1, <1>2, <1>5 DEF ProvidersKnown, Provides

LEMMA LinkStep ==
  ASSUME TypeOK, LinkInv, [Next]_vars
  PROVE  LinkInv'
<1>1. CASE \E a \in Arguments : Reading(a)
  <2>1. PICK a \in Arguments : Reading(a)
    BY <1>1
  <2>2. /\ phase = "reading" /\ (phase' = "reading" \/ phase' = "options")
        /\ UNCHANGED <<visited, path, searched, stack, topo>>
    BY <2>1, ReadFacts DEF walks
  <2>3. received' = flow'.outputs
    BY <2>1, <2>2, ReadFlow DEF LinkInv
  <2> QED
    BY <2>2, <2>3 DEF LinkInv, Linked
<1>2. CASE Interpret
  <2>1. /\ phase = "options" /\ phase' \in {"options", "crashed"} /\ flow'.outputs = flow.outputs
        /\ UNCHANGED <<received, visited, path, searched, stack, topo>>
    BY <1>2, InterpretFacts DEF walks, Interpreted
  <2> QED
    BY <2>1 DEF LinkInv, Linked
<1>3. CASE EndTask
  <2>1. /\ phase = "options" /\ phase' = "reading" /\ flow'.outputs = flow.outputs
        /\ UNCHANGED <<received, visited, path, searched, stack, topo>>
    BY <1>3, EndTaskFacts DEF walks
  <2> QED
    BY <2>1 DEF LinkInv, Linked
<1>4. CASE NoArguments
  BY <1>4 DEF NoArguments, LinkInv, Linked, walks
<1>5. CASE Link
  <2>1. /\ phase = "reading" /\ phase' = "visiting" /\ received' = received \union Received
        /\ UNCHANGED <<flow, funcs, path, searched, stack, topo>>
    BY <1>5 DEF Link
  <2>2. Received' = Received
    BY <2>1 DEF Received
  <2> QED
    BY <1>5, <2>1, <2>2, LinkFacts DEF LinkInv
<1>6. CASE Walking
  <2>1. /\ phase \in {"visiting", "searching", "sorting"}
        /\ UNCHANGED <<args, flow, task, funcs, providers, received>>
    BY <1>6, WalkFacts
  <2>2. ProvidersKnown' /\ received' = flow'.outputs \union Received'
    BY <2>1 DEF LinkInv, Linked, ProvidersKnown, Provided, Provides, Received
  <2>3. CASE (\E t \in queue : Visit(t)) \/ EndVisits
    <3>1. UNCHANGED <<path, searched, stack, topo>> /\ phase = "visiting"
          /\ phase' \in {"visiting", "searching", "crashed"}
      BY <2>3 DEF Visit, EndVisits, walks
    <3> QED
      BY <2>2, <3>1 DEF LinkInv
  <2>4. CASE \/ \E i \in DOMAIN funcs : \E t \in Unsearched(i) : SearchBelow(i, t)
             \/ SearchBack \/ EndSearch
    <3>1. UNCHANGED <<stack, topo>> /\ phase = "searching" /\ phase' \in {"searching", "sorting", "refused"}
      BY <2>4 DEF SearchBelow, SearchBack, EndSearch, Searches, walks
    <3> QED
      BY <2>2, <3>1 DEF LinkInv
  <2>5. CASE \/ \E i \in DOMAIN funcs : SortFrom(i)
             \/ \E t \in DOMAIN providers : SortBelow(t)
             \/ SortBack \/ Accept
    <3>1. phase' \in {"sorting", "accepted"}
      BY <2>5 DEF SortFrom, SortBelow, SortBack, Accept, Sorts
    <3> QED
      BY <2>2, <3>1 DEF LinkInv
  <2> QED
    BY <1>6, <2>3, <2>4, <2>5 DEF Walking
<1>7. CASE Done \/ UNCHANGED vars
  <2>1. UNCHANGED <<args, phase, flow, funcs, providers, received, visited, path, searched, stack, topo>>
    BY <1>7 DEF Done, vars, walks
  <2> QED
    BY <2>1 DEF LinkInv, Linked, ProvidersKnown, Provided, Provides, Received
<1> QED
  BY <1>1, <1>2, <1>3, <1>4, <1>5, <1>6, <1>7 DEF Next

LEMMA LinkInit == Init => LinkInv
<1>1. ASSUME Init
      PROVE  /\ phase = "reading" /\ received = {} /\ flow.outputs = {} /\ visited = {}
             /\ path = <<>> /\ searched = {} /\ stack = <<>> /\ topo = <<>>
  BY <1>1 DEF Init
<1> QED
  BY <1>1 DEF LinkInv, Linked

-----------------------------------------------------------------------------
(* Cycles                                                                  *)

(* The search went down the path; below what it has searched, no types wait *)
(* for each other.                                                          *)
SearchInv ==
    /\ path \in Seq(DOMAIN providers)
    /\ \A m, n \in 1..Len(path) : path[m] = path[n] => m = n
    /\ \A n \in 1..(Len(path) - 1) : path[n + 1] \in Dependencies(providers[path[n]])
    /\ Range(path) \intersect searched = {}
    /\ searched \subseteq DOMAIN providers
    /\ \A t \in searched : Dependencies(providers[t]) \subseteq searched
    /\ \A S \in SUBSET searched :
          S # {} => \E t \in S : Dependencies(providers[t]) \intersect S = {}

Circle == \E S \in SUBSET DOMAIN funcs : WaitInCircle(S)

CycleInv ==
    /\ phase = "searching" => SearchInv
    /\ phase \in {"sorting", "accepted"} => errors = {} /\ ~Circle
    /\ phase = "refused" /\ args # <<>> => ("Cycle" \in errors <=> Circle)
    /\ "Cycle" \in errors => phase = "refused"

(* Nothing but a cycle is reported as one.                                  *)
LEMMA CycleReported ==
  ASSUME TypeOK, [Next]_vars, "Cycle" \in errors', "Cycle" \notin errors
  PROVE  \E i \in DOMAIN funcs : \E t \in Unsearched(i) : SearchBelow(i, t) /\ t \in Range(path)
<1>1. ASSUME NEW a \in Arguments, Reading(a)  PROVE FALSE
  BY <1>1 DEF Reading, ReadInvalid, ReadParams, ReadResults, ReadFlowOption, ReadTask, ErrorsIf
<1>2. ASSUME Interpret  PROVE FALSE
  BY <1>2, InterpretFacts DEF OptionReported
<1>3. ASSUME EndTask \/ NoArguments \/ Link  PROVE FALSE
  BY <1>3 DEF EndTask, TaskErrors, NoArguments, Link, ErrorsIf
<1>4. ASSUME Done \/ UNCHANGED vars  PROVE FALSE
  BY <1>4 DEF Done, vars
<1>5. ASSUME (\E t \in queue : Visit(t)) \/ EndVisits  PROVE FALSE
  BY <1>5 DEF Visit, EndVisits, ErrorsIf
<1>6. ASSUME SearchBack \/ EndSearch  PROVE FALSE
  BY <1>6 DEF SearchBack, EndSearch
<1>7. ASSUME \/ \E i \in DOMAIN funcs : SortFrom(i)
             \/ \E t \in DOMAIN providers : SortBelow(t)
             \/ SortBack \/ Accept
      PROVE  FALSE
  BY <1>7 DEF SortFrom, SortBelow, SortBack, Accept, Sorts
<1>8. PICK i \in DOMAIN funcs : \E t \in Unsearched(i) : SearchBelow(i, t)
  BY <1>1, <1>2, <1>3, <1>4, <1>5, <1>6, <1>7 DEF Next, Walking
<1>9. PICK t \in Unsearched(i) : SearchBelow(i, t)
  BY <1>8
<1>10. t \in Range(path)
  BY <1>9 DEF SearchBelow
<1> QED
  BY <1>9, <1>10

LEMMA BelowFacts ==
  ASSUME NEW i, NEW t, SearchBelow(i, t)
  PROVE  /\ phase = "searching"
         /\ t \in Dependencies(i) /\ t \in DOMAIN providers /\ t \notin searched
         /\ path # <<>> => i = providers[Last(path)]
         /\ UNCHANGED <<args, flow, task, funcs, providers, received, queue, visited, stack, topo>>
         /\ t \in Range(path) => phase' = "refused" /\ errors' = errors \union {"Cycle"}
         /\ t \notin Range(path) => /\ path' = Append(path, t)
                                    /\ UNCHANGED <<phase, searched, errors>>
<1>1. Searches(i) /\ t \in Unsearched(i)
  BY DEF SearchBelow, IsFirst
<1>2. t \in Dependencies(i) /\ t \in DOMAIN providers /\ t \notin searched
  BY <1>1 DEF Unsearched, Dependencies
<1>3. /\ phase = "searching" /\ (path # <<>> => i = providers[Last(path)])
      /\ UNCHANGED <<args, flow, task, funcs, providers, received, queue, visited, stack, topo>>
  BY <1>1 DEF Searches
<1>4. /\ t \in Range(path) => phase' = "refused" /\ errors' = errors \union {"Cycle"}
      /\ t \notin Range(path) => path' = Append(path, t) /\ UNCHANGED <<phase, searched, errors>>
  BY DEF SearchBelow
<1> QED
  BY <1>2, <1>3, <1>4

LEMMA BelowKeepsSearchInv ==
  ASSUME SearchInv, NEW i, NEW t, SearchBelow(i, t), t \notin Range(path)
  PROVE  SearchInv'
<1> DEFINE P == DOMAIN providers
           D(u) == Dependencies(providers[u])
<1>1. /\ t \in P /\ t \in Dependencies(i) /\ t \notin searched /\ (path # <<>> => i = providers[Last(path)])
      /\ path' = Append(path, t) /\ UNCHANGED <<funcs, providers, searched>>
  BY BelowFacts
<1>2. \A u : Dependencies(u)' = Dependencies(u)
  BY <1>1 DEF Dependencies
<1>3. path \in Seq(P)
  BY DEF SearchInv
<1>4. /\ path' \in Seq(P) /\ Len(path') = Len(path) + 1 /\ Len(path) \in Nat
      /\ \A n \in 1..Len(path) : path'[n] = path[n]
      /\ path'[Len(path) + 1] = t
      /\ Range(path') = Range(path) \union {t}
  BY <1>1, <1>3, Appended
<1>5. \A n \in 1..Len(path) : path[n] # t
  <2>1. DOMAIN path = 1..Len(path)
    BY <1>3, LenProperties
  <2> QED
    BY <2>1 DEF Range
<1>6. \A m, n \in 1..Len(path') : path'[m] = path'[n] => m = n
  <2> SUFFICES ASSUME NEW m \in 1..Len(path'), NEW n \in 1..Len(path'), path'[m] = path'[n]
               PROVE  m = n
    OBVIOUS
  <2>1. \A k \in 1..Len(path') : k \in 1..Len(path) \/ k = Len(path) + 1
    BY <1>4
  <2> QED
    BY <1>4, <1>5, <2>1 DEF SearchInv
<1>7. \A n \in 1..(Len(path') - 1) : path'[n + 1] \in D(path'[n])
  <2> SUFFICES ASSUME NEW n \in 1..(Len(path') - 1)
               PROVE  path'[n + 1] \in D(path'[n])
    OBVIOUS
  <2>1. n \in 1..Len(path) /\ Len(path) # 0
    BY <1>4
  <2>2. path # <<>> /\ path'[n] = path[n]
    BY <1>4, <2>1
  <2>3. CASE n = Len(path)
    <3>1. path[n] = Last(path)
      BY <2>3 DEF Last
    <3> QED
      BY <1>1, <1>4, <2>2, <2>3, <3>1
  <2>4. CASE n # Len(path)
    <3>1. n \in 1..(Len(path) - 1) /\ n + 1 \in 1..Len(path)
      BY <1>4, <2>1, <2>4
    <3> QED
      BY <1>4, <2>2, <3>1 DEF SearchInv
  <2> QED
    BY <2>3, <2>4
<1>8. Range(path') \intersect searched = {}
  BY <1>1, <1>4 DEF SearchInv
<1> HIDE DEF D
<1>9. \A u : D(u)' = D(u)
  BY <1>1, <1>2 DEF D
<1>10. /\ searched \subseteq P /\ \A u \in searched : D(u) \subseteq searched
       /\ \A S \in SUBSET searched : S # {} => \E u \in S : D(u) \intersect S = {}
  BY DEF SearchInv, D
<1> QED
  BY <1>1, <1>2, <1>4, <1>6, <1>7, <1>8, <1>10 DEF SearchInv, D

LEMMA BackKeepsSearchInv ==
  ASSUME SearchInv, SearchBack
  PROVE  SearchInv'
<1> DEFINE P == DOMAIN providers
           D(u) == Dependencies(providers[u])
           t == Last(path)
<1>1. /\ path # <<>> /\ Unsearched(providers[t]) = {}
      /\ searched' = searched \union {t} /\ path' = Front(path)
      /\ UNCHANGED <<funcs, providers>>
  BY DEF SearchBack, Searches
<1>2. \A u : Dependencies(u)' = Dependencies(u)
  BY <1>1 DEF Dependencies
<1>3. path \in Seq(P)
  BY DEF SearchInv
<1>4. /\ Len(path) \in Nat \ {0} /\ t \in P /\ t = path[Len(path)] /\ t \in Range(path)
      /\ path' \in Seq(P) /\ Len(path') = Len(path) - 1 /\ DOMAIN path' = 1..(Len(path) - 1)
      /\ \A n \in 1..(Len(path) - 1) : path'[n] = path[n]
      /\ Range(path) = Range(path') \union {t}
  BY <1>1, <1>3, Shortened
<1>5. t \notin searched
  BY <1>4 DEF SearchInv
<1>6. \A m, n \in 1..Len(path') : path'[m] = path'[n] => m = n
  <2> SUFFICES ASSUME NEW m \in 1..Len(path'), NEW n \in 1..Len(path'), path'[m] = path'[n]
               PROVE  m = n
    OBVIOUS
  <2>1. m \in 1..Len(path) /\ n \in 1..Len(path) /\ path[m] = path[n]
    BY <1>4
  <2> QED
    BY <2>1 DEF SearchInv
<1>7. \A n \in 1..(Len(path') - 1) : path'[n + 1] \in D(path'[n])
  <2> SUFFICES ASSUME NEW n \in 1..(Len(path') - 1)
               PROVE  path'[n + 1] \in D(path'[n])
    OBVIOUS
  <2>1. n \in 1..(Len(path) - 1) /\ n + 1 \in 1..(Len(path) - 1)
    BY <1>4
  <2> QED
    BY <1>4, <2>1 DEF SearchInv
<1>8. t \notin Range(path')
  <2>1. \A n \in 1..(Len(path) - 1) : n \in 1..Len(path) /\ Len(path) \in 1..Len(path) /\ n # Len(path)
    BY <1>4
  <2>2. \A n \in 1..(Len(path) - 1) : path'[n] # t
    BY <1>4, <2>1 DEF SearchInv
  <2> QED
    BY <1>4, <2>2 DEF Range
<1>9. Range(path') \intersect searched' = {}
  BY <1>1, <1>4, <1>8 DEF SearchInv
<1>10. D(t) \subseteq searched
  BY <1>1 DEF Unsearched
<1> HIDE DEF D, t
<1>11. /\ searched \subseteq P /\ \A u \in searched : D(u) \subseteq searched
       /\ \A S \in SUBSET searched : S # {} => \E u \in S : D(u) \intersect S = {}
  BY DEF SearchInv, D
<1>12. searched' \subseteq P /\ \A u \in searched' : D(u) \subseteq searched'
  BY <1>1, <1>4, <1>10, <1>11
<1>13. \A S \in SUBSET searched' : S # {} => \E u \in S : D(u) \intersect S = {}
  <2> SUFFICES ASSUME NEW S \in SUBSET searched', S # {}
               PROVE  \E u \in S : D(u) \intersect S = {}
    OBVIOUS
  <2>1. S \ {t} \in SUBSET searched
    BY <1>1
  <2>2. CASE S \ {t} = {}
    <3>1. S = {t}
      BY <2>2
    <3> QED
      BY <1>5, <1>10, <3>1
  <2>3. CASE S \ {t} # {}
    <3>1. PICK u \in S \ {t} : D(u) \intersect (S \ {t}) = {}
      BY <1>11, <2>1, <2>3
    <3>2. D(u) \subseteq searched
      BY <1>11, <2>1, <3>1
    <3>3. D(u) \intersect S = {}
      BY <1>5, <3>1, <3>2
    <3> QED
      BY <3>1, <3>3
  <2> QED
    BY <2>2, <2>3
<1> QED
  BY <1>1, <1>2, <1>4, <1>6, <1>7, <1>9, <1>12, <1>13 DEF SearchInv, D

(* A type that is met again on the path closes a circle.                    *)
LEMMA CircleFound ==
  ASSUME LinkInv, SearchInv, NEW i, NEW t, SearchBelow(i, t), t \in Range(path)
  PROVE  Circle
<1>1. /\ phase = "searching" /\ t \in Dependencies(i) /\ (path # <<>> => i = providers[Last(path)])
  BY BelowFacts
<1>2. \A u \in DOMAIN providers : providers[u] \in DOMAIN funcs
  BY <1>1 DEF LinkInv, Linked, ProvidersKnown
<1>3. path \in Seq(DOMAIN providers)
  BY DEF SearchInv
<1>4. Len(path) \in Nat /\ DOMAIN path = 1..Len(path) /\ \A n \in 1..Len(path) : path[n] \in DOMAIN providers
  BY <1>3, LenProperties, ElementOfSeq
<1>5. PICK m \in 1..Len(path) : path[m] = t
  BY <1>4 DEF Range
<1>6. path # <<>> /\ i = providers[path[Len(path)]]
  <2>1. path # <<>>
    BY <1>4, <1>5
  <2> QED
    BY <1>1, <2>1 DEF Last
<1> DEFINE S == {providers[path[n]] : n \in m..Len(path)}
<1>7. \A n \in m..Len(path) : n \in 1..Len(path)
  BY <1>4
<1>8. S \in SUBSET DOMAIN funcs
  BY <1>2, <1>4, <1>7
<1>9. S # {} /\ providers[t] \in S
  <2>1. m \in m..Len(path)
    BY <1>4
  <2> QED
    BY <1>5, <2>1
<1>10. ASSUME NEW n \in m..Len(path)
       PROVE  \E u \in Dependencies(providers[path[n]]) : providers[u] \in S
  <2>1. CASE n = Len(path)
    BY <1>1, <1>6, <1>9, <2>1
  <2>2. CASE n # Len(path)
    <3>1. n \in 1..(Len(path) - 1) /\ n + 1 \in m..Len(path)
      BY <1>4, <2>2
    <3>2. path[n + 1] \in Dependencies(providers[path[n]])
      BY <3>1 DEF SearchInv
    <3> QED
      BY <3>1, <3>2
  <2> QED
    BY <2>1, <2>2
<1>11. \A k \in S : \E u \in Dependencies(k) : providers[u] \in S
  BY <1>10
<1> HIDE DEF S
<1>12. WaitInCircle(S)
  BY <1>9, <1>11 DEF WaitInCircle, Dependencies
<1> QED
  BY <1>8, <1>12 DEF Circle

(* When everything was searched, there is none.                             *)
LEMMA NoCircleLeft ==
  ASSUME LinkInv, SearchInv, EndSearch
  PROVE  ~Circle
<1>1. \A i \in DOMAIN funcs : Dependencies(i) \subseteq searched
  BY DEF EndSearch, Unsearched
<1>2. ASSUME NEW S \in SUBSET DOMAIN funcs, WaitInCircle(S)
      PROVE  FALSE
  <2> DEFINE D == {t \in searched : providers[t] \in S}
  <2>1. S # {} /\ \A i \in S : \E t \in Dependencies(i) : providers[t] \in S
    BY <1>2 DEF WaitInCircle, Dependencies
  <2>2. \A i \in S : \E t \in Dependencies(i) : t \in D
    BY <1>1, <2>1
  <2>3. D # {} /\ D \in SUBSET searched
    BY <2>1, <2>2
  <2>4. \A t \in D : Dependencies(providers[t]) \intersect D # {}
    BY <2>2
  <2> HIDE DEF D
  <2> QED
    BY <2>3, <2>4 DEF SearchInv
<1> QED
  BY <1>2 DEF Circle

LEMMA CycleStep ==
  ASSUME TypeOK, LinkInv, CycleInv, [Next]_vars
  PROVE  CycleInv'
<1>1. ASSUME phase \in {"reading", "options"}, phase' \in {"reading", "options", "visiting", "crashed"}
      PROVE  CycleInv'
  <2>1. "Cycle" \notin errors
    BY <1>1 DEF CycleInv
  <2>2. "Cycle" \notin errors'
    <3>1. ~\E i \in DOMAIN funcs : \E t \in Unsearched(i) : SearchBelow(i, t) /\ t \in Range(path)
      BY <1>1 DEF SearchBelow, Searches
    <3> QED
      BY <2>1, <3>1, CycleReported
  <2> QED
    BY <1>1, <2>2 DEF CycleInv
<1>2. CASE \E a \in Arguments : Reading(a)
  BY <1>1, <1>2, ReadFacts
<1>3. CASE Interpret
  <2>1. phase = "options" /\ phase' \in {"options", "crashed"}
    BY <1>3, InterpretFacts DEF Interpreted
  <2> QED
    BY <1>1, <2>1
<1>4. CASE EndTask
  BY <1>1, <1>4, EndTaskFacts
<1>5. CASE NoArguments
  <2>1. args' = <<>> /\ errors' = errors \union {"NoArguments"} /\ phase = "reading" /\ phase' = "refused"
    BY <1>5 DEF NoArguments
  <2> QED
    BY <2>1 DEF CycleInv
<1>6. CASE Link
  BY <1>1, <1>6 DEF Link
<1>7. CASE Walking
  <2>0. UNCHANGED <<args, funcs, providers>>
    BY <1>7, WalkFacts
  <2>1. Circle' <=> Circle
    BY <2>0 DEF Circle, WaitInCircle
  <2>2. CASE \E t \in queue : Visit(t)
    <3>1. phase = "visiting" /\ phase' \in {"visiting", "crashed"}
      BY <2>2 DEF Visit
    <3>2. "Cycle" \notin errors'
      <4>1. ~\E i \in DOMAIN funcs : \E t \in Unsearched(i) : SearchBelow(i, t) /\ t \in Range(path)
        BY <3>1 DEF SearchBelow, Searches
      <4> QED
        BY <3>1, <4>1, CycleReported DEF CycleInv
    <3> QED
      BY <3>1, <3>2 DEF CycleInv
  <2>3. CASE EndVisits
    <3>1. /\ phase = "visiting" /\ phase' = "searching" /\ UNCHANGED <<path, searched>>
      BY <2>3 DEF EndVisits, walks
    <3>2. "Cycle" \notin errors'
      <4>1. ~\E i \in DOMAIN funcs : \E t \in Unsearched(i) : SearchBelow(i, t) /\ t \in Range(path)
        BY <3>1 DEF SearchBelow, Searches
      <4> QED
        BY <3>1, <4>1, CycleReported DEF CycleInv
    <3>3. path' = <<>> /\ searched' = {}
      BY <3>1 DEF LinkInv
    <3>4. SearchInv'
      <4>1. path' \in Seq(DOMAIN providers') /\ Len(path') = 0 /\ DOMAIN path' = {}
        BY <3>3
      <4> QED
        BY <3>3, <4>1 DEF SearchInv, Range
    <3> QED
      BY <3>1, <3>2, <3>4 DEF CycleInv
  <2>4. CASE \E i \in DOMAIN funcs : \E t \in Unsearched(i) : SearchBelow(i, t)
    <3>1. PICK i \in DOMAIN funcs : \E t \in Unsearched(i) : SearchBelow(i, t)
      BY <2>4
    <3>2. PICK t \in Unsearched(i) : SearchBelow(i, t)
      BY <3>1
    <3>3. phase = "searching" /\ SearchInv
      BY <3>2, BelowFacts DEF CycleInv
    <3>4. CASE t \in Range(path)
      <4>1. phase' = "refused" /\ errors' = errors \union {"Cycle"}
        BY <3>2, <3>4, BelowFacts
      <4>2. Circle
        BY <3>2, <3>3, <3>4, CircleFound
      <4> QED
        BY <2>1, <4>1, <4>2 DEF CycleInv
    <3>5. CASE t \notin Range(path)
      <4>1. phase' = phase /\ errors' = errors
        BY <3>2, <3>5, BelowFacts
      <4>2. SearchInv'
        BY <3>2, <3>3, <3>5, BelowKeepsSearchInv
      <4> QED
        BY <3>3, <4>1, <4>2 DEF CycleInv
    <3> QED
      BY <3>4, <3>5
  <2>5. CASE SearchBack
    <3>1. phase = "searching" /\ phase' = phase /\ errors' = errors
      BY <2>5 DEF SearchBack, Searches
    <3>2. SearchInv'
      BY <2>5, <3>1, BackKeepsSearchInv DEF CycleInv
    <3> QED
      BY <3>1, <3>2 DEF CycleInv
  <2>6. CASE EndSearch
    <3>1. /\ phase = "searching" /\ errors' = errors
          /\ phase' = IF errors = {} THEN "sorting" ELSE "refused"
      BY <2>6 DEF EndSearch
    <3>2. SearchInv /\ "Cycle" \notin errors
      BY <3>1 DEF CycleInv
    <3>3. ~Circle
      BY <2>6, <3>2, NoCircleLeft
    <3> QED
      BY <2>1, <3>1, <3>2, <3>3 DEF CycleInv
  <2>7. CASE \/ \E i \in DOMAIN funcs : SortFrom(i)
             \/ \E t \in DOMAIN providers : SortBelow(t)
             \/ SortBack \/ Accept
    <3>1. phase = "sorting" /\ phase' \in {"sorting", "accepted"} /\ errors' = errors
      BY <2>7 DEF SortFrom, SortBelow, SortBack, Accept, Sorts
    <3> QED
      BY <2>1, <3>1 DEF CycleInv
  <2> QED
    BY <1>7, <2>2, <2>3, <2>4, <2>5, <2>6, <2>7 DEF Walking
<1>8. CASE Done \/ UNCHANGED vars
  <2>1. UNCHANGED <<args, phase, funcs, providers, path, searched, errors>>
    BY <1>8 DEF Done, vars, walks
  <2>2. (Circle' <=> Circle) /\ (SearchInv' <=> SearchInv)
    BY <2>1 DEF Circle, WaitInCircle, SearchInv, Dependencies
  <2> QED
    BY <2>1, <2>2 DEF CycleInv
<1> QED
  BY <1>2, <1>3, <1>4, <1>5, <1>6, <1>7, <1>8 DEF Next

LEMMA CycleInit == Init => CycleInv
<1>1. ASSUME Init  PROVE phase = "reading" /\ errors = {}
  BY <1>1 DEF Init
<1> QED
  BY <1>1 DEF CycleInv

(* A cycle is reported if and only if functions wait for each other in a    *)
(* circle: what was searched once need not be searched again, for no circle *)
(* goes through it.                                                         *)
THEOREM CycleReportedIffAny == Spec => []FlowCycleReported
<1>1. Init => TypeOK /\ LinkInv /\ CycleInv
  BY TypeInit, LinkInit, CycleInit
<1>2. TypeOK /\ LinkInv /\ CycleInv /\ [Next]_vars => (TypeOK /\ LinkInv /\ CycleInv)'
  BY TypeStep, LinkStep, CycleStep
<1>3. CycleInv => FlowCycleReported
  BY DEF CycleInv, FlowCycleReported, Circle
<1> QED
  BY <1>1, <1>2, <1>3, PTL DEF Spec

-----------------------------------------------------------------------------
(* What is known while and after the arguments are read                    *)

(* The last option of a kind among the first that were read.                *)
LastBefore(opts, n, kind) ==
    {k \in DOMAIN opts : /\ k < n /\ opts[k].kind = kind
                         /\ \A j \in DOMAIN opts : k < j /\ j < n => opts[j].kind # kind}

(* The task under compilation is what its options so far ask for; its       *)
(* numbers are its own.                                                     *)
TaskInv ==
    phase = "options" =>
        LET opts == ThisTask.opts
        IN  /\ Compiles(ThisTask.fn)
            /\ task.next \in 1..(Len(opts) + 1)
            /\ (task.instrumented <=> \E k \in DOMAIN opts : k < task.next /\ opts[k].kind = "Instrument")
            /\ (task.invoke # 0 <=> \E k \in LastBefore(opts, task.next, "Invoke") : opts[k].value = "true")
            /\ (task.predicate # 0 <=> \E k \in LastBefore(opts, task.next, "Predicate") : IsPredicate(opts[k].fn))
            /\ task.predicate # 0 =>
                  \E k \in LastBefore(opts, task.next, "Predicate") : task.predicateInputs = Inputs(opts[k].fn)
            /\ \A k \in DOMAIN opts :
                  k < task.next /\ opts[k].kind = "Invoke" => opts[k].value # "variable"
            /\ task.invoke <= flow.invokeTypeCnt /\ task.predicate <= flow.predicateTypeCnt
            /\ \A i \in DOMAIN funcs : /\ funcs[i].invoke # 0 => funcs[i].invoke # task.invoke
                                       /\ funcs[i].predicate # 0 => funcs[i].predicate # task.predicate

(* A function and the argument it was made of.                              *)
FunctionOf(f, a) ==
    /\ ~f.isPredicate =>
          /\ f.outs = Outputs(a.fn)
          /\ Range(f.deps) = Range(Inputs(a.fn))
                \union IF f.predicate = 0 THEN {} ELSE {Predicted(f.predicate)}
          /\ (f.invoke # 0 <=> WantsInvoke(a))
          /\ (f.predicate # 0 <=> \E k \in LastOf(a.opts, "Predicate") : IsPredicate(a.opts[k].fn))
    /\ f.isPredicate =>
          /\ f.outs = <<Predicted(f.predicate)>> /\ f.predicate # 0 /\ f.invoke = 0
          /\ \E k \in LastOf(a.opts, "Predicate") : f.deps = Inputs(a.opts[k].fn)

(* The tasks that became functions.                                         *)
Compiled(n) == /\ n \in DOMAIN args /\ args[n].kind = "Task" /\ Compiles(args[n].fn)
               /\ phase = "options" => n # Len(args)

FuncsInv ==
    phase # "crashed" =>
        /\ \A i \in DOMAIN funcs :
              /\ Compiled(funcs[i].of) /\ FunctionOf(funcs[i], args[funcs[i].of])
              /\ funcs[i].invoke <= flow.invokeTypeCnt /\ funcs[i].predicate <= flow.predicateTypeCnt
        /\ \A i, j \in DOMAIN funcs : i # j =>
              /\ funcs[i].of = funcs[j].of => (funcs[i].isPredicate <=> ~funcs[j].isPredicate)
              /\ funcs[i].invoke # 0 => funcs[i].invoke # funcs[j].invoke
              /\ funcs[i].predicate # 0 /\ funcs[i].predicate = funcs[j].predicate => funcs[i].of = funcs[j].of
        /\ \A n \in DOMAIN args : Compiled(n) => \E i \in DOMAIN funcs : funcs[i].of = n /\ ~funcs[i].isPredicate
        /\ \A i \in DOMAIN funcs : funcs[i].predicate # 0 =>
              \E j \in DOMAIN funcs : /\ funcs[j].of = funcs[i].of /\ funcs[j].predicate = funcs[i].predicate
                                      /\ (funcs[j].isPredicate <=> ~funcs[i].isPredicate)

Instruments(a) == \E k \in DOMAIN a.opts : a.opts[k].kind = "Instrument"

FlowInv ==
    phase # "crashed" =>
        /\ flow.inputs = Supplied
        /\ flow.outputs = UNION {CompiledOutputs(args[i].types) : i \in Written("Results")}
        /\ (flow.emitters = 0 <=> Written("WithEmitter") = {})
        /\ (flow.instrumented <=> Written("InstrumentFlow") # {})
        /\ \A n \in DOMAIN args : Compiled(n) /\ Instruments(args[n]) =>
              \E i \in DOMAIN flow.tasks : flow.tasks[i].instrumented
        /\ (\E i \in DOMAIN flow.tasks : flow.tasks[i].instrumented) =>
              flow.instrumented \/ \E n \in DOMAIN args : Compiled(n) /\ Instruments(args[n])

(* An argument that is reported nowhere in the loop.                        *)
Clean(a) ==
    /\ a.kind \notin {"NoCall", "Foreign", "ParallelOption", "ContinueOnError"}
    /\ a.kind = "Params"  => IsInjective(a.types)
    /\ a.kind = "Results" => "NoPointer" \notin Range(a.types)
    /\ a.kind = "Task"    => /\ Compiles(a.fn)
                             /\ \A k \in DOMAIN a.opts : ValidOption(a, a.opts[k])
                             /\ (WantsInvoke(a) <=> Outputs(a.fn) = <<>>)

Checked ==
    /\ ~LacksEmitter /\ ~ProvidedTwice /\ Provided \subseteq received
    /\ visited \subseteq DOMAIN providers \union flow.inputs
    /\ phase # "visiting" => Unused = {}

ErrorsInv ==
    /\ phase = "reading" => (errors = {} <=> \A i \in DOMAIN args : Clean(args[i]))
    /\ phase = "options" =>
          (errors = {} <=> /\ \A i \in DOMAIN args : i # Len(args) => Clean(args[i])
                           /\ \A k \in DOMAIN ThisTask.opts :
                                 k < task.next => ValidOption(ThisTask, ThisTask.opts[k]))
    /\ Linked => /\ args # <<>>
                 /\ "Cycle" \notin errors =>
                       (errors = {} <=> (\A i \in DOMAIN args : Clean(args[i])) /\ Checked)

Waited == UNION {Range(funcs[i].deps) : i \in DOMAIN funcs}

ReachInv ==
    Linked =>
        /\ flow.outputs \union Sentinels \subseteq visited \union queue
        /\ \A t \in visited \intersect DOMAIN providers :
              Range(funcs[providers[t]].deps) \subseteq visited \union queue
        /\ visited \union queue \subseteq flow.outputs \union Sentinels \union Waited
        /\ visited \intersect Sentinels \subseteq DOMAIN providers
        /\ phase # "visiting" => queue = {}

(* A sentinel that no function provides, nor the task under compilation.    *)
Stranded(s) == /\ \A i \in DOMAIN funcs : funcs[i].invoke # s
               /\ phase = "options" => task.invoke # s
FatalSoFar ==
    \/ \E n \in DOMAIN args : Compiled(n) /\ Fatal(args[n])
    \/ /\ phase = "options"
       /\ \E k \in DOMAIN ThisTask.opts :
             /\ k < task.next /\ ThisTask.opts[k].kind = "Invoke" /\ ThisTask.opts[k].value = "true"
             /\ k \notin LastBefore(ThisTask.opts, task.next, "Invoke")

CrashInv ==
    /\ phase = "crashed" => \E i \in DOMAIN args : Fatal(args[i])
    /\ phase # "crashed" => (FatalSoFar <=> \E s \in 1..flow.invokeTypeCnt : Stranded(s))

-----------------------------------------------------------------------------
(* Options                                                                 *)

LEMMA LastBeforeNext ==
  ASSUME NEW opts, DOMAIN opts \in SUBSET Nat, NEW n \in DOMAIN opts, NEW kind
  PROVE  /\ opts[n].kind = kind => LastBefore(opts, n + 1, kind) = {n}
         /\ opts[n].kind # kind => LastBefore(opts, n + 1, kind) = LastBefore(opts, n, kind)
<1>1. /\ n \in Nat /\ \A k \in DOMAIN opts : k \in Nat
      /\ \A k \in DOMAIN opts : k < n + 1 <=> k < n \/ k = n
  OBVIOUS
<1>2. CASE opts[n].kind = kind
  <2>1. n \in LastBefore(opts, n + 1, kind)
    <3>1. \A j \in DOMAIN opts : ~(n < j /\ j < n + 1)
      BY <1>1
    <3> QED
      BY <1>1, <1>2, <3>1 DEF LastBefore
  <2>2. ASSUME NEW k \in LastBefore(opts, n + 1, kind)  PROVE k = n
    <3>1. k \in DOMAIN opts /\ k < n + 1 /\ (k < n /\ n < n + 1 => opts[n].kind # kind)
      BY <2>2 DEF LastBefore
    <3> QED
      BY <1>1, <1>2, <3>1
  <2> QED
    BY <1>2, <2>1, <2>2
<1>3. CASE opts[n].kind # kind
  <2>1. ASSUME NEW k \in DOMAIN opts  PROVE k \in LastBefore(opts, n + 1, kind) <=> k \in LastBefore(opts, n, kind)
    <3>1. k \in LastBefore(opts, n + 1, kind) <=>
             /\ k < n + 1 /\ opts[k].kind = kind
             /\ \A j \in DOMAIN opts : k < j /\ j < n + 1 => opts[j].kind # kind
      BY DEF LastBefore
    <3>2. k \in LastBefore(opts, n, kind) <=>
             /\ k < n /\ opts[k].kind = kind
             /\ \A j \in DOMAIN opts : k < j /\ j < n => opts[j].kind # kind
      BY DEF LastBefore
    <3> QED
      BY <1>1, <1>3, <3>1, <3>2
  <2> QED
    BY <1>3, <2>1 DEF LastBefore
<1> QED
  BY <1>2, <1>3

LEMMA LastBeforeEnd ==
  ASSUME NEW opts, Len(opts) \in Nat, DOMAIN opts = 1..Len(opts), NEW n, n \in 1..(Len(opts) + 1),
         n \notin DOMAIN opts, NEW kind
  PROVE  /\ LastBefore(opts, n, kind) = LastOf(opts, kind)
         /\ \A k \in DOMAIN opts : k < n
<1>1. \A k \in DOMAIN opts : k < n
  OBVIOUS
<1>2. \A k, j \in DOMAIN opts : k < j <=> j > k
  OBVIOUS
<1> QED
  BY <1>1, <1>2 DEF LastBefore, LastOf

LEMMA TaskInvKept ==
  ASSUME TypeOK, TaskInv, FuncsInv, Interpret, phase' = "options"
  PROVE  TaskInv'
<1> DEFINE opts == ThisTask.opts
           n == task.next
<1>1. /\ phase = "options" /\ n \in DOMAIN opts /\ opts[n] = NextOption
      /\ NextOption.kind \in {"NoOption", "FallbackWith", "Predicate", "Instrument", "Invoke"}
      /\ NextOption.kind = "Invoke" => NextOption.value \in {"true", "false", "variable"}
      /\ args' = args /\ funcs' = funcs /\ Interpreted
  BY InterpretFacts DEF NextOption
<1>2. Len(opts) \in Nat /\ DOMAIN opts = 1..Len(opts)
  BY <1>1, ThisTaskFacts
<1>3. /\ task'.next = n + 1
      /\ (task'.instrumented <=> task.instrumented \/ NextOption.kind = "Instrument")
      /\ ~(NextOption.kind = "Invoke" /\ NextOption.value = "variable")
  BY <1>1 DEF Interpreted
<1>4. ThisTask' = ThisTask
  BY <1>1 DEF ThisTask
<1>5. /\ Compiles(ThisTask.fn)
      /\ (task.instrumented <=> \E k \in DOMAIN opts : k < n /\ opts[k].kind = "Instrument")
      /\ (task.invoke # 0 <=> \E k \in LastBefore(opts, n, "Invoke") : opts[k].value = "true")
      /\ (task.predicate # 0 <=> \E k \in LastBefore(opts, n, "Predicate") : IsPredicate(opts[k].fn))
      /\ task.predicate # 0 =>
            \E k \in LastBefore(opts, n, "Predicate") : task.predicateInputs = Inputs(opts[k].fn)
      /\ \A k \in DOMAIN opts : k < n /\ opts[k].kind = "Invoke" => opts[k].value # "variable"
      /\ task.invoke <= flow.invokeTypeCnt /\ task.predicate <= flow.predicateTypeCnt
      /\ \A i \in DOMAIN funcs : /\ funcs[i].invoke # 0 => funcs[i].invoke # task.invoke
                                 /\ funcs[i].predicate # 0 => funcs[i].predicate # task.predicate
  BY <1>1 DEF TaskInv
<1>6. /\ flow.invokeTypeCnt \in Nat /\ flow.predicateTypeCnt \in Nat
      /\ task.invoke \in Nat /\ task.predicate \in Nat
  <2>1. flow \in Flows /\ task \in TasksRead
    BY DEF TypeOK
  <2>2. flow.invokeTypeCnt \in Nat /\ flow.predicateTypeCnt \in Nat
    BY <2>1 DEF Flows
  <2>3. task.invoke \in Nat /\ task.predicate \in Nat
    BY <2>1 DEF TasksRead
  <2> QED
    BY <2>2, <2>3
<1>7. \A i \in DOMAIN funcs : /\ funcs[i].invoke # flow.invokeTypeCnt + 1
                             /\ funcs[i].predicate # flow.predicateTypeCnt + 1
  <2> SUFFICES ASSUME NEW i \in DOMAIN funcs
               PROVE  /\ funcs[i].invoke # flow.invokeTypeCnt + 1
                      /\ funcs[i].predicate # flow.predicateTypeCnt + 1
    OBVIOUS
  <2>1. funcs[i].invoke <= flow.invokeTypeCnt /\ funcs[i].predicate <= flow.predicateTypeCnt
    BY <1>1 DEF FuncsInv
  <2>2. ~(flow.invokeTypeCnt + 1 <= flow.invokeTypeCnt) /\ ~(flow.predicateTypeCnt + 1 <= flow.predicateTypeCnt)
    BY <1>6
  <2> QED
    BY <2>1, <2>2
<1>8. /\ \A k \in DOMAIN opts : k < n + 1 <=> k < n \/ k = n
      /\ n + 1 \in 1..(Len(opts) + 1)
      /\ DOMAIN opts \in SUBSET Nat
  BY <1>1, <1>2
<1>9. /\ NextOption.kind = "Invoke" => LastBefore(opts, n + 1, "Invoke") = {n}
      /\ NextOption.kind # "Invoke" => LastBefore(opts, n + 1, "Invoke") = LastBefore(opts, n, "Invoke")
      /\ NextOption.kind = "Predicate" => LastBefore(opts, n + 1, "Predicate") = {n}
      /\ NextOption.kind # "Predicate" =>
            LastBefore(opts, n + 1, "Predicate") = LastBefore(opts, n, "Predicate")
  <2> DEFINE Moved(kind) == /\ NextOption.kind = kind => LastBefore(opts, n + 1, kind) = {n}
                            /\ NextOption.kind # kind =>
                                  LastBefore(opts, n + 1, kind) = LastBefore(opts, n, kind)
  <2>1. ASSUME NEW kind  PROVE Moved(kind)
    <3>1. /\ opts[n].kind = kind => LastBefore(opts, n + 1, kind) = {n}
          /\ opts[n].kind # kind => LastBefore(opts, n + 1, kind) = LastBefore(opts, n, kind)
      <4>1. n \in DOMAIN opts /\ DOMAIN opts \in SUBSET Nat
        BY <1>1, <1>8
      <4> HIDE DEF opts, n
      <4> QED
        BY <4>1, LastBeforeNext, Zenon
    <3> QED
      BY <1>1, <3>1
  <2> HIDE DEF Moved
  <2>2. Moved("Invoke") /\ Moved("Predicate")
    BY <2>1
  <2> QED
    BY <2>2 DEF Moved
<1> HIDE DEF opts, n
<1>10. task'.instrumented <=> \E k \in DOMAIN opts : k < n + 1 /\ opts[k].kind = "Instrument"
  BY <1>1, <1>3, <1>5, <1>8
<1>11. \A k \in DOMAIN opts : k < n + 1 /\ opts[k].kind = "Invoke" => opts[k].value # "variable"
  BY <1>1, <1>3, <1>5, <1>8
<1>12. /\ (task'.invoke # 0 <=> \E k \in LastBefore(opts, n + 1, "Invoke") : opts[k].value = "true")
       /\ task'.invoke <= flow'.invokeTypeCnt
       /\ \A i \in DOMAIN funcs : funcs[i].invoke # 0 => funcs[i].invoke # task'.invoke
  <2>1. CASE NextOption.kind = "Invoke" /\ NextOption.value = "true"
    <3>1. flow'.invokeTypeCnt = flow.invokeTypeCnt + 1 /\ task'.invoke = flow.invokeTypeCnt + 1
      BY <1>1, <2>1 DEF Interpreted
    <3>2. task'.invoke # 0 /\ task'.invoke <= flow'.invokeTypeCnt
      BY <1>6, <3>1
    <3>3. LastBefore(opts, n + 1, "Invoke") = {n}
      BY <1>9, <2>1
    <3> QED
      BY <1>1, <1>7, <2>1, <3>1, <3>2, <3>3
  <2>2. CASE NextOption.kind = "Invoke" /\ NextOption.value = "false"
    <3>1. flow'.invokeTypeCnt = flow.invokeTypeCnt /\ task'.invoke = 0
      BY <1>1, <2>2 DEF Interpreted
    <3>2. LastBefore(opts, n + 1, "Invoke") = {n}
      BY <1>9, <2>2
    <3> QED
      BY <1>1, <1>6, <2>2, <3>1, <3>2
  <2>3. CASE NextOption.kind # "Invoke"
    <3>1. flow'.invokeTypeCnt = flow.invokeTypeCnt /\ task'.invoke = task.invoke
      BY <1>1, <2>3 DEF Interpreted
    <3>2. LastBefore(opts, n + 1, "Invoke") = LastBefore(opts, n, "Invoke")
      BY <1>9, <2>3
    <3> QED
      BY <1>5, <3>1, <3>2
  <2> QED
    BY <1>1, <1>3, <2>1, <2>2, <2>3
<1>13. /\ (task'.predicate # 0 <=> \E k \in LastBefore(opts, n + 1, "Predicate") : IsPredicate(opts[k].fn))
       /\ task'.predicate # 0 =>
             \E k \in LastBefore(opts, n + 1, "Predicate") : task'.predicateInputs = Inputs(opts[k].fn)
       /\ task'.predicate <= flow'.predicateTypeCnt
       /\ \A i \in DOMAIN funcs : funcs[i].predicate # 0 => funcs[i].predicate # task'.predicate
  <2>1. CASE NextOption.kind = "Predicate" /\ IsPredicate(NextOption.fn)
    <3>1. /\ flow'.predicateTypeCnt = flow.predicateTypeCnt + 1
          /\ task'.predicate = flow.predicateTypeCnt + 1 /\ task'.predicateInputs = Inputs(NextOption.fn)
      BY <1>1, <2>1 DEF Interpreted
    <3>2. task'.predicate # 0 /\ task'.predicate <= flow'.predicateTypeCnt
      BY <1>6, <3>1
    <3>3. LastBefore(opts, n + 1, "Predicate") = {n}
      BY <1>9, <2>1
    <3> QED
      BY <1>1, <1>7, <2>1, <3>1, <3>2, <3>3
  <2>2. CASE NextOption.kind = "Predicate" /\ ~IsPredicate(NextOption.fn)
    <3>1. flow'.predicateTypeCnt = flow.predicateTypeCnt /\ task'.predicate = 0
      BY <1>1, <2>2 DEF Interpreted
    <3>2. LastBefore(opts, n + 1, "Predicate") = {n}
      BY <1>9, <2>2
    <3> QED
      BY <1>1, <1>6, <2>2, <3>1, <3>2
  <2>3. CASE NextOption.kind # "Predicate"
    <3>1. /\ flow'.predicateTypeCnt = flow.predicateTypeCnt /\ task'.predicate = task.predicate
          /\ task'.predicateInputs = task.predicateInputs
      BY <1>1, <2>3 DEF Interpreted
    <3>2. LastBefore(opts, n + 1, "Predicate") = LastBefore(opts, n, "Predicate")
      BY <1>9, <2>3
    <3> QED
      BY <1>5, <3>1, <3>2
  <2> QED
    BY <2>1, <2>2, <2>3
<1>14. ThisTask'.opts = opts /\ task'.next = n + 1 /\ funcs' = funcs
  BY <1>1, <1>3, <1>4 DEF opts, n
<1>15. TaskInv' <=>
         /\ Compiles(ThisTask'.fn)
         /\ task'.next \in 1..(Len(opts) + 1)
         /\ (task'.instrumented <=> \E k \in DOMAIN opts : k < n + 1 /\ opts[k].kind = "Instrument")
         /\ (task'.invoke # 0 <=> \E k \in LastBefore(opts, n + 1, "Invoke") : opts[k].value = "true")
         /\ (task'.predicate # 0 <=> \E k \in LastBefore(opts, n + 1, "Predicate") : IsPredicate(opts[k].fn))
         /\ task'.predicate # 0 =>
               \E k \in LastBefore(opts, n + 1, "Predicate") : task'.predicateInputs = Inputs(opts[k].fn)
         /\ \A k \in DOMAIN opts : k < n + 1 /\ opts[k].kind = "Invoke" => opts[k].value # "variable"
         /\ task'.invoke <= flow'.invokeTypeCnt /\ task'.predicate <= flow'.predicateTypeCnt
         /\ \A i \in DOMAIN funcs : /\ funcs[i].invoke # 0 => funcs[i].invoke # task'.invoke
                                    /\ funcs[i].predicate # 0 => funcs[i].predicate # task'.predicate
  BY <1>14 DEF TaskInv
<1> QED
  BY <1>4, <1>5, <1>8, <1>10, <1>11, <1>12, <1>13, <1>14, <1>15

LEMMA TaskStep ==
  ASSUME TypeOK, TaskInv, FuncsInv, [Next]_vars
  PROVE  TaskInv'
<1>1. CASE \E a \in Arguments : Reading(a)
  <2>1. PICK a \in Arguments : Reading(a)
    BY <1>1
  <2>2. /\ phase' = "options" => a.kind = "Task" /\ Compiles(a.fn)
        /\ args' \in Seq(Arguments) /\ Last(args') = a /\ UNCHANGED funcs /\ phase = "reading"
    BY <2>1, ReadFacts
  <2>3. SUFFICES ASSUME phase' = "options"  PROVE TaskInv'
    BY DEF TaskInv
  <2>4. task' = NewTask /\ flow' \in Flows
    BY <2>1, <2>3, ReadFlow
  <2>5. flow'.invokeTypeCnt \in Nat /\ flow'.predicateTypeCnt \in Nat
    BY <2>4 DEF Flows
  <2>6. /\ ThisTask' = a /\ Compiles(a.fn) /\ Len(a.opts) \in Nat /\ DOMAIN a.opts = 1..Len(a.opts)
    BY <2>2, <2>3, ArgumentsTyped DEF ThisTask
  <2>7. \A k \in DOMAIN a.opts : ~(k < 1)
    BY <2>6
  <2>8. \A kind : LastBefore(a.opts, 1, kind) = {}
    BY <2>7 DEF LastBefore
  <2>9. /\ task'.next = 1 /\ task'.instrumented = FALSE /\ task'.invoke = 0 /\ task'.predicate = 0
        /\ 1 \in 1..(Len(a.opts) + 1)
    BY <2>4, <2>6 DEF NewTask
  <2> QED
    BY <2>2, <2>5, <2>6, <2>7, <2>8, <2>9 DEF TaskInv
<1>2. CASE Interpret
  BY <1>2, TaskInvKept DEF TaskInv
<1>3. CASE EndTask
  BY <1>3, EndTaskFacts DEF TaskInv
<1>4. CASE NoArguments \/ Link
  BY <1>4 DEF TaskInv, NoArguments, Link
<1>5. CASE Walking
  BY <1>5, WalkFacts DEF TaskInv
<1>6. CASE Done \/ UNCHANGED vars
  <2>1. UNCHANGED <<args, phase, flow, task, funcs>>
    BY <1>6 DEF Done, vars
  <2> QED
    BY <2>1 DEF TaskInv, ThisTask
<1> QED
  BY <1>1, <1>2, <1>3, <1>4, <1>5, <1>6 DEF Next

-----------------------------------------------------------------------------
(* Functions                                                               *)

(* A task becomes functions only when its options are read.                 *)
LEMMA CompiledRead ==
  ASSUME TypeOK, NEW a \in Arguments, Reading(a)
  PROVE  \A n : Compiled(n)' <=> Compiled(n)
<1> SUFFICES ASSUME NEW n  PROVE Compiled(n)' <=> Compiled(n)
  OBVIOUS
<1>1. /\ phase = "reading" /\ (phase' = "reading" \/ phase' = "options")
      /\ (phase' = "options" <=> a.kind = "Task" /\ Compiles(a.fn))
      /\ Len(args) + 1 \notin DOMAIN args
      /\ DOMAIN args' = DOMAIN args \union {Len(args) + 1} /\ Len(args') = Len(args) + 1
      /\ \A i \in DOMAIN args : args'[i] = args[i]
      /\ args'[Len(args) + 1] = a
  BY ReadFacts
<1>2. CASE n \in DOMAIN args
  BY <1>1, <1>2 DEF Compiled
<1>3. CASE n = Len(args) + 1
  BY <1>1, <1>3 DEF Compiled
<1>4. CASE n \notin DOMAIN args'
  BY <1>1, <1>4 DEF Compiled
<1> QED
  BY <1>1, <1>2, <1>3, <1>4

LEMMA CompiledEnd ==
  ASSUME TypeOK, TaskInv, EndTask
  PROVE  \A n : Compiled(n)' <=> Compiled(n) \/ n = Len(args)
<1>1. phase = "options" /\ phase' = "reading" /\ args' = args
  BY EndTaskFacts
<1>2. /\ Len(args) \in DOMAIN args /\ args[Len(args)].kind = "Task" /\ Compiles(args[Len(args)].fn)
  BY <1>1, ThisTaskFacts DEF TaskInv
<1> QED
  BY <1>1, <1>2 DEF Compiled

LEMMA CompiledSame ==
  ASSUME args' = args, phase = "options" <=> phase' = "options"
  PROVE  \A n : Compiled(n)' <=> Compiled(n)
BY DEF Compiled

LEMMA NewFunctions ==
  ASSUME TypeOK, TaskInv, FuncsInv, EndTask
  PROVE  /\ TaskFunction.of = Len(args) /\ ~TaskFunction.isPredicate
         /\ TaskFunction.invoke = task.invoke /\ TaskFunction.predicate = task.predicate
         /\ FunctionOf(TaskFunction, ThisTask)
         /\ PredicateFunction.of = Len(args) /\ PredicateFunction.isPredicate
         /\ PredicateFunction.invoke = 0 /\ PredicateFunction.predicate = task.predicate
         /\ task.predicate # 0 => FunctionOf(PredicateFunction, ThisTask)
<1> DEFINE a == ThisTask
           d == Inputs(a.fn) \o IF task.predicate = 0 THEN <<>> ELSE <<Predicted(task.predicate)>>
<1>1. phase = "options" /\ task.next \notin DOMAIN a.opts
  BY EndTaskFacts
<1>2. /\ Inputs(a.fn) \in Seq(UserTypes)
      /\ Len(a.opts) \in Nat /\ DOMAIN a.opts = 1..Len(a.opts)
  BY <1>1, ThisTaskFacts
<1>3. /\ task.next \in 1..(Len(a.opts) + 1)
      /\ (task.invoke # 0 <=> \E k \in LastBefore(a.opts, task.next, "Invoke") : a.opts[k].value = "true")
      /\ (task.predicate # 0 <=> \E k \in LastBefore(a.opts, task.next, "Predicate") : IsPredicate(a.opts[k].fn))
      /\ task.predicate # 0 =>
            \E k \in LastBefore(a.opts, task.next, "Predicate") : task.predicateInputs = Inputs(a.opts[k].fn)
  BY <1>1 DEF TaskInv
<1>4. /\ LastBefore(a.opts, task.next, "Invoke") = LastOf(a.opts, "Invoke")
      /\ LastBefore(a.opts, task.next, "Predicate") = LastOf(a.opts, "Predicate")
  <2>1. \A kind : LastBefore(a.opts, task.next, kind) = LastOf(a.opts, kind)
    BY <1>1, <1>2, <1>3, LastBeforeEnd
  <2> QED
    BY <2>1
<1>5. /\ (task.invoke # 0 <=> WantsInvoke(a))
      /\ (task.predicate # 0 <=> \E k \in LastOf(a.opts, "Predicate") : IsPredicate(a.opts[k].fn))
      /\ task.predicate # 0 => \E k \in LastOf(a.opts, "Predicate") : task.predicateInputs = Inputs(a.opts[k].fn)
  BY <1>3, <1>4 DEF WantsInvoke
<1>6. Range(d) = Range(Inputs(a.fn)) \union IF task.predicate = 0 THEN {} ELSE {Predicted(task.predicate)}
  <2> DEFINE S == UserTypes \union {Predicted(task.predicate)}
  <2>1. Inputs(a.fn) \in Seq(S) /\ <<>> \in Seq(S) /\ <<Predicted(task.predicate)>> \in Seq(S)
    <3>1. UserTypes \subseteq S /\ Predicted(task.predicate) \in S
      OBVIOUS
    <3> HIDE DEF S
    <3> QED
      BY <1>2, <3>1
  <2>2. Range(<<>>) = {} /\ Range(<<Predicted(task.predicate)>>) = {Predicted(task.predicate)}
    BY DEF Range
  <2> HIDE DEF S
  <2>3. \A t \in Seq(S) : Range(Inputs(a.fn) \o t) = Range(Inputs(a.fn)) \union Range(t)
    BY <2>1, Followed
  <2>4. CASE task.predicate = 0
    BY <2>1, <2>2, <2>3, <2>4
  <2>5. CASE task.predicate # 0
    BY <2>1, <2>2, <2>3, <2>5
  <2> QED
    BY <2>4, <2>5
<1>7. /\ TaskFunction.of = Len(args) /\ ~TaskFunction.isPredicate
      /\ TaskFunction.invoke = task.invoke /\ TaskFunction.predicate = task.predicate
      /\ TaskFunction.deps = d /\ TaskFunction.outs = Outputs(a.fn)
  BY DEF TaskFunction
<1>8. /\ PredicateFunction.of = Len(args) /\ PredicateFunction.isPredicate
      /\ PredicateFunction.invoke = 0 /\ PredicateFunction.predicate = task.predicate
      /\ PredicateFunction.deps = task.predicateInputs
      /\ PredicateFunction.outs = <<Predicted(task.predicate)>>
  BY DEF PredicateFunction
<1> HIDE DEF a, d
<1>9. FunctionOf(TaskFunction, a)
  BY <1>5, <1>6, <1>7 DEF FunctionOf
<1>10. task.predicate # 0 => FunctionOf(PredicateFunction, a)
  BY <1>5, <1>8 DEF FunctionOf
<1> QED
  BY <1>7, <1>8, <1>9, <1>10 DEF a

LEMMA FuncsInvAtEnd ==
  ASSUME TypeOK, TaskInv, FuncsInv, EndTask
  PROVE  FuncsInv'
<1> DEFINE p == Len(funcs)
           m == Len(args)
<1>1. /\ phase = "options" /\ phase' = "reading" /\ args' = args /\ Added
      /\ flow'.invokeTypeCnt = flow.invokeTypeCnt /\ flow'.predicateTypeCnt = flow.predicateTypeCnt
  BY EndTaskFacts
<1>2. /\ TaskFunction.of = m /\ ~TaskFunction.isPredicate
      /\ TaskFunction.invoke = task.invoke /\ TaskFunction.predicate = task.predicate
      /\ FunctionOf(TaskFunction, args[m])
      /\ PredicateFunction.of = m /\ PredicateFunction.isPredicate
      /\ PredicateFunction.invoke = 0 /\ PredicateFunction.predicate = task.predicate
      /\ task.predicate # 0 => FunctionOf(PredicateFunction, args[m])
  BY <1>1, NewFunctions, ThisTaskFacts
<1>3. /\ p \in Nat /\ DOMAIN funcs = 1..p
      /\ \A i \in DOMAIN funcs : i \in DOMAIN funcs' /\ funcs'[i] = funcs[i]
      /\ p + 1 \in DOMAIN funcs' /\ funcs'[p + 1] = TaskFunction
      /\ task.predicate = 0 => DOMAIN funcs' = DOMAIN funcs \union {p + 1}
      /\ task.predicate # 0 => /\ DOMAIN funcs' = DOMAIN funcs \union {p + 1, p + 2}
                               /\ funcs'[p + 2] = PredicateFunction
  BY <1>1, FunctionsAdded
<1>4. /\ m \in DOMAIN args /\ ~Compiled(m) /\ Compiled(m)' /\ \A n : Compiled(n)' <=> Compiled(n) \/ n = m
  BY <1>1, ThisTaskFacts, CompiledEnd DEF Compiled
<1>5. /\ task.invoke <= flow.invokeTypeCnt /\ task.predicate <= flow.predicateTypeCnt
      /\ \A i \in DOMAIN funcs : /\ funcs[i].invoke # 0 => funcs[i].invoke # task.invoke
                                 /\ funcs[i].predicate # 0 => funcs[i].predicate # task.predicate
      /\ 0 <= flow.invokeTypeCnt
  <2>1. flow \in Flows
    BY DEF TypeOK
  <2>2. flow.invokeTypeCnt \in Nat
    BY <2>1 DEF Flows
  <2> QED
    BY <1>1, <2>2 DEF TaskInv
<1>6. /\ \A i \in DOMAIN funcs :
            /\ Compiled(funcs[i].of) /\ FunctionOf(funcs[i], args[funcs[i].of])
            /\ funcs[i].invoke <= flow.invokeTypeCnt /\ funcs[i].predicate <= flow.predicateTypeCnt
      /\ \A i, j \in DOMAIN funcs : i # j =>
            /\ funcs[i].of = funcs[j].of => (funcs[i].isPredicate <=> ~funcs[j].isPredicate)
            /\ funcs[i].invoke # 0 => funcs[i].invoke # funcs[j].invoke
            /\ funcs[i].predicate # 0 /\ funcs[i].predicate = funcs[j].predicate => funcs[i].of = funcs[j].of
      /\ \A n \in DOMAIN args : Compiled(n) => \E i \in DOMAIN funcs : funcs[i].of = n /\ ~funcs[i].isPredicate
      /\ \A i \in DOMAIN funcs : funcs[i].predicate # 0 =>
            \E j \in DOMAIN funcs : /\ funcs[j].of = funcs[i].of /\ funcs[j].predicate = funcs[i].predicate
                                    /\ (funcs[j].isPredicate <=> ~funcs[i].isPredicate)
  BY <1>1 DEF FuncsInv
<1> HIDE DEF p, m
<1>7. ASSUME NEW i \in DOMAIN funcs'
      PROVE  \/ i \in DOMAIN funcs /\ funcs'[i] = funcs[i]
             \/ i = p + 1 /\ funcs'[i] = TaskFunction
             \/ i = p + 2 /\ funcs'[i] = PredicateFunction /\ task.predicate # 0
  BY <1>3
<1>8. \A i \in DOMAIN funcs : funcs[i].of # m
  BY <1>4, <1>6
<1>9. ASSUME NEW i \in DOMAIN funcs'
      PROVE  /\ Compiled(funcs[i].of)' /\ FunctionOf(funcs'[i], args'[funcs'[i].of])
             /\ funcs'[i].invoke <= flow'.invokeTypeCnt /\ funcs'[i].predicate <= flow'.predicateTypeCnt
  <2>1. CASE i \in DOMAIN funcs /\ funcs'[i] = funcs[i]
    BY <1>1, <1>4, <1>6, <2>1
  <2>2. CASE i = p + 1 /\ funcs'[i] = TaskFunction
    BY <1>1, <1>2, <1>4, <1>5, <2>2
  <2>3. CASE i = p + 2 /\ funcs'[i] = PredicateFunction /\ task.predicate # 0
    BY <1>1, <1>2, <1>4, <1>5, <2>3
  <2> QED
    BY <1>7, <2>1, <2>2, <2>3
<1>10. ASSUME NEW i \in DOMAIN funcs', NEW j \in DOMAIN funcs', i # j
       PROVE  /\ funcs'[i].of = funcs'[j].of => (funcs'[i].isPredicate <=> ~funcs'[j].isPredicate)
              /\ funcs'[i].invoke # 0 => funcs'[i].invoke # funcs'[j].invoke
              /\ funcs'[i].predicate # 0 /\ funcs'[i].predicate = funcs'[j].predicate =>
                    funcs'[i].of = funcs'[j].of
  <2>1. CASE i \in DOMAIN funcs /\ j \in DOMAIN funcs
    BY <1>3, <1>6, <1>10, <2>1
  <2>2. CASE i \in DOMAIN funcs /\ j \notin DOMAIN funcs
    <3>1. /\ funcs'[i] = funcs[i] /\ funcs[i].of # m
          /\ funcs[i].invoke # 0 => funcs[i].invoke # task.invoke
          /\ funcs[i].predicate # 0 => funcs[i].predicate # task.predicate
      BY <1>3, <1>5, <1>8, <2>2
    <3>2. /\ funcs'[j].of = m /\ funcs'[j].predicate = task.predicate
          /\ (funcs'[j].invoke = task.invoke \/ funcs'[j].invoke = 0)
      BY <1>2, <1>7, <2>2
    <3> QED
      BY <3>1, <3>2
  <2>3. CASE i \notin DOMAIN funcs /\ j \in DOMAIN funcs
    <3>1. /\ funcs'[j] = funcs[j] /\ funcs[j].of # m
          /\ funcs[j].invoke # 0 => funcs[j].invoke # task.invoke
          /\ funcs[j].predicate # 0 => funcs[j].predicate # task.predicate
      BY <1>3, <1>5, <1>8, <2>3
    <3>2. /\ funcs'[i].of = m /\ funcs'[i].predicate = task.predicate
          /\ (funcs'[i].invoke = task.invoke \/ funcs'[i].invoke = 0)
      BY <1>2, <1>7, <2>3
    <3> QED
      BY <3>1, <3>2
  <2>4. CASE i \notin DOMAIN funcs /\ j \notin DOMAIN funcs
    <3>1. \/ funcs'[i] = TaskFunction /\ funcs'[j] = PredicateFunction
          \/ funcs'[j] = TaskFunction /\ funcs'[i] = PredicateFunction
      BY <1>7, <1>10, <2>4
    <3> QED
      BY <1>2, <3>1
  <2> QED
    BY <2>1, <2>2, <2>3, <2>4
<1>11. ASSUME NEW n \in DOMAIN args', Compiled(n)'
       PROVE  \E i \in DOMAIN funcs' : funcs'[i].of = n /\ ~funcs'[i].isPredicate
  BY <1>1, <1>2, <1>3, <1>4, <1>6, <1>11
<1>12. ASSUME NEW i \in DOMAIN funcs', funcs'[i].predicate # 0
       PROVE  \E j \in DOMAIN funcs' : /\ funcs'[j].of = funcs'[i].of /\ funcs'[j].predicate = funcs'[i].predicate
                                       /\ (funcs'[j].isPredicate <=> ~funcs'[i].isPredicate)
  <2>1. CASE i \in DOMAIN funcs /\ funcs'[i] = funcs[i]
    BY <1>3, <1>6, <1>12, <2>1
  <2>2. CASE i = p + 1 /\ funcs'[i] = TaskFunction
    <3>1. p + 2 \in DOMAIN funcs' /\ funcs'[p + 2] = PredicateFunction
      BY <1>2, <1>3, <1>12, <2>2
    <3> QED
      BY <1>2, <2>2, <3>1
  <2>3. CASE i = p + 2 /\ funcs'[i] = PredicateFunction /\ task.predicate # 0
    BY <1>2, <1>3, <2>3
  <2> QED
    BY <1>7, <2>1, <2>2, <2>3
<1> QED
  BY <1>9, <1>10, <1>11, <1>12 DEF FuncsInv

LEMMA FuncsStep ==
  ASSUME TypeOK, TaskInv, FuncsInv, [Next]_vars
  PROVE  FuncsInv'
<1>1. ASSUME funcs' = funcs, \A n : Compiled(n)' <=> Compiled(n),
             \A n \in DOMAIN args : n \in DOMAIN args' /\ args'[n] = args[n],
             \A x : x <= flow.invokeTypeCnt => x <= flow'.invokeTypeCnt,
             \A x : x <= flow.predicateTypeCnt => x <= flow'.predicateTypeCnt,
             phase # "crashed"
      PROVE  FuncsInv'
  <2>1. \A n : Compiled(n) => n \in DOMAIN args
    BY DEF Compiled
  <2>2. \A i \in DOMAIN funcs : FunctionOf(funcs[i], args[funcs[i].of]) /\ Compiled(funcs[i].of)
    BY <1>1 DEF FuncsInv
  <2>3. \A i \in DOMAIN funcs : args'[funcs[i].of] = args[funcs[i].of]
    BY <1>1, <2>1, <2>2
  <2> QED
    BY <1>1, <2>1, <2>2, <2>3 DEF FuncsInv
<1>2. CASE \E a \in Arguments : Reading(a)
  <2>1. PICK a \in Arguments : Reading(a)
    BY <1>2
  <2>2. /\ funcs' = funcs /\ \A n \in DOMAIN args : n \in DOMAIN args' /\ args'[n] = args[n]
        /\ phase # "crashed"
    BY <2>1, ReadFacts
  <2>3. flow'.invokeTypeCnt = flow.invokeTypeCnt /\ flow'.predicateTypeCnt = flow.predicateTypeCnt
    BY <2>1, ReadFlow
  <2>4. \A n : Compiled(n)' <=> Compiled(n)
    BY <2>1, CompiledRead
  <2> QED
    BY <1>1, <2>2, <2>3, <2>4
<1>3. CASE Interpret
  <2>1. /\ phase = "options" /\ phase' \in {"options", "crashed"} /\ funcs' = funcs /\ args' = args
        /\ NextOption.kind \in {"NoOption", "FallbackWith", "Predicate", "Instrument", "Invoke"}
        /\ Interpreted
    BY <1>3, InterpretFacts DEF Interpreted
  <2>2. flow.invokeTypeCnt \in Nat /\ flow.predicateTypeCnt \in Nat
    BY DEF TypeOK, Flows
  <2>3. SUFFICES ASSUME phase' = "options"  PROVE FuncsInv'
    BY <2>1 DEF FuncsInv
  <2>4. \A n : Compiled(n)' <=> Compiled(n)
    BY <2>1, <2>3, CompiledSame
  <2>5. /\ flow'.invokeTypeCnt = flow.invokeTypeCnt \/ flow'.invokeTypeCnt = flow.invokeTypeCnt + 1
        /\ flow'.predicateTypeCnt = flow.predicateTypeCnt \/ flow'.predicateTypeCnt = flow.predicateTypeCnt + 1
    BY <2>1 DEF Interpreted
  <2>6. \A i \in DOMAIN funcs : /\ funcs[i].invoke \in Nat /\ funcs[i].predicate \in Nat
                               /\ funcs[i].invoke <= flow'.invokeTypeCnt
                               /\ funcs[i].predicate <= flow'.predicateTypeCnt
    <3> SUFFICES ASSUME NEW i \in DOMAIN funcs
                 PROVE  /\ funcs[i].invoke \in Nat /\ funcs[i].predicate \in Nat
                        /\ funcs[i].invoke <= flow'.invokeTypeCnt
                        /\ funcs[i].predicate <= flow'.predicateTypeCnt
      OBVIOUS
    <3>1. funcs[i] \in Functions
      BY DEF TypeOK
    <3>2. funcs[i].invoke \in Nat /\ funcs[i].predicate \in Nat
      BY <3>1 DEF Functions
    <3>3. funcs[i].invoke <= flow.invokeTypeCnt /\ funcs[i].predicate <= flow.predicateTypeCnt
      BY <2>1 DEF FuncsInv
    <3> QED
      BY <2>2, <2>5, <3>2, <3>3
  <2> QED
    BY <2>1, <2>4, <2>6 DEF FuncsInv
<1>4. CASE EndTask
  BY <1>4, FuncsInvAtEnd
<1>5. CASE NoArguments \/ Link \/ Walking
  <2>1. /\ phase # "options" /\ phase' # "options" /\ phase # "crashed"
        /\ UNCHANGED <<args, flow, funcs>>
    BY <1>5, WalkFacts DEF NoArguments, Link
  <2>2. \A n : Compiled(n)' <=> Compiled(n)
    BY <2>1, CompiledSame
  <2> QED
    BY <1>1, <2>1, <2>2
<1>6. CASE Done \/ UNCHANGED vars
  <2>1. UNCHANGED <<args, phase, flow, funcs>>
    BY <1>6 DEF Done, vars
  <2> QED
    BY <2>1 DEF FuncsInv, Compiled
<1> QED
  BY <1>2, <1>3, <1>4, <1>5, <1>6 DEF Next

-----------------------------------------------------------------------------
(* The flow, and what is reported                                          *)

LEMMA WrittenRead ==
  ASSUME TypeOK, NEW a \in Arguments, Reading(a)
  PROVE  \A kind : /\ a.kind = kind => Written(kind)' = Written(kind) \union {Len(args) + 1}
                   /\ a.kind # kind => Written(kind)' = Written(kind)
<1>1. /\ Len(args) + 1 \notin DOMAIN args
      /\ DOMAIN args' = DOMAIN args \union {Len(args) + 1}
      /\ \A i \in DOMAIN args : args'[i] = args[i]
      /\ args'[Len(args) + 1] = a
  BY ReadFacts
<1> QED
  BY <1>1 DEF Written

LEMMA FlowStep ==
  ASSUME TypeOK, TaskInv, FlowInv, [Next]_vars
  PROVE  FlowInv'
<1>1. ASSUME args' = args, flow'.inputs = flow.inputs, flow'.outputs = flow.outputs,
             flow'.emitters = flow.emitters, flow'.instrumented = flow.instrumented,
             flow'.tasks = flow.tasks, \A n : Compiled(n)' <=> Compiled(n), phase # "crashed"
      PROVE  FlowInv'
  BY <1>1 DEF FlowInv, Supplied, Written
<1>2. CASE \E a \in Arguments : Reading(a)
  <2>1. PICK a \in Arguments : Reading(a)
    BY <1>2
  <2>2. /\ phase = "reading" /\ Len(args) + 1 \notin DOMAIN args
        /\ DOMAIN args' = DOMAIN args \union {Len(args) + 1}
        /\ \A i \in DOMAIN args : args'[i] = args[i]
        /\ args'[Len(args) + 1] = a
    BY <2>1, ReadFacts
  <2>3. /\ flow'.inputs = flow.inputs \union (IF a.kind = "Params" THEN Range(a.types) ELSE {})
        /\ flow'.outputs = flow.outputs \union (IF a.kind = "Results" THEN CompiledOutputs(a.types) ELSE {})
        /\ (flow'.emitters = 0 <=> flow.emitters = 0 /\ a.kind # "WithEmitter")
        /\ (flow'.instrumented <=> flow.instrumented \/ a.kind = "InstrumentFlow")
        /\ flow'.tasks = flow.tasks
    BY <2>1, ReadFlow
  <2>4. \A n : Compiled(n)' <=> Compiled(n)
    BY <2>1, CompiledRead
  <2>5. \A n : Compiled(n) => n \in DOMAIN args
    BY DEF Compiled
  <2> DEFINE W(kind) == /\ a.kind = kind => Written(kind)' = Written(kind) \union {Len(args) + 1}
                        /\ a.kind # kind => Written(kind)' = Written(kind)
  <2>6. W("Params") /\ W("Results") /\ W("WithEmitter") /\ W("InstrumentFlow")
    <3>1. \A kind : W(kind)
      BY <2>1, WrittenRead
    <3> HIDE DEF W
    <3> QED
      BY <3>1
  <2>7. \A kind : \A i \in Written(kind) : i \in DOMAIN args
    BY DEF Written
  <2>8. flow'.inputs = Supplied'
    <3>1. Supplied' = Supplied \union (IF a.kind = "Params" THEN Range(a.types) ELSE {})
      <4>1. Supplied' = UNION {Range(args'[i].types) : i \in Written("Params")'}
        BY DEF Supplied
      <4>2. \A i \in Written("Params") : args'[i] = args[i]
        BY <2>2, <2>7
      <4>3. CASE a.kind = "Params"
        BY <2>2, <2>6, <4>1, <4>2, <4>3 DEF Supplied
      <4>4. CASE a.kind # "Params"
        BY <2>2, <2>6, <4>1, <4>2, <4>4 DEF Supplied
      <4> QED
        BY <4>3, <4>4
    <3> QED
      BY <2>2, <2>3, <3>1 DEF FlowInv
  <2>9. flow'.outputs = UNION {CompiledOutputs(args'[i].types) : i \in Written("Results")'}
    <3> DEFINE Outs == UNION {CompiledOutputs(args[i].types) : i \in Written("Results")}
    <3>1. flow.outputs = Outs
      BY <2>2 DEF FlowInv
    <3>2. \A i \in Written("Results") : args'[i] = args[i]
      BY <2>2, <2>7
    <3>3. CASE a.kind = "Results"
      BY <2>2, <2>3, <2>6, <3>1, <3>2, <3>3
    <3>4. CASE a.kind # "Results"
      BY <2>2, <2>3, <2>6, <3>1, <3>2, <3>4
    <3> QED
      BY <3>3, <3>4
  <2> HIDE DEF W
  <2>10. /\ (flow'.emitters = 0 <=> Written("WithEmitter")' = {})
         /\ (flow'.instrumented <=> Written("InstrumentFlow")' # {})
    <3>1. /\ (flow.emitters = 0 <=> Written("WithEmitter") = {})
          /\ (flow.instrumented <=> Written("InstrumentFlow") # {})
      BY <2>2 DEF FlowInv
    <3> QED
      BY <2>3, <2>6, <3>1 DEF W
  <2>11. \A n \in DOMAIN args' : Compiled(n)' /\ Instruments(args'[n]) =>
            \E i \in DOMAIN flow'.tasks : flow'.tasks[i].instrumented
    BY <2>2, <2>3, <2>4, <2>5 DEF FlowInv
  <2>12. (\E i \in DOMAIN flow'.tasks : flow'.tasks[i].instrumented) =>
            flow'.instrumented \/ \E n \in DOMAIN args' : Compiled(n)' /\ Instruments(args'[n])
    BY <2>2, <2>3, <2>4, <2>5 DEF FlowInv
  <2> QED
    BY <2>8, <2>9, <2>10, <2>11, <2>12 DEF FlowInv
<1>3. CASE Interpret
  <2>1. /\ phase = "options" /\ phase' \in {"options", "crashed"} /\ args' = args /\ Interpreted
    BY <1>3, InterpretFacts DEF Interpreted
  <2>2. SUFFICES ASSUME phase' = "options"  PROVE FlowInv'
    BY <2>1 DEF FlowInv
  <2>3. \A n : Compiled(n)' <=> Compiled(n)
    BY <2>1, <2>2, CompiledSame
  <2> QED
    BY <1>1, <2>1, <2>3 DEF Interpreted
<1>4. CASE EndTask
  <2>1. /\ phase = "options" /\ args' = args /\ task.next \notin DOMAIN ThisTask.opts
        /\ flow'.inputs = flow.inputs /\ flow'.outputs = flow.outputs
        /\ flow'.emitters = flow.emitters /\ flow'.instrumented = flow.instrumented
        /\ CompiledTask \in CompiledTasks /\ flow.tasks \in Seq(CompiledTasks)
        /\ flow'.tasks = Append(flow.tasks, CompiledTask)
    BY <1>4, EndTaskFacts
  <2>2. /\ DOMAIN flow'.tasks = DOMAIN flow.tasks \union {Len(flow.tasks) + 1}
        /\ \A i \in DOMAIN flow.tasks : flow'.tasks[i] = flow.tasks[i]
        /\ flow'.tasks[Len(flow.tasks) + 1] = CompiledTask
        /\ Len(flow.tasks) + 1 \notin DOMAIN flow.tasks
    BY <2>1, Appended
  <2>3. \A n : Compiled(n)' <=> Compiled(n) \/ n = Len(args)
    BY <1>4, CompiledEnd
  <2>4. /\ Len(args) \in DOMAIN args /\ args[Len(args)] = ThisTask
        /\ Len(ThisTask.opts) \in Nat /\ DOMAIN ThisTask.opts = 1..Len(ThisTask.opts)
    BY <2>1, ThisTaskFacts
  <2>5. task.instrumented <=> Instruments(ThisTask)
    <3>1. /\ (task.instrumented <=> \E k \in DOMAIN ThisTask.opts :
                                       k < task.next /\ ThisTask.opts[k].kind = "Instrument")
          /\ task.next \in 1..(Len(ThisTask.opts) + 1)
      BY <2>1 DEF TaskInv
    <3>2. \A k \in DOMAIN ThisTask.opts : k < task.next
      BY <2>1, <2>4, <3>1
    <3> QED
      BY <3>1, <3>2 DEF Instruments
  <2>6. CompiledTask.instrumented <=> task.instrumented \/ AutoInstrumented
    BY DEF CompiledTask
  <2>7. AutoInstrumented => flow.instrumented
    BY DEF AutoInstrumented
  <2>8. /\ flow.inputs = Supplied
        /\ flow.outputs = UNION {CompiledOutputs(args[i].types) : i \in Written("Results")}
        /\ (flow.emitters = 0 <=> Written("WithEmitter") = {})
        /\ (flow.instrumented <=> Written("InstrumentFlow") # {})
        /\ \A n \in DOMAIN args : Compiled(n) /\ Instruments(args[n]) =>
              \E i \in DOMAIN flow.tasks : flow.tasks[i].instrumented
        /\ (\E i \in DOMAIN flow.tasks : flow.tasks[i].instrumented) =>
              flow.instrumented \/ \E n \in DOMAIN args : Compiled(n) /\ Instruments(args[n])
    BY <2>1 DEF FlowInv
  <2>9. /\ \A kind : Written(kind)' = Written(kind)
        /\ Supplied' = Supplied
    BY <2>1 DEF Written, Supplied
  <2>10. \A n \in DOMAIN args' : Compiled(n)' /\ Instruments(args'[n]) =>
            \E i \in DOMAIN flow'.tasks : flow'.tasks[i].instrumented
    <3> SUFFICES ASSUME NEW n \in DOMAIN args', Compiled(n)', Instruments(args'[n])
                 PROVE  \E i \in DOMAIN flow'.tasks : flow'.tasks[i].instrumented
      OBVIOUS
    <3>1. CASE n = Len(args)
      BY <2>1, <2>2, <2>4, <2>5, <2>6, <3>1
    <3>2. CASE n # Len(args)
      BY <2>1, <2>2, <2>3, <2>8, <3>2
    <3> QED
      BY <3>1, <3>2
  <2>11. (\E i \in DOMAIN flow'.tasks : flow'.tasks[i].instrumented) =>
            flow'.instrumented \/ \E n \in DOMAIN args' : Compiled(n)' /\ Instruments(args'[n])
    <3> SUFFICES ASSUME NEW i \in DOMAIN flow'.tasks, flow'.tasks[i].instrumented, ~flow'.instrumented
                 PROVE  \E n \in DOMAIN args' : Compiled(n)' /\ Instruments(args'[n])
      OBVIOUS
    <3>1. CASE i \in DOMAIN flow.tasks
      BY <2>1, <2>2, <2>3, <2>8, <3>1
    <3>2. CASE i = Len(flow.tasks) + 1
      BY <2>1, <2>2, <2>3, <2>4, <2>5, <2>6, <2>7, <3>2
    <3> QED
      BY <2>2, <3>1, <3>2
  <2>12. /\ flow'.inputs = Supplied'
         /\ flow'.outputs = UNION {CompiledOutputs(args'[i].types) : i \in Written("Results")'}
         /\ (flow'.emitters = 0 <=> Written("WithEmitter")' = {})
         /\ (flow'.instrumented <=> Written("InstrumentFlow")' # {})
    BY <2>1, <2>8, <2>9
  <2> QED
    BY <2>10, <2>11, <2>12 DEF FlowInv
<1>5. CASE NoArguments \/ Link \/ Walking
  <2>1. /\ phase # "options" /\ phase' # "options" /\ phase # "crashed"
        /\ UNCHANGED <<args, flow>>
    BY <1>5, WalkFacts DEF NoArguments, Link
  <2>2. \A n : Compiled(n)' <=> Compiled(n)
    BY <2>1, CompiledSame
  <2> QED
    BY <1>1, <2>1, <2>2
<1>6. CASE Done \/ UNCHANGED vars
  <2>1. UNCHANGED <<args, phase, flow>>
    BY <1>6 DEF Done, vars
  <2> QED
    BY <2>1 DEF FlowInv, Compiled, Supplied, Written
<1> QED
  BY <1>2, <1>3, <1>4, <1>5, <1>6 DEF Next

LEMMA ReadReported ==
  ASSUME TypeOK, NEW a \in Arguments, Reading(a)
  PROVE  errors' = {} <=> errors = {} /\ (phase' = "reading" => Clean(a))
<1>1. /\ phase = "reading" /\ (phase' = "reading" \/ phase' = "options")
      /\ (phase' = "options" <=> a.kind = "Task" /\ Compiles(a.fn))
  BY ReadFacts
<1>2. CASE ReadInvalid(a)
  <2>1. errors' = errors \union {a.kind} /\ phase' = "reading" /\ a.kind \in {"NoCall", "Foreign", "ParallelOption", "ContinueOnError"}
    BY <1>1, <1>2 DEF ReadInvalid
  <2> QED
    BY <2>1 DEF Clean
<1>3. CASE ReadParams(a)
  <2>1. /\ errors' = errors \union ErrorsIf(~IsInjective(a.types), "ParamTwice") /\ phase' = "reading"
        /\ a.kind = "Params"
    BY <1>1, <1>3 DEF ReadParams
  <2>2. Clean(a) <=> IsInjective(a.types)
    BY <2>1 DEF Clean
  <2> QED
    BY <2>1, <2>2 DEF ErrorsIf
<1>4. CASE ReadResults(a)
  <2>1. /\ errors' = errors \union ErrorsIf("NoPointer" \in Range(a.types), "NoPointer") /\ phase' = "reading"
        /\ a.kind = "Results"
    BY <1>1, <1>4 DEF ReadResults
  <2>2. Clean(a) <=> "NoPointer" \notin Range(a.types)
    BY <2>1 DEF Clean
  <2> QED
    BY <2>1, <2>2 DEF ErrorsIf
<1>5. CASE ReadFlowOption(a)
  <2>1. errors' = errors /\ a.kind \in {"InstrumentFlow", "WithEmitter", "Concurrency"}
    BY <1>5 DEF ReadFlowOption
  <2> QED
    BY <2>1 DEF Clean
<1>6. CASE ReadTask(a)
  <2>1. /\ a.kind = "Task"
        /\ IF Compiles(a.fn) THEN phase' = "options" /\ errors' = errors
           ELSE errors' = errors \union {"Signature"} /\ phase' = phase
    BY <1>6 DEF ReadTask
  <2> QED
    BY <1>1, <2>1 DEF Clean
<1> QED
  BY <1>2, <1>3, <1>4, <1>5, <1>6 DEF Reading

LEMMA EndReported ==
  ASSUME TypeOK, TaskInv, EndTask
  PROVE  errors' = {} <=>
            errors = {} /\ (WantsInvoke(ThisTask) <=> Outputs(ThisTask.fn) = <<>>)
<1>1. phase = "options" /\ task.next \notin DOMAIN ThisTask.opts /\ errors' = errors \union TaskErrors
  BY EndTaskFacts
<1>2. Len(ThisTask.opts) \in Nat /\ DOMAIN ThisTask.opts = 1..Len(ThisTask.opts)
  BY <1>1, ThisTaskFacts
<1>3. /\ task.next \in 1..(Len(ThisTask.opts) + 1)
      /\ (task.invoke # 0 <=> \E k \in LastBefore(ThisTask.opts, task.next, "Invoke") :
                                 ThisTask.opts[k].value = "true")
  BY <1>1 DEF TaskInv
<1>4. LastBefore(ThisTask.opts, task.next, "Invoke") = LastOf(ThisTask.opts, "Invoke")
  <2>1. \A kind : LastBefore(ThisTask.opts, task.next, kind) = LastOf(ThisTask.opts, kind)
    BY <1>1, <1>2, <1>3, LastBeforeEnd
  <2> QED
    BY <2>1
<1>5. task.invoke # 0 <=> WantsInvoke(ThisTask)
  BY <1>3, <1>4 DEF WantsInvoke
<1>6. TaskErrors = {} <=> (Outputs(ThisTask.fn) = <<>> <=> task.invoke # 0)
  BY DEF TaskErrors, ErrorsIf
<1> QED
  BY <1>1, <1>5, <1>6

LEMMA ErrorsStep ==
  ASSUME TypeOK, LinkInv, TaskInv, ErrorsInv, [Next]_vars
  PROVE  ErrorsInv'
<1>1. CASE \E a \in Arguments : Reading(a)
  <2>1. PICK a \in Arguments : Reading(a)
    BY <1>1
  <2>2. /\ phase = "reading" /\ (phase' = "reading" \/ phase' = "options")
        /\ args' \in Seq(Arguments) /\ Len(args) + 1 \notin DOMAIN args
        /\ DOMAIN args' = DOMAIN args \union {Len(args) + 1} /\ Len(args') = Len(args) + 1
        /\ \A i \in DOMAIN args : args'[i] = args[i]
        /\ args'[Len(args) + 1] = a /\ Last(args') = a
        /\ phase' = "options" => a.kind = "Task"
    BY <2>1, ReadFacts
  <2>3. errors = {} <=> \A i \in DOMAIN args : Clean(args[i])
    BY <2>2 DEF ErrorsInv
  <2>4. errors' = {} <=> errors = {} /\ (phase' = "reading" => Clean(a))
    BY <2>1, ReadReported
  <2>5. CASE phase' = "reading"
    <3>1. errors' = {} <=> \A i \in DOMAIN args' : Clean(args'[i])
      BY <2>2, <2>3, <2>4, <2>5
    <3> QED
      BY <2>5, <3>1 DEF ErrorsInv, Linked
  <2>6. CASE phase' = "options"
    <3>1. task'.next = 1
      BY <2>1, <2>6, ReadFlow DEF NewTask
    <3>2. ThisTask' = a /\ Len(a.opts) \in Nat /\ DOMAIN a.opts = 1..Len(a.opts)
      BY <2>2, <2>6, ArgumentsTyped DEF ThisTask
    <3>3. \A k \in DOMAIN a.opts : ~(k < 1)
      BY <3>2
    <3>4. errors' = {} <=> \A i \in DOMAIN args' : i # Len(args') => Clean(args'[i])
      BY <2>2, <2>3, <2>4, <2>6
    <3> QED
      BY <2>6, <3>1, <3>2, <3>3, <3>4 DEF ErrorsInv, Linked
  <2> QED
    BY <2>2, <2>5, <2>6
<1>2. CASE Interpret
  <2>1. /\ phase = "options" /\ task.next \in DOMAIN ThisTask.opts /\ args' = args /\ OptionReported
        /\ phase' \in {"options", "crashed"} /\ (phase' = "options" => task'.next = task.next + 1)
    BY <1>2, InterpretFacts DEF Interpreted
  <2>2. SUFFICES ASSUME phase' = "options"  PROVE ErrorsInv'
    BY <2>1 DEF ErrorsInv, Linked
  <2>3. errors' = {} <=> errors = {} /\ ValidOption(ThisTask, NextOption)
    BY <2>1 DEF OptionReported
  <2>4. ThisTask' = ThisTask /\ NextOption = ThisTask.opts[task.next]
    BY <2>1 DEF ThisTask, NextOption
  <2>5. Len(ThisTask.opts) \in Nat /\ DOMAIN ThisTask.opts = 1..Len(ThisTask.opts)
    BY <2>1, ThisTaskFacts
  <2>6. \A k \in DOMAIN ThisTask.opts : k < task.next + 1 <=> k < task.next \/ k = task.next
    BY <2>1, <2>5
  <2>7. errors = {} <=> /\ \A i \in DOMAIN args : i # Len(args) => Clean(args[i])
                        /\ \A k \in DOMAIN ThisTask.opts :
                              k < task.next => ValidOption(ThisTask, ThisTask.opts[k])
    BY <2>1 DEF ErrorsInv
  <2>8. errors' = {} <=> /\ \A i \in DOMAIN args : i # Len(args) => Clean(args[i])
                         /\ \A k \in DOMAIN ThisTask.opts :
                               k < task.next + 1 => ValidOption(ThisTask, ThisTask.opts[k])
    BY <2>1, <2>3, <2>4, <2>6, <2>7
  <2> QED
    BY <2>1, <2>2, <2>4, <2>8 DEF ErrorsInv, Linked
<1>3. CASE EndTask
  <2>1. phase = "options" /\ phase' = "reading" /\ args' = args /\ task.next \notin DOMAIN ThisTask.opts
    BY <1>3, EndTaskFacts
  <2>2. /\ Len(args) \in DOMAIN args /\ args[Len(args)] = ThisTask /\ ThisTask.kind = "Task"
        /\ Len(ThisTask.opts) \in Nat /\ DOMAIN ThisTask.opts = 1..Len(ThisTask.opts)
    BY <2>1, ThisTaskFacts
  <2>3. Compiles(ThisTask.fn) /\ task.next \in 1..(Len(ThisTask.opts) + 1)
    BY <2>1 DEF TaskInv
  <2>4. \A k \in DOMAIN ThisTask.opts : k < task.next
    BY <2>1, <2>2, <2>3
  <2>5. errors = {} <=> /\ \A i \in DOMAIN args : i # Len(args) => Clean(args[i])
                        /\ \A k \in DOMAIN ThisTask.opts : ValidOption(ThisTask, ThisTask.opts[k])
    BY <2>1, <2>4 DEF ErrorsInv
  <2>6. Clean(ThisTask) <=> /\ \A k \in DOMAIN ThisTask.opts : ValidOption(ThisTask, ThisTask.opts[k])
                            /\ (WantsInvoke(ThisTask) <=> Outputs(ThisTask.fn) = <<>>)
    BY <2>2, <2>3 DEF Clean
  <2>7. errors' = {} <=> errors = {} /\ (WantsInvoke(ThisTask) <=> Outputs(ThisTask.fn) = <<>>)
    BY <1>3, EndReported
  <2>8. errors' = {} <=> \A i \in DOMAIN args : Clean(args[i])
    BY <2>2, <2>5, <2>6, <2>7
  <2> QED
    BY <2>1, <2>8 DEF ErrorsInv, Linked
<1>4. CASE NoArguments
  <2>1. phase' = "refused" /\ args' = <<>>
    BY <1>4 DEF NoArguments
  <2> QED
    BY <2>1 DEF ErrorsInv, Linked
<1>5. CASE Link
  <2>1. /\ phase = "reading" /\ phase' = "visiting" /\ args' = args /\ args # <<>>
        /\ UNCHANGED <<flow, funcs, visited>>
        /\ errors' = errors \union ErrorsIf(LacksEmitter, "NoEmitter")
              \union ErrorsIf(ProvidedTwice, "ProvidedTwice")
              \union ErrorsIf(~(Provided \subseteq received'), "UnusedOutput")
    BY <1>5 DEF Link
  <2>2. /\ LacksEmitter' <=> LacksEmitter
        /\ ProvidedTwice' <=> ProvidedTwice
        /\ Provided' = Provided
    BY <2>1 DEF LacksEmitter, ProvidedTwice, Provided, Provides
  <2>3. visited' = {}
    BY <2>1 DEF LinkInv
  <2>4. errors' = {} <=> errors = {} /\ ~LacksEmitter /\ ~ProvidedTwice /\ Provided \subseteq received'
    BY <2>1 DEF ErrorsIf
  <2>5. Checked' <=> ~LacksEmitter /\ ~ProvidedTwice /\ Provided \subseteq received'
    BY <2>1, <2>2, <2>3 DEF Checked
  <2> QED
    BY <2>1, <2>4, <2>5 DEF ErrorsInv, Linked
<1>6. CASE Walking
  <2>1. /\ UNCHANGED <<args, flow, task, funcs, providers, received>>
        /\ phase \in {"visiting", "searching", "sorting"}
    BY <1>6, WalkFacts
  <2>2. /\ LacksEmitter' <=> LacksEmitter
        /\ ProvidedTwice' <=> ProvidedTwice
        /\ Provided' = Provided
    BY <2>1 DEF LacksEmitter, ProvidedTwice, Provided, Provides
  <2>3. /\ args # <<>>
        /\ "Cycle" \notin errors => (errors = {} <=> (\A i \in DOMAIN args : Clean(args[i])) /\ Checked)
    BY <2>1 DEF ErrorsInv, Linked
  <2>4. CASE \E t \in queue : Visit(t)
    <3>1. PICK t \in queue : Visit(t)
      BY <2>4
    <3>2. /\ visited' = visited \union {t} /\ phase = "visiting"
          /\ t \in DOMAIN providers => errors' = errors /\ phase' = phase
          /\ t \notin DOMAIN providers => errors' = errors \union ErrorsIf(t \notin flow.inputs, "NoProvider")
          /\ phase' \in {"visiting", "crashed"}
      BY <3>1 DEF Visit
    <3>3. SUFFICES ASSUME phase' = "visiting"  PROVE ErrorsInv'
      BY <3>2 DEF ErrorsInv, Linked
    <3>4. Checked' <=> Checked /\ t \in DOMAIN providers \union flow.inputs
      BY <2>1, <2>2, <3>2, <3>3 DEF Checked
    <3>5. /\ errors' = {} <=> errors = {} /\ t \in DOMAIN providers \union flow.inputs
          /\ "Cycle" \in errors => "Cycle" \in errors'
      BY <3>2 DEF ErrorsIf
    <3> QED
      BY <2>1, <2>3, <3>3, <3>4, <3>5 DEF ErrorsInv, Linked
  <2>5. CASE EndVisits
    <3>1. /\ errors' = errors \union ErrorsIf(Unused # {}, "UnusedInput") /\ phase = "visiting"
          /\ phase' = "searching" /\ visited' = visited
      BY <2>5 DEF EndVisits, walks
    <3>2. Unused' = Unused
      BY <2>1, <3>1 DEF Unused
    <3>3. Checked' <=> Checked /\ Unused = {}
      BY <2>1, <2>2, <3>1, <3>2 DEF Checked
    <3>4. /\ errors' = {} <=> errors = {} /\ Unused = {}
          /\ "Cycle" \in errors => "Cycle" \in errors'
      BY <3>1 DEF ErrorsIf
    <3> QED
      BY <2>1, <2>3, <3>1, <3>3, <3>4 DEF ErrorsInv, Linked
  <2>6. CASE \E i \in DOMAIN funcs : \E t \in Unsearched(i) : SearchBelow(i, t) /\ t \in Range(path)
    <3>1. phase' = "refused" /\ "Cycle" \in errors'
      BY <2>6, BelowFacts
    <3> QED
      BY <2>1, <2>3, <3>1 DEF ErrorsInv, Linked
  <2>7. ASSUME errors' = errors, visited' = visited, phase # "visiting",
               phase' \in {"searching", "sorting", "refused", "accepted"}
        PROVE  ErrorsInv'
    <3>1. Checked' <=> Checked
      BY <2>1, <2>2, <2>7 DEF Checked, Unused
    <3> QED
      BY <2>1, <2>3, <2>7, <3>1 DEF ErrorsInv, Linked
  <2>8. CASE \E i \in DOMAIN funcs : \E t \in Unsearched(i) : SearchBelow(i, t) /\ t \notin Range(path)
    <3>1. errors' = errors /\ visited' = visited /\ phase = "searching" /\ phase' = phase
      BY <2>8, BelowFacts
    <3> QED
      BY <2>7, <3>1
  <2>9. CASE SearchBack \/ EndSearch
    <3>1. /\ errors' = errors /\ visited' = visited /\ phase = "searching"
          /\ phase' \in {"searching", "sorting", "refused"}
      BY <2>9 DEF SearchBack, EndSearch, Searches, walks
    <3> QED
      BY <2>7, <3>1
  <2>10. CASE \/ \E i \in DOMAIN funcs : SortFrom(i)
              \/ \E t \in DOMAIN providers : SortBelow(t)
              \/ SortBack \/ Accept
    <3>1. errors' = errors /\ visited' = visited /\ phase = "sorting" /\ phase' \in {"sorting", "accepted"}
      BY <2>10 DEF SortFrom, SortBelow, SortBack, Accept, Sorts
    <3> QED
      BY <2>7, <3>1
  <2> QED
    BY <1>6, <2>4, <2>5, <2>6, <2>8, <2>9, <2>10 DEF Walking
<1>7. CASE Done \/ UNCHANGED vars
  <2>1. UNCHANGED <<args, phase, flow, task, funcs, providers, received, visited, errors>>
    BY <1>7 DEF Done, vars, walks
  <2> QED
    <3>1. Checked' <=> Checked
      <4>1. /\ LacksEmitter' <=> LacksEmitter
            /\ ProvidedTwice' <=> ProvidedTwice
            /\ Provided' = Provided /\ Unused' = Unused
        BY <2>1 DEF LacksEmitter, ProvidedTwice, Provided, Provides, Unused
      <4> QED
        BY <2>1, <4>1 DEF Checked
    <3>2. ThisTask' = ThisTask
      BY <2>1 DEF ThisTask
    <3> QED
      BY <2>1, <3>1, <3>2 DEF ErrorsInv, Linked
<1> QED
  BY <1>1, <1>2, <1>3, <1>4, <1>5, <1>6, <1>7 DEF Next

-----------------------------------------------------------------------------
(* Sentinels, and what functions provide and wait for                      *)

LEMMA Sentinel ==
  /\ \A n \in Nat : Invoked(n) \notin UserTypes /\ Predicted(n) \notin UserTypes
  /\ \A m, n : Invoked(m) # Predicted(n)
  /\ \A m, n : Invoked(m) = Invoked(n) => m = n
  /\ \A m, n : Predicted(m) = Predicted(n) => m = n
<1>1. \A n \in Nat : Invoked(n) \in {"invoke", "predicate"} \X Nat /\ Predicted(n) \in {"invoke", "predicate"} \X Nat
  BY DEF Invoked, Predicted
<1>2. \A n \in Nat : Invoked(n) \notin UserTypes /\ Predicted(n) \notin UserTypes
  BY <1>1, SentinelsApart
<1>3. \A m, n : Invoked(m)[1] = "invoke" /\ Predicted(n)[1] = "predicate" /\ Invoked(m)[2] = m /\ Predicted(n)[2] = n
  BY DEF Invoked, Predicted
<1>4. \A m, n : Invoked(m) # Predicted(n)
  BY <1>3
<1>5. \A m, n : Invoked(m) = Invoked(n) => m = n
  BY <1>3
<1>6. \A m, n : Predicted(m) = Predicted(n) => m = n
  BY <1>3
<1> QED
  BY <1>2, <1>4, <1>5, <1>6

LEMMA FunctionFacts ==
  ASSUME TypeOK, FuncsInv, phase # "crashed", NEW i \in DOMAIN funcs
  PROVE  /\ funcs[i].of \in DOMAIN args /\ Compiled(funcs[i].of) /\ args[funcs[i].of] \in Arguments
         /\ args[funcs[i].of].kind = "Task" /\ FunctionOf(funcs[i], args[funcs[i].of])
         /\ funcs[i].isPredicate \in BOOLEAN
         /\ funcs[i].invoke \in Nat /\ funcs[i].predicate \in Nat
         /\ funcs[i].invoke <= flow.invokeTypeCnt /\ flow.invokeTypeCnt \in Nat
         /\ Outputs(args[funcs[i].of].fn) \in Seq(UserTypes) /\ Inputs(args[funcs[i].of].fn) \in Seq(UserTypes)
         /\ \A k \in LastOf(args[funcs[i].of].opts, "Predicate") :
               Inputs(args[funcs[i].of].opts[k].fn) \in Seq(UserTypes)
<1>1. /\ Compiled(funcs[i].of) /\ FunctionOf(funcs[i], args[funcs[i].of])
      /\ funcs[i].invoke <= flow.invokeTypeCnt
  BY DEF FuncsInv
<1>2. funcs[i] \in Functions /\ flow \in Flows /\ args \in Seq(Arguments)
  BY DEF TypeOK
<1>3. /\ funcs[i].isPredicate \in BOOLEAN /\ funcs[i].invoke \in Nat /\ funcs[i].predicate \in Nat
  BY <1>2 DEF Functions
<1>4. flow.invokeTypeCnt \in Nat
  BY <1>2 DEF Flows
<1>5. /\ funcs[i].of \in DOMAIN args /\ args[funcs[i].of].kind = "Task"
  BY <1>1 DEF Compiled
<1>6. args[funcs[i].of] \in Arguments
  BY <1>2, <1>5
<1>7. /\ Outputs(args[funcs[i].of].fn) \in Seq(UserTypes) /\ Inputs(args[funcs[i].of].fn) \in Seq(UserTypes)
      /\ \A k \in LastOf(args[funcs[i].of].opts, "Predicate") :
            Inputs(args[funcs[i].of].opts[k].fn) \in Seq(UserTypes)
  BY <1>5, <1>6, ArgumentsTyped DEF LastOf
<1> QED
  BY <1>1, <1>3, <1>4, <1>5, <1>6, <1>7

LEMMA RangeTyped ==
  ASSUME NEW S, NEW s \in Seq(S)
  PROVE  Range(s) \subseteq S
<1>1. DOMAIN s = 1..Len(s) /\ \A n \in 1..Len(s) : s[n] \in S
  BY LenProperties, ElementOfSeq
<1> QED
  BY <1>1 DEF Range

(* What a function provides: a task its results and the sentinel of its     *)
(* Invoke, a predicate the sentinel of its outcome.                         *)
LEMMA ProvidesFacts ==
  ASSUME TypeOK, FuncsInv, phase # "crashed", NEW i \in DOMAIN funcs
  PROVE  /\ \A t \in UserTypes :
               t \in Provides(funcs[i]) <=> ~funcs[i].isPredicate /\ t \in Gives(args[funcs[i].of])
         /\ \A n \in Nat : Predicted(n) \in Provides(funcs[i]) <=>
                             funcs[i].isPredicate /\ funcs[i].predicate = n
         /\ \A n \in Nat : Invoked(n) \in Provides(funcs[i]) <=> funcs[i].invoke = n /\ n # 0
         /\ Provides(funcs[i]) \subseteq UserTypes \union {Predicted(n) : n \in Nat} \union {Invoked(n) : n \in Nat}
         /\ (WantsInvoke(args[funcs[i].of]) <=> Outputs(args[funcs[i].of].fn) = <<>>)
               => Provides(funcs[i]) # {}
<1> DEFINE f == funcs[i]
           a == args[f.of]
<1>1. /\ f.isPredicate \in BOOLEAN /\ f.invoke \in Nat /\ f.predicate \in Nat
      /\ FunctionOf(f, a) /\ Outputs(a.fn) \in Seq(UserTypes)
  BY FunctionFacts
<1>2. Range(Outputs(a.fn)) \subseteq UserTypes
  BY <1>1, RangeTyped
<1>3. Provides(f) = Range(f.outs) \union IF f.invoke = 0 THEN {} ELSE {Invoked(f.invoke)}
  BY DEF Provides
<1> HIDE DEF f, a
<1>4. CASE f.isPredicate
  <2>1. f.outs = <<Predicted(f.predicate)>> /\ f.invoke = 0
    BY <1>1, <1>4 DEF FunctionOf
  <2>2. Range(f.outs) = {Predicted(f.predicate)}
    BY <2>1 DEF Range
  <2>3. Provides(f) = {Predicted(f.predicate)}
    BY <1>3, <2>1, <2>2
  <2> QED
    BY <1>1, <1>4, <2>1, <2>3, Sentinel DEF f, a
<1>5. CASE ~f.isPredicate
  <2>1. f.outs = Outputs(a.fn) /\ (f.invoke # 0 <=> WantsInvoke(a))
    BY <1>1, <1>5 DEF FunctionOf
  <2>2. Provides(f) = Gives(a) \union IF f.invoke = 0 THEN {} ELSE {Invoked(f.invoke)}
    BY <1>3, <2>1 DEF Gives
  <2>3. Gives(a) \subseteq UserTypes
    BY <1>2 DEF Gives
  <2>4. (WantsInvoke(a) <=> Outputs(a.fn) = <<>>) => Provides(f) # {}
    <3>1. Outputs(a.fn) # <<>> => Gives(a) # {}
      BY <1>1, Shortened DEF Gives
    <3> QED
      BY <2>1, <2>2, <3>1
  <2>5. \A t \in UserTypes : t \in Provides(f) <=> t \in Gives(a)
    BY <1>1, <2>2, Sentinel
  <2>6. \A n \in Nat : Predicted(n) \notin Provides(f)
    BY <2>2, <2>3, Sentinel
  <2>7. \A n \in Nat : Invoked(n) \in Provides(f) <=> f.invoke = n /\ n # 0
    BY <2>2, <2>3, Sentinel
  <2>8. Provides(f) \subseteq UserTypes \union {Predicted(n) : n \in Nat} \union {Invoked(n) : n \in Nat}
    BY <1>1, <2>2, <2>3
  <2> QED
    BY <1>5, <2>4, <2>5, <2>6, <2>7, <2>8 DEF f, a
<1> QED
  BY <1>4, <1>5

LEMMA OneProvider ==
  ASSUME ProvidersKnown, ~ProvidedTwice, NEW i \in DOMAIN funcs, NEW t \in Provides(funcs[i])
  PROVE  t \in DOMAIN providers /\ providers[t] = i
<1>1. t \in DOMAIN providers
  BY DEF ProvidersKnown, Provided
<1>2. providers[t] \in DOMAIN funcs /\ t \in Provides(funcs[providers[t]])
  BY <1>1 DEF ProvidersKnown
<1> QED
  BY <1>1, <1>2 DEF ProvidedTwice

-----------------------------------------------------------------------------
(* The types that are needed                                               *)

LEMMA ReachStep ==
  ASSUME TypeOK, LinkInv, ReachInv, [Next]_vars
  PROVE  ReachInv'
<1>1. flow.inputs \subseteq UserTypes /\ flow.invokeTypeCnt \in Nat
  <2>1. flow \in Flows
    BY DEF TypeOK
  <2>2. flow.inputs \in SUBSET UserTypes
    BY <2>1 DEF Flows
  <2>3. flow.invokeTypeCnt \in Nat
    BY <2>1 DEF Flows
  <2> QED
    BY <2>2, <2>3
<1>2. CASE \/ \E a \in Arguments : Reading(a)
           \/ Interpret \/ EndTask \/ NoArguments
  <2>1. ~Linked'
    <3>1. ASSUME NEW a \in Arguments, Reading(a)  PROVE ~Linked'
      BY <3>1, ReadFacts DEF Linked
    <3>2. CASE Interpret
      BY <3>2, InterpretFacts DEF Linked, Interpreted
    <3>3. CASE EndTask
      BY <3>3, EndTaskFacts DEF Linked
    <3>4. CASE NoArguments
      BY <3>4 DEF NoArguments, Linked
    <3> QED
      BY <1>2, <3>1, <3>2, <3>3, <3>4
  <2> QED
    BY <2>1 DEF ReachInv
<1>3. CASE Link
  <2>1. /\ phase = "reading" /\ phase' = "visiting" /\ queue' = flow.outputs \union Sentinels
        /\ visited' = visited /\ flow' = flow
    BY <1>3 DEF Link
  <2>2. visited' = {} /\ Sentinels' = Sentinels
    BY <2>1 DEF LinkInv, Sentinels
  <2> QED
    BY <2>1, <2>2 DEF ReachInv
<1>4. CASE Walking
  <2>1. /\ UNCHANGED <<args, flow, task, funcs, providers, received>>
        /\ phase \in {"visiting", "searching", "sorting"}
    BY <1>4, WalkFacts
  <2>2. Sentinels' = Sentinels /\ Waited' = Waited
    BY <2>1 DEF Sentinels, Waited
  <2>3. /\ flow.outputs \union Sentinels \subseteq visited \union queue
        /\ \A t \in visited \intersect DOMAIN providers :
              Range(funcs[providers[t]].deps) \subseteq visited \union queue
        /\ visited \union queue \subseteq flow.outputs \union Sentinels \union Waited
        /\ visited \intersect Sentinels \subseteq DOMAIN providers
        /\ phase # "visiting" => queue = {}
    BY <2>1 DEF ReachInv, Linked
  <2>4. CASE \E t \in queue : Visit(t)
    <3>1. PICK t \in queue : Visit(t)
      BY <2>4
    <3>2. visited' = visited \union {t} /\ phase = "visiting"
      BY <3>1 DEF Visit
    <3>3. CASE t \in DOMAIN providers
      <4>1. queue' = (queue \union Range(funcs[providers[t]].deps)) \ visited' /\ phase' = phase
        BY <3>1, <3>3 DEF Visit
      <4>2. Range(funcs[providers[t]].deps) \subseteq Waited
        <5>1. providers[t] \in DOMAIN funcs
          BY <2>1, <3>3 DEF LinkInv, Linked, ProvidersKnown
        <5> QED
          BY <5>1 DEF Waited
      <4>3. /\ flow.outputs \union Sentinels \subseteq visited' \union queue'
            /\ visited' \union queue' \subseteq flow.outputs \union Sentinels \union Waited
            /\ visited' \intersect Sentinels \subseteq DOMAIN providers
        BY <2>3, <3>1, <3>2, <3>3, <4>1, <4>2
      <4>4. \A u \in visited' \intersect DOMAIN providers :
               Range(funcs[providers[u]].deps) \subseteq visited' \union queue'
        BY <2>3, <3>2, <4>1
      <4> QED
        BY <2>1, <2>2, <3>2, <4>1, <4>3, <4>4 DEF ReachInv
    <3>4. CASE t \notin DOMAIN providers
      <4>1. /\ queue' = queue \ {t}
            /\ phase' = IF t \in Sentinels \ flow.inputs THEN "crashed" ELSE "visiting"
        BY <3>1, <3>4 DEF Visit
      <4>2. SUFFICES ASSUME Linked'  PROVE ReachInv'
        BY DEF ReachInv
      <4>3. phase' = "visiting" /\ t \notin Sentinels \ flow.inputs
        BY <4>1, <4>2 DEF Linked
      <4>4. t \notin Sentinels
        <5>1. \A n \in 1..flow.invokeTypeCnt : Invoked(n) \notin flow.inputs
          BY <1>1, Sentinel
        <5> QED
          BY <4>3, <5>1 DEF Sentinels
      <4>5. /\ flow.outputs \union Sentinels \subseteq visited' \union queue'
            /\ visited' \union queue' \subseteq flow.outputs \union Sentinels \union Waited
            /\ visited' \intersect Sentinels \subseteq DOMAIN providers
        BY <2>3, <3>1, <3>2, <4>1, <4>4
      <4>6. \A u \in visited' \intersect DOMAIN providers :
               Range(funcs[providers[u]].deps) \subseteq visited' \union queue'
        BY <2>3, <3>1, <3>2, <3>4, <4>1
      <4> QED
        BY <2>1, <2>2, <4>3, <4>5, <4>6 DEF ReachInv
    <3> QED
      BY <3>3, <3>4
  <2>5. CASE EndVisits
    <3>1. UNCHANGED <<visited, queue>> /\ queue = {}
      BY <2>5 DEF EndVisits, walks
    <3> QED
      BY <2>1, <2>2, <2>3, <3>1 DEF ReachInv
  <2>6. ASSUME UNCHANGED <<visited, queue>>, phase # "visiting"
        PROVE  ReachInv'
    BY <2>1, <2>2, <2>3, <2>6 DEF ReachInv
  <2>7. CASE \/ \E i \in DOMAIN funcs : \E t \in Unsearched(i) : SearchBelow(i, t)
             \/ SearchBack \/ EndSearch
    <3>1. UNCHANGED <<visited, queue>> /\ phase = "searching"
      BY <2>7 DEF SearchBelow, SearchBack, EndSearch, Searches, walks
    <3> QED
      BY <2>6, <3>1
  <2>8. CASE \/ \E i \in DOMAIN funcs : SortFrom(i)
             \/ \E t \in DOMAIN providers : SortBelow(t)
             \/ SortBack \/ Accept
    <3>1. UNCHANGED <<visited, queue>> /\ phase = "sorting"
      BY <2>8 DEF SortFrom, SortBelow, SortBack, Accept, Sorts
    <3> QED
      BY <2>6, <3>1
  <2> QED
    BY <1>4, <2>4, <2>5, <2>7, <2>8 DEF Walking
<1>5. CASE Done \/ UNCHANGED vars
  <2>1. UNCHANGED <<args, phase, flow, funcs, providers, visited, queue>>
    BY <1>5 DEF Done, vars, walks
  <2> QED
    BY <2>1 DEF ReachInv, Linked, Sentinels, Waited
<1> QED
  BY <1>2, <1>3, <1>4, <1>5 DEF Next

(* Where everything provided is received and no functions wait for each     *)
(* other, every function was reached from the results or a sentinel, for    *)
(* one that was not is waited for by another.                               *)
LEMMA EveryFunctionReached ==
  ASSUME TypeOK, LinkInv, FuncsInv, ReachInv, Linked, phase # "visiting",
         ~ProvidedTwice, Provided \subseteq received, ~Circle,
         \A i \in DOMAIN funcs : Provides(funcs[i]) # {}
  PROVE  \A i \in DOMAIN funcs : Range(funcs[i].deps) \subseteq visited
<1> DEFINE U == {i \in DOMAIN funcs : Provides(funcs[i]) \intersect visited = {}}
           R == [i \in DOMAIN funcs |->
                    {k \in DOMAIN funcs :
                        \E t \in Range(funcs[k].deps) \intersect DOMAIN providers : providers[t] = i}]
<1>1. /\ flow.outputs \union Sentinels \subseteq visited
      /\ \A t \in visited \intersect DOMAIN providers : Range(funcs[providers[t]].deps) \subseteq visited
  BY DEF ReachInv
<1>2. ProvidersKnown /\ received = flow.outputs \union Received
  BY DEF LinkInv
<1>3. phase # "crashed"
  BY DEF Linked
<1>4. ASSUME NEW i \in DOMAIN funcs, i \notin U
      PROVE  Range(funcs[i].deps) \subseteq visited
  <2>1. PICK t \in Provides(funcs[i]) : t \in visited
    BY <1>4
  <2>2. t \in DOMAIN providers /\ providers[t] = i
    BY <1>2, <2>1, OneProvider
  <2> QED
    BY <1>1, <2>1, <2>2
<1>5. ASSUME NEW i \in U
      PROVE  \E k \in U : k \in R[i]
  <2>1. i \in DOMAIN funcs
    OBVIOUS
  <2>2. PICK t : t \in Provides(funcs[i])
    BY <2>1
  <2>3. t \in DOMAIN providers /\ providers[t] = i /\ t \notin visited
    BY <1>2, <2>1, <2>2, OneProvider
  <2>4. t \in received
    BY <2>1, <2>2 DEF Provided
  <2>5. t \notin flow.outputs
    BY <1>1, <2>3
  <2>6. t \notin {Invoked(funcs[k].invoke) : k \in {j \in DOMAIN funcs : funcs[j].invoke # 0}}
    <3>1. ASSUME NEW k \in DOMAIN funcs, funcs[k].invoke # 0  PROVE Invoked(funcs[k].invoke) \in visited
      <4>1. /\ funcs[k].invoke \in Nat /\ funcs[k].invoke <= flow.invokeTypeCnt /\ flow.invokeTypeCnt \in Nat
        BY <1>3, FunctionFacts
      <4>2. funcs[k].invoke \in 1..flow.invokeTypeCnt
        BY <3>1, <4>1
      <4> QED
        BY <1>1, <4>2 DEF Sentinels
    <3> QED
      BY <2>3, <3>1
  <2>7. PICK k \in DOMAIN funcs : t \in Range(funcs[k].deps)
    <3>1. t \in Received
      BY <1>2, <2>4, <2>5
    <3> DEFINE V == UNION {Range(funcs[j].deps) : j \in DOMAIN funcs}
               W == {Invoked(funcs[j].invoke) : j \in {k \in DOMAIN funcs : funcs[k].invoke # 0}}
    <3>2. Received = V \union W
      BY DEF Received
    <3>3. t \notin W
      BY <2>6
    <3>4. t \in V
      <4> HIDE DEF V, W
      <4> QED
        BY <3>1, <3>2, <3>3
    <3> QED
      BY <3>4
  <2>8. k \in U
    BY <1>4, <2>3, <2>7
  <2>9. k \in R[i]
    BY <2>1, <2>3, <2>7
  <2> QED
    BY <2>8, <2>9
<1>6. U = {}
  <2>1. SUFFICES ASSUME U # {}  PROVE FALSE
    OBVIOUS
  <2>2. IsFiniteSet(DOMAIN funcs)
    <3>1. Len(funcs) \in Nat /\ DOMAIN funcs = 1..Len(funcs)
      BY LenProperties DEF TypeOK
    <3> QED
      BY <3>1, FS_Interval
  <2>3. U \subseteq DOMAIN funcs
    OBVIOUS
  <2>4. \E S \in SUBSET U : S # {} /\ AllAreLed(R, S)
    <3>1. AllLead(R, U)
      BY <1>5 DEF AllLead
    <3> HIDE DEF U, R
    <3> QED
      BY <2>1, <2>2, <2>3, <3>1, LedTo
  <2>5. PICK S \in SUBSET U : S # {} /\ \A k \in S : \E i \in S : k \in R[i]
    BY <2>4 DEF AllAreLed
  <2>6. \A k \in S : \E t \in Range(funcs[k].deps) \intersect DOMAIN providers : providers[t] \in S
    BY <2>5
  <2>7. S \in SUBSET DOMAIN funcs /\ WaitInCircle(S)
    BY <2>5, <2>6 DEF WaitInCircle
  <2> QED
    BY <2>7 DEF Circle
<1> QED
  BY <1>4, <1>6
-----------------------------------------------------------------------------
(* Sorting                                                                 *)

Distinct(s) == \A m, n \in 1..Len(s) : s[m] = s[n] => m = n

(* The functions toposort is in wait one for the next, and those in the     *)
(* list come after what they wait for.                                      *)
SortInv ==
    phase \in {"sorting", "accepted"} =>
        /\ topo \in Seq(DOMAIN funcs) /\ stack \in Seq(DOMAIN funcs)
        /\ Distinct(topo) /\ Distinct(stack) /\ Range(topo) \intersect Range(stack) = {}
        /\ \A n \in 1..(Len(stack) - 1) : \E t \in Dependencies(stack[n]) : providers[t] = stack[n + 1]
        /\ \A n \in 1..Len(topo) : \A t \in Dependencies(topo[n]) : \E m \in 1..(n - 1) : topo[m] = providers[t]
        /\ phase = "accepted" => Range(topo) = DOMAIN funcs

LEMMA DistinctAppended ==
  ASSUME NEW S, NEW s \in Seq(S), NEW e \in S, Distinct(s), e \notin Range(s)
  PROVE  Distinct(Append(s, e))
<1>1. /\ Len(Append(s, e)) = Len(s) + 1 /\ Len(s) \in Nat /\ DOMAIN s = 1..Len(s)
      /\ \A n \in DOMAIN s : Append(s, e)[n] = s[n]
      /\ Append(s, e)[Len(s) + 1] = e
  BY Appended
<1>2. \A n \in 1..Len(s) : s[n] # e
  BY <1>1 DEF Range
<1>3. \A k \in 1..(Len(s) + 1) : k \in 1..Len(s) \/ k = Len(s) + 1
  BY <1>1
<1> QED
  BY <1>1, <1>2, <1>3 DEF Distinct

LEMMA DistinctShortened ==
  ASSUME NEW S, NEW s \in Seq(S), s # <<>>, Distinct(s)
  PROVE  Distinct(Front(s)) /\ Last(s) \notin Range(Front(s))
<1>1. /\ Len(s) \in Nat \ {0} /\ Last(s) = s[Len(s)]
      /\ Len(Front(s)) = Len(s) - 1 /\ DOMAIN Front(s) = 1..(Len(s) - 1)
      /\ \A n \in 1..(Len(s) - 1) : Front(s)[n] = s[n]
  BY Shortened
<1>2. \A n \in 1..(Len(s) - 1) : n \in 1..Len(s) /\ n # Len(s)
  BY <1>1
<1>3. Distinct(Front(s))
  BY <1>1, <1>2 DEF Distinct
<1>4. Len(s) \in 1..Len(s)
  BY <1>1
<1>5. \A n \in 1..(Len(s) - 1) : Front(s)[n] # s[Len(s)]
  BY <1>1, <1>2, <1>4 DEF Distinct
<1> QED
  BY <1>1, <1>3, <1>5 DEF Range

(* toposort does not meet a function that it is in, which would be in a     *)
(* circle.                                                                  *)
LEMMA NeverInTwice ==
  ASSUME LinkInv, SortInv, phase = "sorting", ~Circle, stack # <<>>,
         NEW t \in Dependencies(Last(stack))
  PROVE  providers[t] \in DOMAIN funcs /\ providers[t] \notin Range(stack)
<1>1. \A u \in DOMAIN providers : providers[u] \in DOMAIN funcs
  BY DEF LinkInv, Linked, ProvidersKnown
<1>2. providers[t] \in DOMAIN funcs
  BY <1>1 DEF Dependencies
<1>3. stack \in Seq(DOMAIN funcs)
  BY DEF SortInv
<1>4. /\ Len(stack) \in Nat \ {0} /\ DOMAIN stack = 1..Len(stack) /\ Last(stack) = stack[Len(stack)]
      /\ \A n \in 1..Len(stack) : stack[n] \in DOMAIN funcs
  BY <1>3, Shortened, ElementOfSeq
<1>5. ASSUME NEW m \in 1..Len(stack), stack[m] = providers[t]
      PROVE  FALSE
  <2> DEFINE S == {stack[n] : n \in m..Len(stack)}
  <2>1. \A n \in m..Len(stack) : n \in 1..Len(stack)
    BY <1>4
  <2>2. S \in SUBSET DOMAIN funcs
    BY <1>4, <2>1
  <2>3. S # {} /\ providers[t] \in S
    <3>1. m \in m..Len(stack)
      BY <1>4
    <3> QED
      BY <1>5, <3>1
  <2>4. ASSUME NEW n \in m..Len(stack)
        PROVE  \E u \in Dependencies(stack[n]) : providers[u] \in S
    <3>1. CASE n = Len(stack)
      BY <1>4, <2>3, <3>1
    <3>2. CASE n # Len(stack)
      <4>1. n \in 1..(Len(stack) - 1) /\ n + 1 \in m..Len(stack)
        <5>1. /\ n \in Nat /\ m \in Nat /\ Len(stack) \in Nat
              /\ n <= Len(stack) /\ m <= n /\ 1 <= m
          BY <1>4
        <5> QED
          BY <3>2, <5>1
      <4>2. PICK u \in Dependencies(stack[n]) : providers[u] = stack[n + 1]
        BY <4>1 DEF SortInv
      <4> QED
        BY <4>1, <4>2
    <3> QED
      BY <3>1, <3>2
  <2>5. \A k \in S : \E u \in Dependencies(k) : providers[u] \in S
    BY <2>4
  <2> HIDE DEF S
  <2>6. WaitInCircle(S)
    BY <2>3, <2>5 DEF WaitInCircle, Dependencies
  <2> QED
    BY <2>2, <2>6 DEF Circle
<1> QED
  BY <1>2, <1>4, <1>5 DEF Range

LEMMA SortStep ==
  ASSUME TypeOK, LinkInv, CycleInv, SortInv, [Next]_vars
  PROVE  SortInv'
<1>1. CASE \/ \E a \in Arguments : Reading(a)
           \/ Interpret \/ EndTask \/ NoArguments \/ Link
  <2>1. phase' \notin {"sorting", "accepted"}
    <3>1. ASSUME NEW a \in Arguments, Reading(a)  PROVE phase' \notin {"sorting", "accepted"}
      BY <3>1, ReadFacts
    <3>2. CASE Interpret
      BY <3>2, InterpretFacts DEF Interpreted
    <3>3. CASE EndTask
      BY <3>3, EndTaskFacts
    <3>4. CASE NoArguments \/ Link
      BY <3>4 DEF NoArguments, Link
    <3> QED
      BY <1>1, <3>1, <3>2, <3>3, <3>4
  <2> QED
    BY <2>1 DEF SortInv
<1>2. CASE Walking
  <2>0. UNCHANGED <<args, flow, funcs, providers>>
    BY <1>2, WalkFacts
  <2> DEFINE Moved ==
         /\ topo' \in Seq(DOMAIN funcs) /\ stack' \in Seq(DOMAIN funcs)
         /\ Distinct(topo') /\ Distinct(stack') /\ Range(topo') \intersect Range(stack') = {}
         /\ \A n \in 1..(Len(stack') - 1) : \E t \in Dependencies(stack'[n]) : providers[t] = stack'[n + 1]
         /\ \A n \in 1..Len(topo') : \A t \in Dependencies(topo'[n]) :
               \E m \in 1..(n - 1) : topo'[m] = providers[t]
         /\ phase' = "accepted" => Range(topo') = DOMAIN funcs
  <2>9. Moved => SortInv'
    BY <2>0 DEF SortInv, Dependencies, Distinct
  <2> HIDE DEF Moved
  <2>1. CASE \/ \E t \in queue : Visit(t)
             \/ EndVisits
             \/ \E i \in DOMAIN funcs : \E t \in Unsearched(i) : SearchBelow(i, t)
             \/ SearchBack
    <3>1. phase' \notin {"sorting", "accepted"}
      BY <2>1 DEF Visit, EndVisits, SearchBelow, SearchBack, Searches
    <3> QED
      BY <3>1 DEF SortInv
  <2>2. CASE EndSearch
    <3>1. stack' = <<>> /\ topo' = <<>> /\ phase' # "accepted"
      BY <2>2 DEF EndSearch, LinkInv, walks
    <3>2. /\ topo' \in Seq(DOMAIN funcs') /\ stack' \in Seq(DOMAIN funcs')
          /\ Len(topo') = 0 /\ Len(stack') = 0 /\ DOMAIN topo' = {}
      BY <3>1
    <3> QED
      BY <3>1, <3>2 DEF SortInv, Distinct, Range
  <2>3. CASE \/ \E i \in DOMAIN funcs : SortFrom(i)
             \/ \E t \in DOMAIN providers : SortBelow(t)
             \/ SortBack \/ Accept
    <3> DEFINE F == DOMAIN funcs
    <3>1. phase = "sorting" /\ ~Circle
      BY <2>3 DEF SortFrom, SortBelow, SortBack, Accept, Sorts, CycleInv
    <3>2. /\ topo \in Seq(F) /\ stack \in Seq(F)
          /\ Distinct(topo) /\ Distinct(stack) /\ Range(topo) \intersect Range(stack) = {}
          /\ \A n \in 1..(Len(stack) - 1) : \E t \in Dependencies(stack[n]) : providers[t] = stack[n + 1]
          /\ \A n \in 1..Len(topo) : \A t \in Dependencies(topo[n]) :
                \E m \in 1..(n - 1) : topo[m] = providers[t]
      BY <3>1 DEF SortInv
    <3>3. CASE \E i \in DOMAIN funcs : SortFrom(i)
      <4>1. PICK i \in F : SortFrom(i)
        BY <3>3
      <4>2. stack' = <<i>> /\ topo' = topo /\ phase' = phase /\ i \notin Range(topo)
        BY <4>1 DEF SortFrom
      <4>3. stack' \in Seq(F) /\ Len(stack') = 1 /\ Range(stack') = {i} /\ 1..(Len(stack') - 1) = {}
        BY <4>2 DEF Range
      <4>4. Distinct(stack')
        BY <4>3 DEF Distinct
      <4> QED
        BY <2>9, <3>1, <3>2, <4>2, <4>3, <4>4 DEF Moved
    <3>4. CASE \E t \in DOMAIN providers : SortBelow(t)
      <4>1. PICK t \in DOMAIN providers : SortBelow(t)
        BY <3>4
      <4> DEFINE p == providers[t]
      <4>2. /\ stack # <<>> /\ t \in Dependencies(Last(stack)) /\ p \notin Range(topo)
            /\ stack' = Append(stack, p) /\ topo' = topo /\ phase' = phase
        BY <4>1 DEF SortBelow, IsFirst, Unsorted
      <4>3. p \in F /\ p \notin Range(stack)
        BY <3>1, <4>2, NeverInTwice
      <4> HIDE DEF F, p
      <4>4. /\ Len(stack) \in Nat \ {0} /\ DOMAIN stack = 1..Len(stack) /\ Last(stack) = stack[Len(stack)]
        BY <3>2, <4>2, Shortened
      <4>5. /\ stack' \in Seq(F) /\ Len(stack') = Len(stack) + 1
            /\ \A n \in DOMAIN stack : stack'[n] = stack[n]
            /\ stack'[Len(stack) + 1] = p /\ Range(stack') = Range(stack) \union {p}
        BY <3>2, <4>2, <4>3, Appended
      <4>6. Distinct(stack')
        BY <3>2, <4>2, <4>3, DistinctAppended
      <4>7. ASSUME NEW n \in 1..(Len(stack') - 1)
            PROVE  \E u \in Dependencies(stack'[n]) : providers[u] = stack'[n + 1]
        <5>1. n \in 1..Len(stack) /\ n \in Nat /\ Len(stack) \in Nat
          BY <4>4, <4>5
        <5>2. CASE n = Len(stack)
          <6>1. stack'[n] = Last(stack) /\ stack'[n + 1] = p
            BY <4>4, <4>5, <5>1, <5>2
          <6> QED
            BY <4>2, <6>1 DEF p
        <5>3. CASE n # Len(stack)
          <6>1. n \in 1..(Len(stack) - 1) /\ n + 1 \in 1..Len(stack)
            BY <5>1, <5>3
          <6> QED
            BY <3>2, <4>4, <4>5, <5>1, <6>1
        <5> QED
          BY <5>2, <5>3
      <4> QED
        BY <2>9, <3>1, <3>2, <4>2, <4>3, <4>5, <4>6, <4>7 DEF Moved, F
    <3>5. CASE SortBack
      <4> DEFINE e == Last(stack)
      <4>1. /\ stack # <<>> /\ topo' = Append(topo, e) /\ stack' = Front(stack) /\ phase' = phase
            /\ \A t \in Dependencies(e) : providers[t] \in Range(topo)
        BY <3>5 DEF SortBack, Unsorted
      <4>2. /\ Len(stack) \in Nat \ {0} /\ e \in F /\ e \in Range(stack)
            /\ stack' \in Seq(F) /\ Len(stack') = Len(stack) - 1
            /\ \A n \in 1..(Len(stack) - 1) : stack'[n] = stack[n]
            /\ Range(stack) = Range(stack') \union {e}
        <5> HIDE DEF F
        <5> QED
          BY <3>2, <4>1, Shortened
      <4> HIDE DEF F, e
      <4>3. Distinct(stack') /\ e \notin Range(stack')
        BY <3>2, <4>1, DistinctShortened DEF e
      <4>4. /\ topo' \in Seq(F) /\ Len(topo') = Len(topo) + 1 /\ Len(topo) \in Nat /\ DOMAIN topo = 1..Len(topo)
            /\ \A n \in DOMAIN topo : topo'[n] = topo[n]
            /\ topo'[Len(topo) + 1] = e /\ Range(topo') = Range(topo) \union {e}
        BY <3>2, <4>1, <4>2, Appended
      <4>5. Distinct(topo')
        BY <3>2, <4>1, <4>2, DistinctAppended
      <4>6. Range(topo') \intersect Range(stack') = {}
        BY <3>2, <4>2, <4>3, <4>4
      <4>7. \A n \in 1..(Len(stack') - 1) : \E t \in Dependencies(stack'[n]) : providers[t] = stack'[n + 1]
        <5>1. \A n \in 1..(Len(stack') - 1) : n \in 1..(Len(stack) - 1) /\ n + 1 \in 1..(Len(stack) - 1)
          BY <4>2
        <5> QED
          BY <3>2, <4>2, <5>1
      <4>8. ASSUME NEW n \in 1..Len(topo'), NEW t \in Dependencies(topo'[n])
            PROVE  \E m \in 1..(n - 1) : topo'[m] = providers[t]
        <5>1. CASE n = Len(topo) + 1
          <6>1. providers[t] \in Range(topo)
            BY <4>1, <4>4, <4>8, <5>1
          <6>2. PICK m \in 1..Len(topo) : topo[m] = providers[t]
            BY <4>4, <6>1 DEF Range
          <6>3. m \in 1..(n - 1)
            BY <4>4, <5>1
          <6> QED
            BY <4>4, <6>2, <6>3
        <5>2. CASE n # Len(topo) + 1
          <6>1. n \in 1..Len(topo) /\ n \in Nat
            BY <4>4, <5>2
          <6>2. t \in Dependencies(topo[n])
            BY <4>4, <4>8, <6>1
          <6>3. PICK m \in 1..(n - 1) : topo[m] = providers[t]
            BY <3>2, <6>1, <6>2
          <6>4. m \in 1..Len(topo)
            BY <4>4, <6>1
          <6> QED
            BY <4>4, <6>3, <6>4
        <5> QED
          BY <5>1, <5>2
      <4> QED
        BY <2>9, <3>1, <4>1, <4>2, <4>3, <4>4, <4>5, <4>6, <4>7, <4>8 DEF Moved, F
    <3>6. CASE Accept
      <4>1. DOMAIN funcs \subseteq Range(topo) /\ stack' = stack /\ topo' = topo
        BY <3>6 DEF Accept
      <4>2. Range(topo) \subseteq DOMAIN funcs
        BY <3>2, RangeTyped
      <4> QED
        BY <2>9, <3>2, <4>1, <4>2 DEF Moved
    <3> QED
      BY <2>3, <3>3, <3>4, <3>5, <3>6
  <2> QED
    BY <1>2, <2>1, <2>2, <2>3 DEF Walking
<1>3. CASE Done \/ UNCHANGED vars
  <2>1. UNCHANGED <<phase, funcs, providers, stack, topo>>
    BY <1>3 DEF Done, vars, walks
  <2> QED
    BY <2>1 DEF SortInv, Dependencies, Distinct
<1> QED
  BY <1>1, <1>2, <1>3 DEF Next
LEMMA RestInit == Init => TaskInv /\ FuncsInv /\ FlowInv /\ ErrorsInv /\ ReachInv /\ SortInv /\ CrashInv
<1> SUFFICES ASSUME Init
             PROVE  TaskInv /\ FuncsInv /\ FlowInv /\ ErrorsInv /\ ReachInv /\ SortInv /\ CrashInv
  OBVIOUS
<1>1. /\ args = <<>> /\ phase = "reading" /\ funcs = <<>> /\ errors = {}
      /\ flow.inputs = {} /\ flow.outputs = {} /\ flow.emitters = 0 /\ ~flow.instrumented
      /\ flow.invokeTypeCnt = 0 /\ flow.tasks = <<>>
  BY DEF Init
<1>2. DOMAIN args = {} /\ DOMAIN funcs = {} /\ DOMAIN flow.tasks = {} /\ 1..flow.invokeTypeCnt = {}
  BY <1>1
<1>3. ~Linked /\ \A n : ~Compiled(n)
  BY <1>1, <1>2 DEF Linked, Compiled
<1>4. \A kind : Written(kind) = {}
  BY <1>2 DEF Written
<1>5. TaskInv /\ ReachInv /\ SortInv
  BY <1>1, <1>3 DEF TaskInv, ReachInv, SortInv
<1>6. FuncsInv
  BY <1>2 DEF FuncsInv
<1>7. FlowInv
  BY <1>1, <1>2, <1>4 DEF FlowInv, Supplied
<1>8. ErrorsInv
  BY <1>1, <1>2, <1>3 DEF ErrorsInv
<1>9. CrashInv
  BY <1>1, <1>2, <1>3 DEF CrashInv, FatalSoFar
<1> QED
  BY <1>5, <1>6, <1>7, <1>8, <1>9

(* When nothing was reported, everything a function waits for was visited.  *)
LEMMA NothingReported ==
  ASSUME TypeOK, LinkInv, FuncsInv, ErrorsInv, ReachInv, Linked, phase # "visiting", errors = {}, ~Circle
  PROVE  /\ \A i \in DOMAIN args : Clean(args[i])
         /\ Checked
         /\ \A i \in DOMAIN funcs : Provides(funcs[i]) # {} /\ Range(funcs[i].deps) \subseteq visited
<1>1. (\A i \in DOMAIN args : Clean(args[i])) /\ Checked
  BY DEF ErrorsInv
<1>2. phase # "crashed"
  BY DEF Linked
<1>3. ASSUME NEW i \in DOMAIN funcs  PROVE Provides(funcs[i]) # {}
  <2>1. funcs[i].of \in DOMAIN args /\ args[funcs[i].of].kind = "Task"
    BY <1>2, FunctionFacts
  <2>2. WantsInvoke(args[funcs[i].of]) <=> Outputs(args[funcs[i].of].fn) = <<>>
    BY <1>1, <2>1 DEF Clean
  <2> QED
    BY <1>2, <2>2, ProvidesFacts
<1>4. \A i \in DOMAIN funcs : Range(funcs[i].deps) \subseteq visited
  BY <1>1, <1>3, EveryFunctionReached DEF Checked
<1> QED
  BY <1>1, <1>3, <1>4

LEMMA SortedOnce ==
  ASSUME TypeOK, SortInv, phase = "accepted"
  PROVE  Len(topo) = Len(funcs) /\ Range(topo) = DOMAIN funcs
<1> DEFINE F == DOMAIN funcs
<1>1. topo \in Seq(F) /\ Distinct(topo) /\ Range(topo) = F
  BY DEF SortInv
<1>2. Len(funcs) \in Nat /\ F = 1..Len(funcs)
  BY LenProperties DEF TypeOK
<1>3. Len(topo) \in Nat /\ topo \in [1..Len(topo) -> F] /\ DOMAIN topo = 1..Len(topo)
  <2> HIDE DEF F
  <2> QED
    BY <1>1, LenProperties
<1>4. topo \in Injection(1..Len(topo), F)
  BY <1>1, <1>3 DEF Injection, IsInjective, Distinct
<1>5. topo \in Surjection(1..Len(topo), F)
  BY <1>1, <1>3 DEF Surjection, Range
<1>6. ExistsBijection(1..Len(topo), F)
  BY <1>4, <1>5 DEF ExistsBijection, Bijection
<1>7. /\ IsFiniteSet(1..Len(topo))
      /\ Cardinality(1..Len(topo)) = Len(topo) /\ Cardinality(1..Len(funcs)) = Len(funcs)
  <2>1. \A n \in Nat : IsFiniteSet(1..n) /\ Cardinality(1..n) = IF 1 > n THEN 0 ELSE n - 1 + 1
    BY FS_Interval
  <2>2. \A n \in Nat : (IF 1 > n THEN 0 ELSE n - 1 + 1) = n
    OBVIOUS
  <2> QED
    BY <1>2, <1>3, <2>1, <2>2
<1>8. Cardinality(F) = Cardinality(1..Len(topo))
  <2> HIDE DEF F
  <2> QED
    BY <1>6, <1>7, FS_Bijection
<1> QED
  BY <1>1, <1>2, <1>7, <1>8

LEMMA SortedAfterDependencies ==
  ASSUME TypeOK, LinkInv, CycleInv, FuncsInv, ErrorsInv, ReachInv, SortInv, phase = "accepted"
  PROVE  \A n \in DOMAIN topo : \A t \in Range(funcs[topo[n]].deps) \ flow.inputs :
            \E m \in 1..(n - 1) : t \in Provides(funcs[topo[m]])
<1> SUFFICES ASSUME NEW n \in DOMAIN topo, NEW t \in Range(funcs[topo[n]].deps) \ flow.inputs
             PROVE  \E m \in 1..(n - 1) : t \in Provides(funcs[topo[m]])
  OBVIOUS
<1>1. Linked /\ errors = {} /\ ~Circle
  BY DEF Linked, CycleInv
<1>2. Checked /\ \A i \in DOMAIN funcs : Range(funcs[i].deps) \subseteq visited
  BY <1>1, NothingReported
<1>3. topo \in Seq(DOMAIN funcs)
  BY DEF SortInv
<1>4. n \in 1..Len(topo) /\ topo[n] \in DOMAIN funcs
  BY <1>3, LenProperties, ElementOfSeq
<1>5. t \in DOMAIN providers
  BY <1>2, <1>4 DEF Checked
<1>6. PICK m \in 1..(n - 1) : topo[m] = providers[t]
  BY <1>4, <1>5 DEF SortInv, Dependencies
<1>7. t \in Provides(funcs[providers[t]])
  BY <1>1, <1>5 DEF LinkInv, ProvidersKnown
<1> QED
  BY <1>6, <1>7

(* The code of an accepted flow enqueues every function once, after those   *)
(* it depends on: every function was reached, so that whatever it waits for *)
(* and is not a parameter has a provider.                                   *)
THEOREM SortedForEnqueue == Spec => []FlowSortedForEnqueue
<1> DEFINE IInv == /\ TypeOK /\ LinkInv /\ CycleInv /\ TaskInv /\ FuncsInv
                   /\ ErrorsInv /\ ReachInv /\ SortInv
<1>1. Init => IInv
  BY TypeInit, LinkInit, CycleInit, RestInit
<1>2. IInv /\ [Next]_vars => IInv'
  BY TypeStep, LinkStep, CycleStep, TaskStep, FuncsStep, ErrorsStep, ReachStep, SortStep
<1>3. IInv => FlowSortedForEnqueue
  BY SortedOnce, SortedAfterDependencies DEF FlowSortedForEnqueue
<1> QED
  BY <1>1, <1>2, <1>3, PTL DEF Spec
-----------------------------------------------------------------------------
(* Crashes                                                                 *)

(* An option other than Invoke changes nothing here; an Invoke takes the    *)
(* place of an Invoke(true) before it, whose sentinel it strands.           *)
LEMMA CrashInvInterpreted ==
  ASSUME TypeOK, TaskInv, FuncsInv, CrashInv, Interpret
  PROVE  CrashInv'
<1> DEFINE opts == ThisTask.opts
           n == task.next
           cnt == flow.invokeTypeCnt
           Replaced(m) == \E k \in DOMAIN opts :
                             /\ k < m /\ opts[k].kind = "Invoke" /\ opts[k].value = "true"
                             /\ k \notin LastBefore(opts, m, "Invoke")
           FatalBefore == \E i \in DOMAIN args : Compiled(i) /\ Fatal(args[i])
           Unprovided(s) == \A i \in DOMAIN funcs : funcs[i].invoke # s
<1>1. /\ phase = "options" /\ n \in DOMAIN opts /\ opts[n] = NextOption /\ Interpreted
      /\ NextOption.kind = "Invoke" => NextOption.value \in {"true", "false", "variable"}
      /\ args' = args /\ funcs' = funcs
  BY InterpretFacts DEF NextOption
<1>2. /\ ThisTask.kind = "Task" /\ ThisTask = args[Len(args)] /\ Len(args) \in DOMAIN args
      /\ Len(opts) \in Nat /\ DOMAIN opts = 1..Len(opts)
  BY <1>1, ThisTaskFacts
<1>3. /\ Compiles(ThisTask.fn)
      /\ (task.invoke # 0 <=> \E k \in LastBefore(opts, n, "Invoke") : opts[k].value = "true")
      /\ task.invoke <= cnt /\ \A i \in DOMAIN funcs : funcs[i].invoke # 0 => funcs[i].invoke # task.invoke
  BY <1>1 DEF TaskInv
<1>4. cnt \in Nat /\ task.invoke \in Nat
  <2>1. flow \in Flows /\ task \in TasksRead
    BY DEF TypeOK
  <2>2. cnt \in Nat
    BY <2>1 DEF Flows
  <2>3. task.invoke \in Nat
    BY <2>1 DEF TasksRead
  <2> QED
    BY <2>2, <2>3
<1>5. CASE phase' = "crashed"
  <2>1. NextOption.kind = "Invoke" /\ NextOption.value = "variable"
    BY <1>1, <1>5 DEF Interpreted
  <2>2. Fatal(args'[Len(args)])
    BY <1>1, <1>2, <1>3, <2>1 DEF Fatal
  <2> QED
    BY <1>1, <1>2, <1>5, <2>2 DEF CrashInv
<1>6. CASE phase' = "options"
  <2>1. /\ task'.next = n + 1 /\ ~(NextOption.kind = "Invoke" /\ NextOption.value = "variable")
    BY <1>1, <1>6 DEF Interpreted
  <2>2. ThisTask' = ThisTask
    BY <1>1 DEF ThisTask
  <2>3. \A i : Compiled(i)' <=> Compiled(i)
    BY <1>1, <1>6, CompiledSame
  <2>4. FatalSoFar <=> FatalBefore \/ Replaced(n)
    BY <1>1 DEF FatalSoFar
  <2>5. FatalSoFar' <=> FatalBefore \/ Replaced(n + 1)
    BY <1>1, <1>6, <2>1, <2>2, <2>3 DEF FatalSoFar
  <2>6. FatalSoFar <=> \E s \in 1..cnt : Unprovided(s) /\ task.invoke # s
    BY <1>1 DEF CrashInv, Stranded
  <2>7. (\E s \in 1..flow'.invokeTypeCnt : Stranded(s)') <=>
           \E s \in 1..flow'.invokeTypeCnt : Unprovided(s) /\ task'.invoke # s
    BY <1>1, <1>6 DEF Stranded
  <2>8. CASE NextOption.kind # "Invoke"
    <3>1. flow'.invokeTypeCnt = cnt /\ task'.invoke = task.invoke
      BY <1>1, <2>8 DEF Interpreted
    <3>2. LastBefore(opts, n + 1, "Invoke") = LastBefore(opts, n, "Invoke")
      BY <1>1, <1>2, <2>8, LastBeforeNext
    <3>3. \A k \in DOMAIN opts : k < n + 1 <=> k < n \/ k = n
      BY <1>1, <1>2
    <3>4. Replaced(n + 1) <=> Replaced(n)
      <4> HIDE DEF opts, n
      <4> QED
        BY <1>1, <2>8, <3>2, <3>3
    <3>5. (FatalSoFar <=> \E s \in 1..flow.invokeTypeCnt : Stranded(s))'
      BY <2>4, <2>5, <2>6, <2>7, <3>1, <3>4
    <3> QED
      BY <1>6, <3>5 DEF CrashInv
  <2>9. CASE NextOption.kind = "Invoke"
    <3>1. LastBefore(opts, n + 1, "Invoke") = {n}
      <4>1. n \in DOMAIN opts /\ DOMAIN opts \in SUBSET Nat /\ opts[n].kind = "Invoke"
        BY <1>1, <1>2, <2>9
      <4> HIDE DEF opts, n
      <4> QED
        BY <4>1, LastBeforeNext
    <3>2. \A k \in DOMAIN opts : (k < n + 1 <=> k < n \/ k = n) /\ ~(n < n)
      BY <1>1, <1>2
    <3>3. Replaced(n + 1) <=> \E k \in DOMAIN opts : k < n /\ opts[k].kind = "Invoke" /\ opts[k].value = "true"
      <4> HIDE DEF opts, n
      <4> QED
        BY <1>1, <3>1, <3>2
    <3>4. Replaced(n + 1) <=> Replaced(n) \/ task.invoke # 0
      <4>1. \A k \in LastBefore(opts, n, "Invoke") : k \in DOMAIN opts /\ k < n /\ opts[k].kind = "Invoke"
        BY DEF LastBefore
      <4> HIDE DEF opts, n
      <4> QED
        BY <1>3, <3>3, <4>1
    <3>5. (\E s \in 1..flow'.invokeTypeCnt : Unprovided(s) /\ task'.invoke # s)
             <=> \E s \in 1..cnt : Unprovided(s)
      <4>1. CASE NextOption.value = "true"
        <5>1. flow'.invokeTypeCnt = cnt + 1 /\ task'.invoke = cnt + 1
          BY <1>1, <2>9, <4>1 DEF Interpreted
        <5>2. \A s \in 1..(cnt + 1) : s # cnt + 1 <=> s \in 1..cnt
          BY <1>4
        <5>3. \A s \in 1..cnt : s \in 1..(cnt + 1)
          BY <1>4
        <5> HIDE DEF Unprovided
        <5> QED
          BY <5>1, <5>2, <5>3
      <4>2. CASE NextOption.value = "false"
        <5>1. flow'.invokeTypeCnt = cnt /\ task'.invoke = 0
          BY <1>1, <2>9, <4>2 DEF Interpreted
        <5>2. \A s \in 1..cnt : s # 0
          BY <1>4
        <5> HIDE DEF Unprovided
        <5> QED
          BY <5>1, <5>2
      <4> QED
        BY <1>1, <2>1, <2>9, <4>1, <4>2
    <3>6. (\E s \in 1..cnt : Unprovided(s))
             <=> (\E s \in 1..cnt : Unprovided(s) /\ task.invoke # s) \/ task.invoke # 0
      <4>1. task.invoke # 0 => task.invoke \in 1..cnt /\ Unprovided(task.invoke)
        BY <1>3, <1>4
      <4>2. \A s \in 1..cnt : s # 0
        BY <1>4
      <4> HIDE DEF Unprovided
      <4> QED
        BY <4>1, <4>2
    <3>7. (FatalSoFar <=> \E s \in 1..flow.invokeTypeCnt : Stranded(s))'
      <4> HIDE DEF Replaced, FatalBefore, Unprovided
      <4> QED
        BY <2>4, <2>5, <2>6, <2>7, <3>4, <3>5, <3>6
    <3> QED
      BY <1>6, <3>7 DEF CrashInv
  <2> QED
    BY <2>8, <2>9
<1> QED
  BY <1>1, <1>5, <1>6 DEF Interpreted

(* The sentinels of a finished task are those of its function.              *)
LEMMA CrashInvAtEnd ==
  ASSUME TypeOK, TaskInv, FuncsInv, CrashInv, EndTask
  PROVE  CrashInv'
<1> DEFINE opts == ThisTask.opts
           Replaced == \E k \in DOMAIN opts :
                          /\ opts[k].kind = "Invoke" /\ opts[k].value = "true"
                          /\ k \notin LastOf(opts, "Invoke")
           FatalBefore == \E i \in DOMAIN args : Compiled(i) /\ Fatal(args[i])
<1>1. /\ phase = "options" /\ phase' = "reading" /\ args' = args /\ Added /\ task.next \notin DOMAIN opts
      /\ flow'.invokeTypeCnt = flow.invokeTypeCnt
  BY EndTaskFacts
<1>2. /\ ThisTask.kind = "Task" /\ ThisTask = args[Len(args)] /\ Len(args) \in DOMAIN args
      /\ Len(opts) \in Nat /\ DOMAIN opts = 1..Len(opts)
  BY <1>1, ThisTaskFacts
<1>3. /\ Compiles(ThisTask.fn) /\ task.next \in 1..(Len(opts) + 1)
      /\ \A k \in DOMAIN opts : k < task.next /\ opts[k].kind = "Invoke" => opts[k].value # "variable"
  BY <1>1 DEF TaskInv
<1>4. LastBefore(opts, task.next, "Invoke") = LastOf(opts, "Invoke") /\ \A k \in DOMAIN opts : k < task.next
  <2>1. \A kind : LastBefore(opts, task.next, kind) = LastOf(opts, kind)
    BY <1>1, <1>2, <1>3, LastBeforeEnd
  <2>2. \A k \in DOMAIN opts : k < task.next
    BY <1>1, <1>2, <1>3
  <2> QED
    BY <2>1, <2>2
<1>5. FatalSoFar <=> FatalBefore \/ Replaced
  BY <1>1, <1>4 DEF FatalSoFar
<1>6. Fatal(ThisTask) <=> Replaced
  BY <1>2, <1>3, <1>4 DEF Fatal
<1>7. FatalSoFar' <=> FatalBefore \/ Fatal(ThisTask)
  <2>1. \A i : Compiled(i)' <=> Compiled(i) \/ i = Len(args)
    BY CompiledEnd
  <2>2. FatalSoFar' <=> \E i \in DOMAIN args : Compiled(i)' /\ Fatal(args[i])
    BY <1>1 DEF FatalSoFar
  <2> QED
    BY <1>2, <2>1, <2>2
<1>8. \A s \in 1..flow.invokeTypeCnt : Stranded(s)' <=> Stranded(s)
  <2>1. flow.invokeTypeCnt \in Nat
    BY DEF TypeOK, Flows
  <2> SUFFICES ASSUME NEW s \in 1..flow.invokeTypeCnt
               PROVE  Stranded(s)' <=> Stranded(s)
    OBVIOUS
  <2>2. s # 0
    BY <2>1
  <2>3. TaskFunction.invoke = task.invoke /\ PredicateFunction.invoke = 0
    BY NewFunctions
  <2>4. /\ \A i \in DOMAIN funcs : i \in DOMAIN funcs' /\ funcs'[i] = funcs[i]
        /\ Len(funcs) + 1 \in DOMAIN funcs' /\ funcs'[Len(funcs) + 1] = TaskFunction
        /\ task.predicate = 0 => DOMAIN funcs' = DOMAIN funcs \union {Len(funcs) + 1}
        /\ task.predicate # 0 => /\ DOMAIN funcs' = DOMAIN funcs \union {Len(funcs) + 1, Len(funcs) + 2}
                                 /\ funcs'[Len(funcs) + 2] = PredicateFunction
    BY <1>1, FunctionsAdded
  <2>5. Stranded(s)' <=> \A i \in DOMAIN funcs' : funcs'[i].invoke # s
    BY <1>1 DEF Stranded
  <2>6. Stranded(s) <=> (\A i \in DOMAIN funcs : funcs[i].invoke # s) /\ task.invoke # s
    BY <1>1 DEF Stranded
  <2> QED
    BY <2>2, <2>3, <2>4, <2>5, <2>6
<1>9. FatalSoFar <=> \E s \in 1..flow.invokeTypeCnt : Stranded(s)
  BY <1>1 DEF CrashInv
<1>10. (FatalSoFar <=> \E s \in 1..flow.invokeTypeCnt : Stranded(s))'
  BY <1>1, <1>5, <1>6, <1>7, <1>8, <1>9
<1> QED
  BY <1>1, <1>10 DEF CrashInv

LEMMA CrashStep ==
  ASSUME TypeOK, LinkInv, TaskInv, FuncsInv, CrashInv, [Next]_vars
  PROVE  CrashInv'
<1>0. flow.invokeTypeCnt \in Nat
  BY DEF TypeOK, Flows
<1>1. CASE \E a \in Arguments : Reading(a)
  <2>1. PICK a \in Arguments : Reading(a)
    BY <1>1
  <2>2. /\ phase = "reading" /\ (phase' = "reading" \/ phase' = "options")
        /\ Len(args) + 1 \notin DOMAIN args /\ DOMAIN args' = DOMAIN args \union {Len(args) + 1}
        /\ \A i \in DOMAIN args : args'[i] = args[i]
        /\ args' \in Seq(Arguments) /\ args' # <<>> /\ Last(args') = a
        /\ phase' = "options" => a.kind = "Task"
        /\ funcs' = funcs
    BY <2>1, ReadFacts
  <2>3. flow'.invokeTypeCnt = flow.invokeTypeCnt /\ (phase' = "options" => task'.next = 1 /\ task'.invoke = 0)
    BY <2>1, ReadFlow DEF NewTask
  <2>4. \A n : Compiled(n)' <=> Compiled(n)
    BY <2>1, CompiledRead
  <2>5. phase' = "options" => \A k \in DOMAIN ThisTask'.opts : ~(k < task'.next)
    <3>1. phase' = "options" => ThisTask' = a /\ Len(a.opts) \in Nat /\ DOMAIN a.opts = 1..Len(a.opts)
      BY <2>2, ArgumentsTyped DEF ThisTask
    <3> QED
      BY <2>3, <3>1
  <2>6. FatalSoFar' <=> FatalSoFar
    <3>1. FatalSoFar <=> \E n \in DOMAIN args : Compiled(n) /\ Fatal(args[n])
      BY <2>2 DEF FatalSoFar
    <3>2. FatalSoFar' <=> \E n \in DOMAIN args' : Compiled(n)' /\ Fatal(args'[n])
      BY <2>5 DEF FatalSoFar
    <3>3. \A n : Compiled(n) => n \in DOMAIN args
      BY DEF Compiled
    <3> QED
      BY <2>2, <2>4, <3>1, <3>2, <3>3
  <2>7. \A s \in 1..flow.invokeTypeCnt : Stranded(s)' <=> Stranded(s)
    <3>1. \A s \in 1..flow.invokeTypeCnt : s # 0
      BY <1>0
    <3> QED
      BY <2>2, <2>3, <3>1 DEF Stranded
  <2>8. FatalSoFar <=> \E s \in 1..flow.invokeTypeCnt : Stranded(s)
    BY <2>2 DEF CrashInv
  <2>9. (FatalSoFar <=> \E s \in 1..flow.invokeTypeCnt : Stranded(s))'
    BY <2>3, <2>6, <2>7, <2>8
  <2> QED
    BY <2>2, <2>9 DEF CrashInv
<1>2. CASE Interpret
  BY <1>2, CrashInvInterpreted
<1>3. CASE EndTask
  BY <1>3, CrashInvAtEnd
<1>4. ASSUME phase # "options", phase' # "options", phase # "crashed", phase' # "crashed",
             UNCHANGED <<args, flow, funcs>>
      PROVE  CrashInv'
  <2>1. FatalSoFar' <=> FatalSoFar
    BY <1>4 DEF FatalSoFar, Compiled
  <2>2. \A s : Stranded(s)' <=> Stranded(s)
    BY <1>4 DEF Stranded
  <2> QED
    BY <1>4, <2>1, <2>2 DEF CrashInv
<1>5. CASE NoArguments \/ Link
  BY <1>4, <1>5 DEF NoArguments, Link
<1>6. CASE Walking
  <2>1. /\ phase \in {"visiting", "searching", "sorting"}
        /\ phase' \in {"visiting", "searching", "sorting", "accepted", "refused", "crashed"}
        /\ UNCHANGED <<args, flow, funcs, providers>>
    BY <1>6, WalkFacts
  <2>2. CASE phase' # "crashed"
    BY <1>4, <2>1, <2>2
  <2>3. CASE phase' = "crashed"
    <3>1. PICK t \in queue : Visit(t)
      BY <1>6, <2>3 DEF Walking, EndVisits, SearchBelow, SearchBack, EndSearch, Searches,
                        SortFrom, SortBelow, SortBack, Accept, Sorts
    <3>2. t \in Sentinels /\ t \notin DOMAIN providers
      BY <2>1, <2>3, <3>1 DEF Visit
    <3>3. PICK s \in 1..flow.invokeTypeCnt : t = Invoked(s)
      BY <3>2 DEF Sentinels
    <3>4. s \in Nat /\ s # 0
      BY <1>0
    <3>5. ASSUME NEW i \in DOMAIN funcs  PROVE funcs[i].invoke # s
      <4>1. t \notin Provides(funcs[i])
        BY <2>1, <3>2 DEF LinkInv, Linked, ProvidersKnown, Provided
      <4> QED
        BY <2>1, <3>3, <3>4, <4>1, ProvidesFacts
    <3>6. Stranded(s)
      BY <2>1, <3>5 DEF Stranded
    <3>7. \E n \in DOMAIN args : Fatal(args[n])
      BY <2>1, <3>6 DEF CrashInv, FatalSoFar
    <3> QED
      BY <2>1, <2>3, <3>7 DEF CrashInv
  <2> QED
    BY <2>2, <2>3
<1>7. CASE Done \/ UNCHANGED vars
  <2>1. UNCHANGED <<args, phase, flow, task, funcs>>
    BY <1>7 DEF Done, vars
  <2>2. FatalSoFar' <=> FatalSoFar
    BY <2>1 DEF FatalSoFar, Compiled, ThisTask
  <2>3. \A s : Stranded(s)' <=> Stranded(s)
    BY <2>1 DEF Stranded
  <2> QED
    BY <2>1, <2>2, <2>3 DEF CrashInv
<1> QED
  BY <1>1, <1>2, <1>3, <1>5, <1>6, <1>7 DEF Next

(* Every sentinel of a flow that was compiled to the end has a provider, so *)
(* that none is stranded.                                                   *)
LEMMA NothingFatal ==
  ASSUME TypeOK, LinkInv, FuncsInv, ReachInv, CrashInv, phase \in {"accepted", "refused"}
  PROVE  \A i \in DOMAIN args : ~Fatal(args[i])
<1> SUFFICES ASSUME NEW n \in DOMAIN args, Fatal(args[n])
             PROVE  FALSE
  OBVIOUS
<1>1. Linked
  BY DEF Linked
<1>2. Compiled(n) /\ FatalSoFar
  BY DEF Fatal, FatalSoFar, Compiled
<1>3. PICK s \in 1..flow.invokeTypeCnt : Stranded(s)
  BY <1>2 DEF CrashInv
<1>4. s \in Nat
  BY DEF TypeOK, Flows
<1>5. Invoked(s) \in Sentinels
  BY DEF Sentinels
<1>6. Invoked(s) \in DOMAIN providers
  BY <1>1, <1>5 DEF ReachInv
<1>7. PICK i \in DOMAIN funcs : Invoked(s) \in Provides(funcs[i])
  BY <1>1, <1>6 DEF LinkInv, ProvidersKnown, Provided
<1>8. funcs[i].invoke = s
  BY <1>4, <1>7, ProvidesFacts
<1> QED
  BY <1>3, <1>8 DEF Stranded

(* The compiler crashes on an Invoke whose value is not constant and on an  *)
(* Invoke(true) that another one follows, and on nothing else.              *)
THEOREM CrashesOnInvokeOnly == Spec => []FlowCrashesOnInvokeOnly
<1> DEFINE IInv == TypeOK /\ LinkInv /\ TaskInv /\ FuncsInv /\ ReachInv /\ CrashInv
<1>1. Init => IInv
  BY TypeInit, LinkInit, RestInit
<1>2. IInv /\ [Next]_vars => IInv'
  BY TypeStep, LinkStep, TaskStep, FuncsStep, ReachStep, CrashStep
<1>3. IInv => FlowCrashesOnInvokeOnly
  BY NothingFatal DEF FlowCrashesOnInvokeOnly, CrashInv
<1> QED
  BY <1>1, <1>2, <1>3, PTL DEF Spec
-----------------------------------------------------------------------------
(* What the functions are to the arguments, none of which was reported      *)

AllClean == \A i \in DOMAIN args : Clean(args[i])

LEMMA TaskTypes ==
  ASSUME TypeOK, NEW n \in Written("Task")
  PROVE  /\ n \in DOMAIN args /\ args[n].kind = "Task"
         /\ Gives(args[n]) \subseteq UserTypes /\ Takes(args[n]) \subseteq UserTypes
         /\ \A j, k \in LastOf(args[n].opts, "Predicate") : j = k
<1> DEFINE a == args[n]
<1>1. n \in DOMAIN args /\ a.kind = "Task" /\ a \in Arguments
  BY DEF Written, TypeOK
<1>2. /\ Inputs(a.fn) \in Seq(UserTypes) /\ Outputs(a.fn) \in Seq(UserTypes)
      /\ Len(a.opts) \in Nat /\ DOMAIN a.opts = 1..Len(a.opts)
      /\ \A k \in DOMAIN a.opts : a.opts[k].kind = "Predicate" => Inputs(a.opts[k].fn) \in Seq(UserTypes)
  BY <1>1, ArgumentsTyped
<1>3. Gives(a) \subseteq UserTypes
  BY <1>2, RangeTyped DEF Gives
<1>4. \A k \in LastOf(a.opts, "Predicate") : Range(Inputs(a.opts[k].fn)) \subseteq UserTypes
  BY <1>2, RangeTyped DEF LastOf
<1>5. Takes(a) \subseteq UserTypes
  <2>1. Range(Inputs(a.fn)) \subseteq UserTypes
    BY <1>2, RangeTyped
  <2> QED
    BY <1>4, <2>1 DEF Takes
<1>6. ASSUME NEW j \in LastOf(a.opts, "Predicate"), NEW k \in LastOf(a.opts, "Predicate")
      PROVE  j = k
  <2>1. /\ j \in 1..Len(a.opts) /\ k \in 1..Len(a.opts)
        /\ ~(j > k) /\ ~(k > j)
    BY <1>2, <1>6 DEF LastOf
  <2> QED
    BY <1>2, <2>1
<1> QED
  BY <1>1, <1>3, <1>5, <1>6

LEMMA TaskFunctions ==
  ASSUME TypeOK, FuncsInv, Linked, AllClean
  PROVE  /\ \A i \in DOMAIN funcs : funcs[i].of \in Written("Task")
         /\ \A n \in Written("Task") :
               Compiled(n) /\ \E i \in DOMAIN funcs : funcs[i].of = n /\ ~funcs[i].isPredicate
<1>1. phase # "crashed" /\ phase # "options"
  BY DEF Linked
<1>2. \A i \in DOMAIN funcs : funcs[i].of \in Written("Task")
  BY <1>1, FunctionFacts DEF Written
<1>3. \A n \in Written("Task") : Compiled(n)
  BY <1>1 DEF Written, AllClean, Clean, Compiled
<1>4. \A n \in Written("Task") : \E i \in DOMAIN funcs : funcs[i].of = n /\ ~funcs[i].isPredicate
  BY <1>1, <1>3 DEF FuncsInv, Written
<1> QED
  BY <1>2, <1>3, <1>4

(* What a function waits for: what its task takes, or the outcome of the    *)
(* task's predicate.                                                        *)
LEMMA DepsFacts ==
  ASSUME TypeOK, FuncsInv, phase # "crashed", NEW i \in DOMAIN funcs
  PROVE  /\ \A t \in Range(funcs[i].deps) :
               \/ t \in UserTypes /\ t \in Takes(args[funcs[i].of])
               \/ ~funcs[i].isPredicate /\ funcs[i].predicate # 0 /\ t = Predicted(funcs[i].predicate)
         /\ ~funcs[i].isPredicate => Range(Inputs(args[funcs[i].of].fn)) \subseteq Range(funcs[i].deps)
         /\ ~funcs[i].isPredicate /\ funcs[i].predicate # 0 =>
               Predicted(funcs[i].predicate) \in Range(funcs[i].deps)
<1> DEFINE f == funcs[i]
           a == args[f.of]
<1>1. FunctionOf(f, a) /\ f.of \in Written("Task") /\ f.isPredicate \in BOOLEAN
  BY FunctionFacts DEF Written
<1>2. Takes(a) \subseteq UserTypes
  BY <1>1, TaskTypes
<1> HIDE DEF f, a
<1>3. CASE f.isPredicate
  <2>1. PICK k \in LastOf(a.opts, "Predicate") : f.deps = Inputs(a.opts[k].fn)
    BY <1>1, <1>3 DEF FunctionOf
  <2>2. Range(f.deps) \subseteq Takes(a)
    BY <2>1 DEF Takes
  <2> QED
    BY <1>2, <1>3, <2>2 DEF f, a
<1>4. CASE ~f.isPredicate
  <2>1. Range(f.deps) = Range(Inputs(a.fn)) \union IF f.predicate = 0 THEN {} ELSE {Predicted(f.predicate)}
    BY <1>1, <1>4 DEF FunctionOf
  <2>2. Range(Inputs(a.fn)) \subseteq Takes(a)
    BY DEF Takes
  <2> QED
    BY <1>2, <1>4, <2>1, <2>2 DEF f, a
<1> QED
  BY <1>3, <1>4

(* A task that waits for a predicate, and the predicate.                    *)
LEMMA Pairs ==
  ASSUME TypeOK, FuncsInv, phase # "crashed", NEW i \in DOMAIN funcs, funcs[i].predicate # 0
  PROVE  \E j \in DOMAIN funcs : /\ funcs[j].of = funcs[i].of /\ funcs[j].predicate = funcs[i].predicate
                                 /\ (funcs[j].isPredicate <=> ~funcs[i].isPredicate)
BY DEF FuncsInv

(* The functions of a task with a predicate.                                *)
LEMMA PredicateFunctions ==
  ASSUME TypeOK, FuncsInv, Linked, AllClean, NEW n \in Written("Task"),
         NEW k \in LastOf(args[n].opts, "Predicate")
  PROVE  \E i, j \in DOMAIN funcs :
            /\ funcs[i].of = n /\ ~funcs[i].isPredicate
            /\ funcs[j].of = n /\ funcs[j].isPredicate
            /\ funcs[i].predicate # 0 /\ funcs[j].predicate = funcs[i].predicate
            /\ funcs[j].deps = Inputs(args[n].opts[k].fn)
<1>1. phase # "crashed"
  BY DEF Linked
<1>2. PICK i \in DOMAIN funcs : funcs[i].of = n /\ ~funcs[i].isPredicate
  BY TaskFunctions
<1>3. k \in DOMAIN args[n].opts /\ args[n].opts[k].kind = "Predicate"
  BY DEF LastOf
<1>4. ValidOption(args[n], args[n].opts[k])
  BY <1>3, TaskTypes DEF AllClean, Clean
<1>5. IsPredicate(args[n].opts[k].fn)
  BY <1>3, <1>4 DEF ValidOption
<1>6. funcs[i].predicate # 0
  BY <1>1, <1>2, <1>5, FunctionFacts DEF FunctionOf
<1>7. PICK j \in DOMAIN funcs : /\ funcs[j].of = n /\ funcs[j].predicate = funcs[i].predicate
                                /\ funcs[j].isPredicate
  BY <1>1, <1>2, <1>6, Pairs
<1>8. \E m \in LastOf(args[n].opts, "Predicate") : funcs[j].deps = Inputs(args[n].opts[m].fn)
  BY <1>1, <1>7, FunctionFacts DEF FunctionOf
<1>9. funcs[j].deps = Inputs(args[n].opts[k].fn)
  BY <1>8, TaskTypes
<1> QED
  BY <1>2, <1>6, <1>7, <1>9

(* Everything a task takes is waited for by one of its functions.           *)
LEMMA TakenBy ==
  ASSUME TypeOK, FuncsInv, Linked, AllClean, NEW n \in Written("Task"), NEW t \in Takes(args[n])
  PROVE  \E i \in DOMAIN funcs :
            /\ funcs[i].of = n /\ t \in Range(funcs[i].deps)
            /\ funcs[i].isPredicate =>
                  \E j \in DOMAIN funcs :
                     /\ funcs[j].of = n /\ ~funcs[j].isPredicate
                     /\ funcs[i].predicate # 0 /\ funcs[j].predicate = funcs[i].predicate
<1>1. phase # "crashed"
  BY DEF Linked
<1>2. CASE t \in Range(Inputs(args[n].fn))
  <2>1. PICK i \in DOMAIN funcs : funcs[i].of = n /\ ~funcs[i].isPredicate
    BY TaskFunctions
  <2>2. t \in Range(funcs[i].deps)
    BY <1>1, <1>2, <2>1, DepsFacts
  <2> QED
    BY <2>1, <2>2
<1>3. CASE t \notin Range(Inputs(args[n].fn))
  <2>1. PICK k \in LastOf(args[n].opts, "Predicate") : t \in Range(Inputs(args[n].opts[k].fn))
    BY <1>3 DEF Takes
  <2> QED
    BY <2>1, PredicateFunctions
<1> QED
  BY <1>2, <1>3

(* The types of users that functions provide are those tasks give.          *)
LEMMA GivenProvided ==
  ASSUME TypeOK, FuncsInv, Linked, AllClean
  PROVE  /\ Given \subseteq UserTypes
         /\ \A t \in UserTypes : t \in Provided <=> t \in Given
<1>1. phase # "crashed"
  BY DEF Linked
<1>2. Given \subseteq UserTypes
  BY TaskTypes DEF Given
<1>3. ASSUME NEW t \in UserTypes, t \in Provided  PROVE t \in Given
  <2>1. PICK i \in DOMAIN funcs : t \in Provides(funcs[i])
    BY <1>3 DEF Provided
  <2>2. t \in Gives(args[funcs[i].of])
    BY <1>1, <2>1, ProvidesFacts
  <2> QED
    BY <2>1, <2>2, TaskFunctions DEF Given
<1>4. ASSUME NEW t \in UserTypes, t \in Given  PROVE t \in Provided
  <2>1. PICK n \in Written("Task") : t \in Gives(args[n])
    BY <1>4 DEF Given
  <2>2. PICK i \in DOMAIN funcs : funcs[i].of = n /\ ~funcs[i].isPredicate
    BY TaskFunctions
  <2>3. t \in Provides(funcs[i])
    BY <1>1, <2>1, <2>2, ProvidesFacts
  <2> QED
    BY <2>3 DEF Provided
<1> QED
  BY <1>2, <1>3, <1>4

(* What is waited for: the types tasks take, and the outcomes of            *)
(* predicates, which are provided, as they are waited for.                  *)
LEMMA WaitedFacts ==
  ASSUME TypeOK, FuncsInv, Linked, AllClean
  PROVE  /\ \A t \in UserTypes : t \in Waited <=> \E n \in Written("Task") : t \in Takes(args[n])
         /\ \A t \in Waited : t \notin UserTypes => t \in Provided
         /\ \A m \in Nat : Predicted(m) \in Provided => Predicted(m) \in Waited
<1>1. phase # "crashed"
  BY DEF Linked
<1>2. ASSUME NEW t \in UserTypes, t \in Waited
      PROVE  \E n \in Written("Task") : t \in Takes(args[n])
  <2>1. PICK i \in DOMAIN funcs : t \in Range(funcs[i].deps)
    BY <1>2 DEF Waited
  <2>2. funcs[i].predicate \in Nat
    BY <1>1, FunctionFacts
  <2>3. t # Predicted(funcs[i].predicate)
    BY <2>2, Sentinel
  <2>4. t \in Takes(args[funcs[i].of])
    BY <1>1, <2>1, <2>3, DepsFacts
  <2> QED
    BY <2>4, TaskFunctions
<1>3. ASSUME NEW t \in UserTypes, NEW n \in Written("Task"), t \in Takes(args[n])
      PROVE  t \in Waited
  <2>1. PICK i \in DOMAIN funcs : t \in Range(funcs[i].deps)
    BY <1>3, TakenBy
  <2> QED
    BY <2>1 DEF Waited
<1>4. ASSUME NEW t \in Waited, t \notin UserTypes
      PROVE  t \in Provided
  <2>1. PICK i \in DOMAIN funcs : t \in Range(funcs[i].deps)
    BY DEF Waited
  <2>2. ~funcs[i].isPredicate /\ funcs[i].predicate # 0 /\ t = Predicted(funcs[i].predicate)
    BY <1>1, <1>4, <2>1, DepsFacts
  <2>3. PICK j \in DOMAIN funcs : funcs[j].predicate = funcs[i].predicate /\ funcs[j].isPredicate
    BY <1>1, <2>2, Pairs
  <2>4. funcs[j].predicate \in Nat
    BY <1>1, FunctionFacts
  <2>5. t \in Provides(funcs[j])
    BY <1>1, <2>2, <2>3, <2>4, ProvidesFacts
  <2> QED
    BY <2>5 DEF Provided
<1>5. ASSUME NEW m \in Nat, Predicted(m) \in Provided
      PROVE  Predicted(m) \in Waited
  <2>1. PICK i \in DOMAIN funcs : Predicted(m) \in Provides(funcs[i])
    BY <1>5 DEF Provided
  <2>2. funcs[i].isPredicate /\ funcs[i].predicate = m
    BY <1>1, <2>1, ProvidesFacts
  <2>3. m # 0
    BY <1>1, <2>2, FunctionFacts DEF FunctionOf
  <2>4. PICK j \in DOMAIN funcs : funcs[j].predicate = m /\ ~funcs[j].isPredicate
    BY <1>1, <2>2, <2>3, Pairs
  <2>5. Predicted(m) \in Range(funcs[j].deps)
    BY <1>1, <2>3, <2>4, DepsFacts
  <2> QED
    BY <2>5 DEF Waited
<1> QED
  BY <1>2, <1>3, <1>4, <1>5
LEMMA NeededFacts ==
  ASSUME TypeOK, FuncsInv, FlowInv, Linked, AllClean
  PROVE  /\ flow.inputs = Supplied /\ Supplied \subseteq UserTypes
         /\ flow.outputs \subseteq UserTypes /\ Needed \subseteq UserTypes
         /\ \A t \in UserTypes : t \in Needed <=> t \in flow.outputs \union Waited
<1>1. phase # "crashed"
  BY DEF Linked
<1>2. /\ flow.inputs = Supplied
      /\ flow.outputs = UNION {CompiledOutputs(args[i].types) : i \in Written("Results")}
  BY <1>1 DEF FlowInv
<1>3. flow.inputs \subseteq UserTypes /\ flow.outputs \subseteq UserTypes
  <2>1. flow \in Flows
    BY DEF TypeOK
  <2>2. flow.inputs \in SUBSET UserTypes
    BY <2>1 DEF Flows
  <2>3. flow.outputs \in SUBSET UserTypes
    BY <2>1 DEF Flows
  <2> QED
    BY <2>2, <2>3
<1>4. \A i \in Written("Results") : CompiledOutputs(args[i].types) = Range(args[i].types)
  BY DEF AllClean, Clean, Written, CompiledOutputs
<1> DEFINE O == UNION {Range(args[i].types) : i \in Written("Results")}
           T == UNION {Takes(args[i]) : i \in Written("Task")}
<1>5. flow.outputs = O
  BY <1>2, <1>4
<1>6. Needed = O \union T
  BY DEF Needed
<1>7. T \subseteq UserTypes
  BY TaskTypes
<1>8. \A t \in UserTypes : t \in Waited <=> t \in T
  BY WaitedFacts
<1> HIDE DEF O, T
<1> QED
  BY <1>2, <1>3, <1>5, <1>6, <1>7, <1>8

(* Every sentinel that is provided is received, so that types of users are  *)
(* what is reported.                                                        *)
LEMMA ProvidedReceived ==
  ASSUME TypeOK, LinkInv, FuncsInv, FlowInv, Linked, AllClean
  PROVE  Provided \subseteq received <=> Given \subseteq Needed
<1>1. phase # "crashed"
  BY DEF Linked
<1> DEFINE I == {Invoked(funcs[i].invoke) : i \in {k \in DOMAIN funcs : funcs[k].invoke # 0}}
<1>2. received = flow.outputs \union Waited \union I
  <2>1. received = flow.outputs \union Received
    BY DEF LinkInv
  <2> QED
    BY <2>1 DEF Received, Waited
<1>3. \A t \in UserTypes : t \in received <=> t \in Needed
  <2>1. \A t \in UserTypes : t \notin I
    BY <1>1, FunctionFacts, Sentinel
  <2> HIDE DEF I
  <2> QED
    BY <1>2, <2>1, NeededFacts
<1>4. ASSUME NEW t \in Provided, t \notin UserTypes  PROVE t \in received
  <2>1. PICK i \in DOMAIN funcs : t \in Provides(funcs[i])
    BY DEF Provided
  <2>2. (\E m \in Nat : t = Predicted(m)) \/ (\E m \in Nat : t = Invoked(m))
    BY <1>1, <1>4, <2>1, ProvidesFacts
  <2>3. CASE \E m \in Nat : t = Predicted(m)
    BY <1>2, <2>3, WaitedFacts
  <2>4. CASE \E m \in Nat : t = Invoked(m)
    <3>1. PICK m \in Nat : t = Invoked(m)
      BY <2>4
    <3>2. funcs[i].invoke = m /\ m # 0
      BY <1>1, <2>1, <3>1, ProvidesFacts
    <3>3. t \in I
      BY <3>1, <3>2
    <3> QED
      BY <1>2, <3>3
  <2> QED
    BY <2>2, <2>3, <2>4
<1>5. Given \subseteq UserTypes /\ \A t \in UserTypes : t \in Provided <=> t \in Given
  BY GivenProvided
<1> QED
  BY <1>3, <1>4, <1>5

LEMMA ProvidedOnce ==
  ASSUME TypeOK, FuncsInv, Linked, AllClean
  PROVE  ~ProvidedTwice <=>
            /\ \A n \in Written("Task") : IsInjective(Outputs(args[n].fn))
            /\ \A n, m \in Written("Task") : n # m => Gives(args[n]) \intersect Gives(args[m]) = {}
<1>1. phase # "crashed"
  BY DEF Linked
<1>2. \A i \in DOMAIN funcs : /\ funcs[i].of \in Written("Task") /\ FunctionOf(funcs[i], args[funcs[i].of])
                              /\ funcs[i].isPredicate \in BOOLEAN /\ funcs[i].predicate \in Nat
  BY <1>1, FunctionFacts, TaskFunctions
<1>3. \A n \in Written("Task") : \E i \in DOMAIN funcs : funcs[i].of = n /\ ~funcs[i].isPredicate
  BY TaskFunctions
<1>4. ASSUME ProvidedTwice,
             \A n \in Written("Task") : IsInjective(Outputs(args[n].fn)),
             \A n, m \in Written("Task") : n # m => Gives(args[n]) \intersect Gives(args[m]) = {}
      PROVE  FALSE
  <2>1. \A i \in DOMAIN funcs : IsInjective(funcs[i].outs)
    <3>1. ASSUME NEW i \in DOMAIN funcs, funcs[i].isPredicate  PROVE IsInjective(funcs[i].outs)
      <4>1. funcs[i].outs = <<Predicted(funcs[i].predicate)>>
        BY <1>2, <3>1 DEF FunctionOf
      <4> QED
        BY <4>1 DEF IsInjective
    <3>2. ASSUME NEW i \in DOMAIN funcs, ~funcs[i].isPredicate  PROVE IsInjective(funcs[i].outs)
      BY <1>2, <1>4, <3>2 DEF FunctionOf
    <3> QED
      BY <3>1, <3>2
  <2>2. PICK i, j \in DOMAIN funcs : i # j /\ Provides(funcs[i]) \intersect Provides(funcs[j]) # {}
    BY <1>4, <2>1 DEF ProvidedTwice
  <2>3. PICK t : t \in Provides(funcs[i]) /\ t \in Provides(funcs[j])
    BY <2>2
  <2>4. /\ funcs[i].of = funcs[j].of => (funcs[i].isPredicate <=> ~funcs[j].isPredicate)
        /\ funcs[i].invoke # 0 => funcs[i].invoke # funcs[j].invoke
        /\ funcs[i].predicate # 0 /\ funcs[i].predicate = funcs[j].predicate => funcs[i].of = funcs[j].of
    BY <1>1, <2>2 DEF FuncsInv
  <2>5. t \in UserTypes \/ (\E m \in Nat : t = Predicted(m)) \/ (\E m \in Nat : t = Invoked(m))
    BY <1>1, <2>3, ProvidesFacts
  <2>6. CASE t \in UserTypes
    <3>1. /\ ~funcs[i].isPredicate /\ t \in Gives(args[funcs[i].of])
          /\ ~funcs[j].isPredicate /\ t \in Gives(args[funcs[j].of])
      BY <1>1, <2>3, <2>6, ProvidesFacts
    <3> QED
      BY <1>2, <1>4, <2>4, <3>1
  <2>7. CASE \E m \in Nat : t = Predicted(m)
    <3>1. PICK m \in Nat : t = Predicted(m)
      BY <2>7
    <3>2. /\ funcs[i].isPredicate /\ funcs[i].predicate = m
          /\ funcs[j].isPredicate /\ funcs[j].predicate = m
      BY <1>1, <2>3, <3>1, ProvidesFacts
    <3>3. m # 0
      BY <1>2, <3>2 DEF FunctionOf
    <3> QED
      BY <2>4, <3>2, <3>3
  <2>8. CASE \E m \in Nat : t = Invoked(m)
    <3>1. PICK m \in Nat : t = Invoked(m)
      BY <2>8
    <3>2. funcs[i].invoke = m /\ funcs[j].invoke = m /\ m # 0
      BY <1>1, <2>3, <3>1, ProvidesFacts
    <3> QED
      BY <2>4, <3>2
  <2> QED
    BY <2>5, <2>6, <2>7, <2>8
<1>5. ASSUME ~ProvidedTwice, NEW n \in Written("Task")
      PROVE  IsInjective(Outputs(args[n].fn))
  <2>1. PICK i \in DOMAIN funcs : funcs[i].of = n /\ ~funcs[i].isPredicate
    BY <1>3
  <2>2. funcs[i].outs = Outputs(args[n].fn)
    BY <1>2, <2>1 DEF FunctionOf
  <2> QED
    BY <1>5, <2>2 DEF ProvidedTwice
<1>6. ASSUME ~ProvidedTwice, NEW n \in Written("Task"), NEW m \in Written("Task"), n # m,
             NEW t \in Gives(args[n]), t \in Gives(args[m])
      PROVE  FALSE
  <2>1. PICK i \in DOMAIN funcs : funcs[i].of = n /\ ~funcs[i].isPredicate
    BY <1>3
  <2>2. PICK j \in DOMAIN funcs : funcs[j].of = m /\ ~funcs[j].isPredicate
    BY <1>3
  <2>3. t \in UserTypes
    BY TaskTypes
  <2>4. t \in Provides(funcs[i]) /\ t \in Provides(funcs[j]) /\ i # j
    BY <1>1, <1>6, <2>1, <2>2, <2>3, ProvidesFacts
  <2> QED
    BY <1>6, <2>4 DEF ProvidedTwice
<1> QED
  BY <1>4, <1>5, <1>6

(* A task that lacks an emitter was asked to be instrumented, itself or     *)
(* with the flow.                                                           *)
LEMMA EmitterLacks ==
  ASSUME TypeOK, FuncsInv, FlowInv, Linked, AllClean
  PROVE  ~LacksEmitter <=>
            (Written("WithEmitter") = {} =>
               /\ Written("InstrumentFlow") = {}
               /\ \A i \in Written("Task") : \A k \in DOMAIN args[i].opts : args[i].opts[k].kind # "Instrument")
<1>1. phase # "crashed"
  BY DEF Linked
<1>2. /\ (flow.emitters = 0 <=> Written("WithEmitter") = {})
      /\ (flow.instrumented <=> Written("InstrumentFlow") # {})
      /\ \A n \in DOMAIN args : Compiled(n) /\ Instruments(args[n]) =>
            \E i \in DOMAIN flow.tasks : flow.tasks[i].instrumented
      /\ (\E i \in DOMAIN flow.tasks : flow.tasks[i].instrumented) =>
            flow.instrumented \/ \E n \in DOMAIN args : Compiled(n) /\ Instruments(args[n])
  BY <1>1 DEF FlowInv
<1>3. \A n : n \in DOMAIN args /\ Compiled(n) <=> n \in Written("Task")
  <2>1. \A n : Compiled(n) => n \in Written("Task")
    BY DEF Compiled, Written
  <2>2. \A n \in Written("Task") : Compiled(n) /\ n \in DOMAIN args
    BY TaskFunctions DEF Written
  <2> QED
    BY <2>1, <2>2
<1>4. flow.instrumented \/ (\E i \in DOMAIN flow.tasks : flow.tasks[i].instrumented)
         <=> Written("InstrumentFlow") # {} \/ \E n \in Written("Task") : Instruments(args[n])
  BY <1>2, <1>3
<1> QED
  BY <1>2, <1>4 DEF LacksEmitter, Instruments

(* Functions wait for each other if and only if tasks do.                   *)
LEMMA CircleOfTasks ==
  ASSUME TypeOK, LinkInv, FuncsInv, Linked, AllClean, Circle
  PROVE  Circular
<1>1. phase # "crashed" /\ ProvidersKnown
  BY DEF Linked, LinkInv
<1>2. PICK S \in SUBSET DOMAIN funcs : WaitInCircle(S)
  BY DEF Circle
<1>3. S # {} /\ \A i \in S : \E t \in Range(funcs[i].deps) \intersect DOMAIN providers : providers[t] \in S
  BY <1>2 DEF WaitInCircle
<1> DEFINE T == {funcs[i].of : i \in S}
<1>4. T # {} /\ T \subseteq Written("Task")
  BY <1>2, <1>3, TaskFunctions
<1>5. ASSUME NEW i \in S, NEW t \in Range(funcs[i].deps) \intersect DOMAIN providers,
             providers[t] \in S, t \in UserTypes
      PROVE  \E m \in T : Takes(args[funcs[i].of]) \intersect Gives(args[m]) # {}
  <2>1. i \in DOMAIN funcs /\ funcs[i].predicate \in Nat
    BY <1>1, FunctionFacts
  <2>2. t # Predicted(funcs[i].predicate)
    BY <1>5, <2>1, Sentinel
  <2>3. t \in Takes(args[funcs[i].of])
    BY <1>1, <2>1, <2>2, DepsFacts
  <2>4. t \in Provides(funcs[providers[t]]) /\ providers[t] \in DOMAIN funcs
    BY <1>1 DEF ProvidersKnown
  <2>5. t \in Gives(args[funcs[providers[t]].of])
    BY <1>1, <1>5, <2>4, ProvidesFacts
  <2> QED
    BY <1>5, <2>3, <2>5
<1>6. ASSUME NEW i \in S
      PROVE  \E m \in T : Takes(args[funcs[i].of]) \intersect Gives(args[m]) # {}
  <2>1. PICK t \in Range(funcs[i].deps) \intersect DOMAIN providers : providers[t] \in S
    BY <1>3
  <2>2. CASE t \in UserTypes
    BY <1>5, <2>1, <2>2
  <2>3. CASE t \notin UserTypes
    <3> DEFINE j == providers[t]
    <3>1. i \in DOMAIN funcs /\ j \in DOMAIN funcs /\ j \in S /\ t \in Provides(funcs[j])
      BY <1>1, <2>1 DEF ProvidersKnown
    <3>2. ~funcs[i].isPredicate /\ funcs[i].predicate # 0 /\ t = Predicted(funcs[i].predicate)
      BY <1>1, <2>1, <2>3, <3>1, DepsFacts
    <3>3. funcs[i].predicate \in Nat
      BY <1>1, <3>1, FunctionFacts
    <3>4. funcs[j].isPredicate /\ funcs[j].predicate = funcs[i].predicate
      BY <1>1, <3>1, <3>2, <3>3, ProvidesFacts
    <3>5. funcs[i].of = funcs[j].of
      BY <1>1, <3>1, <3>2, <3>4 DEF FuncsInv
    <3>6. PICK u \in Range(funcs[j].deps) \intersect DOMAIN providers : providers[u] \in S
      BY <1>3, <3>1
    <3>7. u \in UserTypes
      BY <1>1, <3>1, <3>4, <3>6, DepsFacts
    <3>8. \E m \in T : Takes(args[funcs[j].of]) \intersect Gives(args[m]) # {}
      BY <1>5, <3>1, <3>6, <3>7
    <3> QED
      BY <3>5, <3>8
  <2> QED
    BY <2>2, <2>3
<1>7. \A n \in T : \E m \in T : Takes(args[n]) \intersect Gives(args[m]) # {}
  BY <1>6
<1> HIDE DEF T
<1>8. T \in (SUBSET Written("Task")) \ {{}}
  BY <1>4
<1> QED
  BY <1>7, <1>8 DEF Circular

LEMMA CircleOfFunctions ==
  ASSUME TypeOK, LinkInv, FuncsInv, Linked, AllClean, ~ProvidedTwice, Circular
  PROVE  Circle
<1>1. phase # "crashed" /\ ProvidersKnown
  BY DEF Linked, LinkInv
<1>2. PICK T \in (SUBSET Written("Task")) \ {{}} :
         \A n \in T : \E m \in T : Takes(args[n]) \intersect Gives(args[m]) # {}
  BY DEF Circular
<1> DEFINE Hits(i) == \E t \in Range(funcs[i].deps) \intersect DOMAIN providers :
                         funcs[providers[t]].of \in T /\ ~funcs[providers[t]].isPredicate
           S == {i \in DOMAIN funcs : funcs[i].of \in T /\ (funcs[i].isPredicate => Hits(i))}
<1>3. ASSUME NEW n \in T
      PROVE  \E i \in DOMAIN funcs :
                /\ funcs[i].of = n /\ Hits(i)
                /\ funcs[i].isPredicate =>
                      \E j \in DOMAIN funcs :
                         /\ funcs[j].of = n /\ ~funcs[j].isPredicate
                         /\ funcs[i].predicate # 0 /\ funcs[j].predicate = funcs[i].predicate
  <2>0. n \in Written("Task")
    BY <1>2
  <2>1. PICK m \in T : Takes(args[n]) \intersect Gives(args[m]) # {}
    BY <1>2
  <2>2. PICK t : t \in Takes(args[n]) /\ t \in Gives(args[m])
    BY <2>1
  <2>3. t \in UserTypes /\ m \in Written("Task")
    BY <1>2, <2>0, <2>2, TaskTypes
  <2>4. PICK k \in DOMAIN funcs : funcs[k].of = m /\ ~funcs[k].isPredicate
    BY <2>3, TaskFunctions
  <2>5. t \in Provides(funcs[k])
    BY <1>1, <2>2, <2>3, <2>4, ProvidesFacts
  <2>6. t \in DOMAIN providers /\ providers[t] = k
    BY <1>1, <2>5, OneProvider
  <2>7. PICK i \in DOMAIN funcs :
            /\ funcs[i].of = n /\ t \in Range(funcs[i].deps)
            /\ funcs[i].isPredicate =>
                  \E j \in DOMAIN funcs :
                     /\ funcs[j].of = n /\ ~funcs[j].isPredicate
                     /\ funcs[i].predicate # 0 /\ funcs[j].predicate = funcs[i].predicate
    BY <2>0, <2>2, TakenBy
  <2>8. Hits(i)
    BY <2>1, <2>4, <2>6, <2>7
  <2> QED
    BY <2>7, <2>8
<1>4. ASSUME NEW i \in DOMAIN funcs, funcs[i].of \in T, Hits(i)
      PROVE  \E t \in Range(funcs[i].deps) \intersect DOMAIN providers : providers[t] \in S
  <2>1. PICK t \in Range(funcs[i].deps) \intersect DOMAIN providers :
            funcs[providers[t]].of \in T /\ ~funcs[providers[t]].isPredicate
    BY <1>4
  <2>2. providers[t] \in DOMAIN funcs
    BY <1>1 DEF ProvidersKnown
  <2> QED
    BY <2>1, <2>2
<1>5. ASSUME NEW i \in S
      PROVE  \E t \in Range(funcs[i].deps) \intersect DOMAIN providers : providers[t] \in S
  <2>1. i \in DOMAIN funcs /\ funcs[i].of \in T
    OBVIOUS
  <2>2. CASE Hits(i)
    BY <1>4, <2>1, <2>2
  <2>3. CASE ~Hits(i)
    <3>1. ~funcs[i].isPredicate
      BY <2>3
    <3>2. PICK k \in DOMAIN funcs :
            /\ funcs[k].of = funcs[i].of /\ Hits(k)
            /\ funcs[k].isPredicate =>
                  \E j \in DOMAIN funcs :
                     /\ funcs[j].of = funcs[i].of /\ ~funcs[j].isPredicate
                     /\ funcs[k].predicate # 0 /\ funcs[j].predicate = funcs[k].predicate
      BY <1>3, <2>1
    <3>3. \A j \in DOMAIN funcs : funcs[j].of = funcs[i].of /\ ~funcs[j].isPredicate => j = i
      BY <1>1, <2>1, <3>1 DEF FuncsInv
    <3>4. funcs[k].isPredicate
      BY <2>3, <3>2, <3>3
    <3>5. funcs[k].predicate # 0 /\ funcs[i].predicate = funcs[k].predicate
      BY <3>2, <3>3, <3>4
    <3>6. funcs[k].predicate \in Nat
      BY <1>1, <3>2, FunctionFacts
    <3> DEFINE t == Predicted(funcs[k].predicate)
    <3>7. t \in Provides(funcs[k])
      BY <1>1, <3>2, <3>4, <3>6, ProvidesFacts
    <3>8. t \in DOMAIN providers /\ providers[t] = k
      BY <1>1, <3>2, <3>7, OneProvider
    <3>9. t \in Range(funcs[i].deps)
      BY <1>1, <2>1, <3>1, <3>5, DepsFacts
    <3>10. k \in S
      BY <2>1, <3>2
    <3> QED
      BY <3>8, <3>9, <3>10
  <2> QED
    BY <2>2, <2>3
<1>6. S # {} /\ S \subseteq DOMAIN funcs
  <2>1. PICK n \in T : TRUE
    BY <1>2
  <2>2. PICK i \in DOMAIN funcs : funcs[i].of = n /\ Hits(i)
    BY <1>3
  <2>3. i \in S
    BY <2>2
  <2> QED
    BY <2>3
<1> HIDE DEF S
<1>7. WaitInCircle(S)
  BY <1>5, <1>6 DEF WaitInCircle
<1> QED
  BY <1>6, <1>7 DEF Circle
-----------------------------------------------------------------------------
(* Accepted, and refused                                                   *)

(* What the documentation asks for in terms of what is checked.             *)
LEMMA ValidIfClean ==
  ASSUME TypeOK
  PROVE  (\A i \in DOMAIN args : ValidArgument(args[i]))
            <=> AllClean /\ \A n \in Written("Task") : IsInjective(Outputs(args[n].fn))
<1>1. ASSUME NEW i \in DOMAIN args
      PROVE  ValidArgument(args[i]) <=>
                Clean(args[i]) /\ (args[i].kind = "Task" => IsInjective(Outputs(args[i].fn)))
  BY DEF ValidArgument, ValidTask, Clean
<1> QED
  BY <1>1 DEF AllClean, Written

(* Nothing is refused for no reason.                                        *)
RefusedInv == phase = "refused" => errors # {}

LEMMA RefusedStep ==
  ASSUME TypeOK, RefusedInv, [Next]_vars
  PROVE  RefusedInv'
<1>1. CASE \/ \E a \in Arguments : Reading(a)
           \/ Interpret \/ EndTask \/ Link
  <2>1. phase' # "refused"
    <3>1. ASSUME NEW a \in Arguments, Reading(a)  PROVE phase' # "refused"
      BY <3>1, ReadFacts
    <3>2. CASE Interpret
      BY <3>2, InterpretFacts DEF Interpreted
    <3>3. CASE EndTask
      BY <3>3, EndTaskFacts
    <3>4. CASE Link
      BY <3>4 DEF Link
    <3> QED
      BY <1>1, <3>1, <3>2, <3>3, <3>4
  <2> QED
    BY <2>1 DEF RefusedInv
<1>2. CASE NoArguments
  BY <1>2 DEF NoArguments, RefusedInv
<1>3. CASE \/ \E t \in queue : Visit(t)
           \/ EndVisits \/ SearchBack
           \/ \E i \in DOMAIN funcs : SortFrom(i)
           \/ \E t \in DOMAIN providers : SortBelow(t)
           \/ SortBack \/ Accept
  <2>1. phase' # "refused"
    BY <1>3 DEF Visit, EndVisits, SearchBack, Searches, SortFrom, SortBelow, SortBack, Accept, Sorts
  <2> QED
    BY <2>1 DEF RefusedInv
<1>4. CASE \E i \in DOMAIN funcs : \E t \in Unsearched(i) : SearchBelow(i, t)
  <2>1. phase' = "refused" => errors' = errors \union {"Cycle"}
    BY <1>4, BelowFacts
  <2> QED
    BY <2>1 DEF RefusedInv
<1>5. CASE EndSearch
  BY <1>5 DEF EndSearch, RefusedInv
<1>6. CASE Done \/ UNCHANGED vars
  BY <1>6 DEF Done, vars, RefusedInv
<1> QED
  BY <1>1, <1>2, <1>3, <1>4, <1>5, <1>6 DEF Next, Walking

IInv == /\ TypeOK /\ LinkInv /\ CycleInv /\ TaskInv /\ FuncsInv
        /\ FlowInv /\ ErrorsInv /\ ReachInv /\ RefusedInv

LEMMA AcceptableIfAccepted ==
  ASSUME IInv, phase = "accepted"
  PROVE  Acceptable
<1> USE DEF IInv
<1>1. Linked /\ errors = {} /\ ~Circle /\ ProvidersKnown
  BY DEF Linked, CycleInv, LinkInv
<1>2. /\ AllClean /\ args # <<>>
      /\ ~LacksEmitter /\ ~ProvidedTwice /\ Provided \subseteq received
      /\ visited \subseteq DOMAIN providers \union flow.inputs /\ Unused = {}
      /\ \A i \in DOMAIN funcs : Range(funcs[i].deps) \subseteq visited
  BY <1>1, NothingReported DEF AllClean, Checked, ErrorsInv
<1>3. \A i \in DOMAIN args : ValidArgument(args[i])
  BY <1>1, <1>2, ValidIfClean, ProvidedOnce
<1>4. \A i, k \in Written("Task") : i # k => Gives(args[i]) \intersect Gives(args[k]) = {}
  BY <1>1, <1>2, ProvidedOnce
<1>5. /\ flow.inputs = Supplied /\ Supplied \subseteq UserTypes /\ Needed \subseteq UserTypes
      /\ \A t \in UserTypes : t \in Needed <=> t \in flow.outputs \union Waited
      /\ Given \subseteq UserTypes /\ \A t \in UserTypes : t \in Provided <=> t \in Given
  BY <1>1, <1>2, NeededFacts, GivenProvided
<1>6. DOMAIN providers = Provided
  BY <1>1 DEF ProvidersKnown
<1>7. flow.inputs \subseteq visited /\ flow.inputs \intersect Provided = {}
  BY <1>2, <1>6 DEF Unused
<1>8. Given \intersect Supplied = {}
  BY <1>5, <1>7
<1>9. Given \subseteq Needed
  BY <1>1, <1>2, ProvidedReceived
<1>10. Supplied \subseteq Needed
  <2>1. visited \subseteq flow.outputs \union Sentinels \union Waited
    BY <1>1 DEF ReachInv
  <2>2. \A t \in UserTypes : t \notin Sentinels
    <3>1. flow.invokeTypeCnt \in Nat
      BY DEF TypeOK, Flows
    <3> QED
      BY <3>1, Sentinel DEF Sentinels
  <2> QED
    BY <1>5, <1>7, <2>1, <2>2
<1>11. Needed \subseteq Given \union Supplied
  <2>1. flow.outputs \subseteq visited
    BY <1>1 DEF ReachInv
  <2>2. Waited \subseteq visited
    BY <1>2 DEF Waited
  <2> QED
    BY <1>2, <1>5, <1>6, <2>1, <2>2
<1>12. ~Circular
  BY <1>1, <1>2, CircleOfFunctions
<1>13. Written("WithEmitter") = {} =>
          /\ Written("InstrumentFlow") = {}
          /\ \A i \in Written("Task") : \A k \in DOMAIN args[i].opts : args[i].opts[k].kind # "Instrument"
  BY <1>1, <1>2, EmitterLacks
<1>14. Given \union Supplied = Needed
  BY <1>9, <1>10, <1>11
<1> HIDE DEF IInv
<1> QED
  BY <1>2, <1>3, <1>4, <1>8, <1>12, <1>13, <1>14 DEF Acceptable

LEMMA NotAcceptableIfRefused ==
  ASSUME IInv, phase = "refused"
  PROVE  ~Acceptable
<1> USE DEF IInv
<1>1. SUFFICES ASSUME Acceptable  PROVE FALSE
  OBVIOUS
<1>2. /\ args # <<>> /\ \A i \in DOMAIN args : ValidArgument(args[i])
      /\ \A i, k \in Written("Task") : i # k => Gives(args[i]) \intersect Gives(args[k]) = {}
      /\ Given \intersect Supplied = {} /\ Given \union Supplied = Needed
      /\ ~Circular
  BY <1>1 DEF Acceptable
<1>3. Written("WithEmitter") = {} =>
          /\ Written("InstrumentFlow") = {}
          /\ \A i \in Written("Task") : \A k \in DOMAIN args[i].opts : args[i].opts[k].kind # "Instrument"
  BY <1>1 DEF Acceptable
<1>4. Linked
  BY <1>2 DEF Linked
<1>5. AllClean /\ \A n \in Written("Task") : IsInjective(Outputs(args[n].fn))
  BY <1>2, ValidIfClean
<1>6. ~Circle /\ "Cycle" \notin errors
  BY <1>2, <1>4, <1>5, CircleOfTasks DEF CycleInv
<1>7. ~LacksEmitter /\ ~ProvidedTwice
  BY <1>2, <1>3, <1>4, <1>5, EmitterLacks, ProvidedOnce
<1>8. /\ flow.inputs = Supplied /\ Supplied \subseteq UserTypes /\ flow.outputs \subseteq UserTypes
      /\ \A t \in UserTypes : t \in Needed <=> t \in flow.outputs \union Waited
      /\ Given \subseteq UserTypes /\ \A t \in UserTypes : t \in Provided <=> t \in Given
  BY <1>4, <1>5, NeededFacts, GivenProvided
<1>9. Provided \subseteq received
  BY <1>2, <1>4, <1>5, ProvidedReceived
<1>10. ProvidersKnown /\ DOMAIN providers = Provided
  BY <1>4 DEF LinkInv, ProvidersKnown
<1>11. /\ flow.outputs \subseteq visited
       /\ visited \subseteq flow.outputs \union Sentinels \union Waited
       /\ visited \intersect Sentinels \subseteq Provided
  BY <1>4, <1>10 DEF ReachInv
<1>12. \A t \in Waited : t \notin UserTypes => t \in Provided
  BY <1>4, <1>5, WaitedFacts
<1>13. visited \subseteq DOMAIN providers \union flow.inputs
  BY <1>2, <1>8, <1>10, <1>11, <1>12
<1>14. \A i \in DOMAIN funcs : Range(funcs[i].deps) \subseteq visited
  <2>1. ASSUME NEW i \in DOMAIN funcs  PROVE Provides(funcs[i]) # {}
    <3>1. phase # "crashed"
      OBVIOUS
    <3>2. funcs[i].of \in DOMAIN args /\ args[funcs[i].of].kind = "Task"
      BY <3>1, FunctionFacts
    <3>3. WantsInvoke(args[funcs[i].of]) <=> Outputs(args[funcs[i].of].fn) = <<>>
      BY <1>5, <3>2 DEF AllClean, Clean
    <3> QED
      BY <3>1, <3>3, ProvidesFacts
  <2> QED
    BY <1>4, <1>6, <1>7, <1>9, <2>1, EveryFunctionReached
<1>15. Unused = {}
  <2>1. Waited \subseteq visited
    BY <1>14 DEF Waited
  <2>2. flow.inputs \subseteq visited
    BY <1>2, <1>8, <1>11, <2>1
  <2>3. flow.inputs \intersect DOMAIN providers = {}
    BY <1>2, <1>8, <1>10
  <2> QED
    BY <2>2, <2>3 DEF Unused
<1>16. Checked
  BY <1>7, <1>9, <1>13, <1>15 DEF Checked
<1>17. errors = {}
  BY <1>4, <1>5, <1>6, <1>16 DEF ErrorsInv, AllClean
<1> QED
  BY <1>17 DEF RefusedInv

-----------------------------------------------------------------------------
(* What the compiler asks for is what the documentation asks for, but for   *)
(* what it tolerates and what it refuses besides.                           *)

Tolerated == {"no work", "assignable"}

LEMMA DocumentedOptions ==
  ASSUME NEW a, NEW o,
         o.kind = "FallbackWith" => o.fits \in Seq({"same", "assignable", "other"}),
         o.kind = "Predicate" => o.fn.shape \in {"func", "named", "other"}
  PROVE  ValidOption(a, o) <=>
            /\ DocumentedOption(a, o, Tolerated)
            /\ o.kind = "FallbackWith" => HasError(a.fn)
            /\ o.kind = "Predicate" => o.fn.shape # "named"
<1>1. o.kind = "Predicate" =>
         (IsPredicate(o.fn) <=> Compiles(o.fn) /\ o.fn.results = <<"bool">> /\ o.fn.shape # "named")
  BY DEF IsPredicate, Compiles
<1>2. {"same"} \union (Tolerated \intersect {"assignable"}) = {"same", "assignable"}
  BY DEF Tolerated
<1>3. o.kind = "FallbackWith" =>
         ((\A i \in DOMAIN o.fits : o.fits[i] # "other") <=> Range(o.fits) \subseteq {"same", "assignable"})
  <2>1. SUFFICES ASSUME o.kind = "FallbackWith", NEW f, f = o.fits
                 PROVE  (\A i \in DOMAIN f : f[i] # "other") <=> Range(f) \subseteq {"same", "assignable"}
    OBVIOUS
  <2>2. \A i \in DOMAIN f : f[i] \in {"same", "assignable", "other"}
    BY <2>1
  <2> QED
    BY <2>2 DEF Range
<1> QED
  BY <1>1, <1>2, <1>3 DEF ValidOption, DocumentedOption

LEMMA DocumentedTasks ==
  ASSUME NEW a \in Arguments, a.kind = "Task"
  PROVE  ValidTask(a) <=>
            /\ DocumentedTask(a, Tolerated)
            /\ ~(WantsInvoke(a) /\ Outputs(a.fn) # <<>>)
            /\ ~\E k \in DOMAIN a.opts :
                  \/ a.opts[k].kind = "FallbackWith" /\ ~HasError(a.fn)
                  \/ a.opts[k].kind = "Predicate" /\ a.opts[k].fn.shape = "named"
<1>1. \A k \in DOMAIN a.opts :
         /\ a.opts[k].kind = "FallbackWith" => a.opts[k].fits \in Seq({"same", "assignable", "other"})
         /\ a.opts[k].kind = "Predicate" => a.opts[k].fn.shape \in {"func", "named", "other"}
  BY ArgumentsTyped
<1>2. \A k \in DOMAIN a.opts :
         ValidOption(a, a.opts[k]) <=>
            /\ DocumentedOption(a, a.opts[k], Tolerated)
            /\ a.opts[k].kind = "FallbackWith" => HasError(a.fn)
            /\ a.opts[k].kind = "Predicate" => a.opts[k].fn.shape # "named"
  BY <1>1, DocumentedOptions
<1> QED
  BY <1>2 DEF ValidTask, DocumentedTask

LEMMA DocumentedArguments ==
  ASSUME IInv
  PROVE  (\A i \in DOMAIN args : ValidArgument(args[i])) <=>
            (\A i \in DOMAIN args : DocumentedArgument(args[i], Tolerated)) /\ ~AllowedButRefused
<1> DEFINE Refused(a) ==
        \/ WantsInvoke(a) /\ Outputs(a.fn) # <<>>
        \/ \E k \in DOMAIN a.opts :
              \/ a.opts[k].kind = "FallbackWith" /\ ~HasError(a.fn)
              \/ a.opts[k].kind = "Predicate" /\ a.opts[k].fn.shape = "named"
<1>1. AllowedButRefused <=>
         \E i \in DOMAIN args : \/ args[i].kind = "ContinueOnError"
                                \/ args[i].kind = "Task" /\ Refused(args[i])
  BY DEF AllowedButRefused, Written
<1>2. \A i \in DOMAIN args : args[i] \in Arguments
  BY DEF IInv, TypeOK
<1>3. \A i \in DOMAIN args : args[i].kind = "Task" =>
         (ValidTask(args[i]) <=> DocumentedTask(args[i], Tolerated) /\ ~Refused(args[i]))
  BY <1>2, DocumentedTasks
<1>4. ASSUME NEW i \in DOMAIN args
      PROVE  ValidArgument(args[i]) <=>
                /\ DocumentedArgument(args[i], Tolerated)
                /\ args[i].kind # "ContinueOnError"
                /\ ~(args[i].kind = "Task" /\ Refused(args[i]))
  <2> HIDE DEF Refused
  <2> QED
    BY <1>3 DEF ValidArgument, DocumentedArgument
<1> HIDE DEF Refused
<1> QED
  BY <1>1, <1>4

LEMMA AcceptableAsDocumented ==
  ASSUME IInv
  PROVE  Acceptable <=> DocumentedButFor
<1>1. Acceptable <=> /\ args # <<>> /\ \A i \in DOMAIN args : ValidArgument(args[i])
                     /\ \A i, k \in Written("Task") : i # k => Gives(args[i]) \intersect Gives(args[k]) = {}
                     /\ Given \intersect Supplied = {}
                     /\ Needed \subseteq Given \union Supplied
                     /\ MustBeConsumed \union Supplied \subseteq Needed
                     /\ ~Circular
                     /\ Written("WithEmitter") = {} =>
                           /\ Written("InstrumentFlow") = {}
                           /\ \A i \in Written("Task") :
                                 \A k \in DOMAIN args[i].opts : args[i].opts[k].kind # "Instrument"
  <2>1. ASSUME \A i \in DOMAIN args : ValidArgument(args[i])  PROVE MustBeConsumed = Given
    <3>1. ASSUME NEW i \in Written("Task"), WantsInvoke(args[i])  PROVE Gives(args[i]) = {}
      <4>1. Outputs(args[i].fn) = <<>>
        BY <2>1, <3>1 DEF ValidArgument, ValidTask, Written
      <4> QED
        BY <4>1 DEF Gives, Range
    <3> QED
      BY <3>1 DEF MustBeConsumed, Given
  <2> QED
    BY <2>1 DEF Acceptable
<1>2. "no work" \in Tolerated
  BY DEF Tolerated
<1>3. DocumentedButFor <=> AsDocumented(Tolerated) /\ ~AllowedButRefused
  BY DEF DocumentedButFor, Tolerated
<1> QED
  BY <1>1, <1>2, <1>3, DocumentedArguments DEF AsDocumented

(* A flow is accepted if and only if its arguments are what the             *)
(* documentation asks for, but for the six points that are listed, whatever *)
(* the arguments are and however many.                                      *)
THEOREM AcceptedIffDocumented == Spec => []FlowAcceptedIffDocumented
<1>1. Init => IInv
  <2>1. Init => RefusedInv
    BY DEF Init, RefusedInv
  <2> QED
    BY <2>1, TypeInit, LinkInit, CycleInit, RestInit DEF IInv
<1>2. IInv /\ [Next]_vars => IInv'
  BY TypeStep, LinkStep, CycleStep, TaskStep, FuncsStep, FlowStep, ErrorsStep, ReachStep, RefusedStep DEF IInv
<1>3. IInv => FlowAcceptedIffDocumented
  BY AcceptableIfAccepted, NotAcceptableIfRefused, AcceptableAsDocumented DEF FlowAcceptedIffDocumented
<1> QED
  BY <1>1, <1>2, <1>3, PTL DEF Spec
=============================================================================
