---------------------------- MODULE FlowCompiler ----------------------------
(***************************************************************************)
(* How a call of cff.Flow is compiled (internal/compile.go, cycle.go and    *)
(* graph.go): the arguments are read one by one in the order in which the   *)
(* user wrote them, a task's options likewise; functions are linked by the  *)
(* types they provide and consume; the types that are needed are visited    *)
(* from the results on; cycles are searched for; and the functions of a     *)
(* flow without errors are sorted. A walk is one step for each type or      *)
(* function that it comes to.                                               *)
(*                                                                         *)
(* The user chooses the arguments while they are read: args is what he      *)
(* wrote so far. Types are those of the user's functions and sentinels,     *)
(* which stand for the outcome of a predicate or for a task without         *)
(* results. What replaces an argument in the generated file (modifiers) is  *)
(* left out.                                                                *)
(***************************************************************************)
EXTENDS Signature, FiniteSets, SequencesExt

CONSTANTS
    Plain, Odd,     \* the arguments a user may write, those out of the ordinary apart
    UserTypes,      \* the types in them
    MaxArgs,        \* bound: the number of arguments
    MaxOdd,         \* bound: the number of odd ones among them
    AutoInstrument  \* the flag --auto-instrument

Arguments == Plain \union Odd

(* No user can write the type of a sentinel.                                *)
Invoked(n)   == <<"invoke", n>>
Predicted(n) == <<"predicate", n>>

ASSUME SentinelsApart == \A t \in UserTypes : t \notin {"invoke", "predicate"} \X Nat

ASSUME ArgumentsTyped ==
    \A a \in Arguments :
        /\ a.kind = "Params"  => Range(a.types) \subseteq UserTypes
        /\ a.kind = "Results" => Range(a.types) \ {"NoPointer"} \subseteq UserTypes
        /\ a.kind = "Task" =>
              /\ Inputs(a.fn) \in Seq(UserTypes) /\ Outputs(a.fn) \in Seq(UserTypes)
              /\ Len(a.opts) \in Nat /\ DOMAIN a.opts = 1..Len(a.opts)
              /\ \A k \in DOMAIN a.opts :
                    /\ a.opts[k].kind \in {"NoOption", "FallbackWith", "Predicate", "Instrument", "Invoke"}
                    /\ a.opts[k].kind = "FallbackWith" =>
                          a.opts[k].fits \in Seq({"same", "assignable", "other"})
                    /\ a.opts[k].kind = "Predicate" =>
                          /\ Inputs(a.opts[k].fn) \in Seq(UserTypes)
                          /\ a.opts[k].fn.shape \in {"func", "named", "other"}
                    /\ a.opts[k].kind = "Invoke" => a.opts[k].value \in {"true", "false", "variable"}

VARIABLES
    args,       \* what the user wrote
    phase,      \* "reading", "options", "visiting", "searching", "sorting",
                \* "accepted", "refused", "crashed"
    flow,       \* the arguments as compiled
    task,       \* the task whose options are read
    funcs,      \* flow.Funcs: tasks, and predicates after their task
    providers,  \* flow.providers: a type's function
    received,   \* the keys of flow.receivers
    queue,      \* the types validateFuncs has yet to visit
    visited,    \* those it has visited
    path,       \* the types that lead to where cycles are searched for
    searched,   \* those below which there is no cycle
    stack,      \* the functions toposort is in
    topo,       \* flow.TopoFuncs
    errors      \* c.errors, by kind

walks == <<queue, visited, path, searched, stack, topo>>
vars  == <<args, phase, flow, task, funcs, providers, received, walks, errors>>

(* A task before its options are read; 0 stands for nil.                    *)
NewTask == [next |-> 1, fallback |-> FALSE, instrumented |-> FALSE,
            invoke |-> 0, predicate |-> 0, predicateInputs |-> <<>>]

Init ==
    /\ args = <<>> /\ phase = "reading"
    /\ flow = [inputs |-> {}, outputs |-> {}, emitters |-> 0,
               instrumented |-> FALSE, concurrency |-> 0, invokeTypeCnt |-> 0,
               predicateTypeCnt |-> 0, tasks |-> <<>>]
    /\ task = NewTask
    /\ funcs = <<>> /\ providers = <<>> /\ received = {}
    /\ queue = {} /\ visited = {} /\ path = <<>> /\ searched = {} /\ stack = <<>> /\ topo = <<>>
    /\ errors = {}

-----------------------------------------------------------------------------
(* The loop over the arguments                                             *)

Read(a) ==
    /\ phase = "reading"
    /\ Len(args) < MaxArgs
    /\ a \in Odd => Cardinality({i \in DOMAIN args : args[i] \in Odd}) < MaxOdd
    /\ args' = Append(args, a)
    /\ UNCHANGED <<funcs, providers, walks>>

(* Neither a call, nor of cff, nor meant for a flow.                        *)
ReadInvalid(a) ==
    /\ Read(a)
    /\ a.kind \in {"NoCall", "Foreign", "ParallelOption", "ContinueOnError"}
    /\ errors' = errors \union {a.kind}
    /\ UNCHANGED <<phase, flow, task, received>>

(* A type is compared with those of this call of Params only.               *)
ReadParams(a) ==
    /\ Read(a)
    /\ a.kind = "Params"
    /\ flow' = [flow EXCEPT !.inputs = @ \union Range(a.types)]
    /\ errors' = errors \union ErrorsIf(~IsInjective(a.types), "ParamTwice")
    /\ UNCHANGED <<phase, task, received>>

CompiledOutputs(types) == Range(types) \ {"NoPointer"}

ReadResults(a) ==
    /\ Read(a)
    /\ a.kind = "Results"
    /\ flow' = [flow EXCEPT !.outputs = @ \union CompiledOutputs(a.types)]
    /\ received' = received \union CompiledOutputs(a.types)
    /\ errors' = errors \union ErrorsIf("NoPointer" \in Range(a.types), "NoPointer")
    /\ UNCHANGED <<phase, task>>

ReadFlowOption(a) ==
    /\ Read(a)
    /\ \/ a.kind = "InstrumentFlow" /\ flow' = [flow EXCEPT !.instrumented = TRUE]
       \/ a.kind = "WithEmitter"    /\ flow' = [flow EXCEPT !.emitters = @ + 1]
       \/ a.kind = "Concurrency"    /\ flow' = [flow EXCEPT !.concurrency = Len(args')]
    /\ UNCHANGED <<phase, task, received, errors>>

-----------------------------------------------------------------------------
(* A task: what does not compile is dropped, otherwise its options are      *)
(* interpreted in order. The task is the argument read last.                *)

ReadTask(a) ==
    /\ Read(a)
    /\ a.kind = "Task"
    /\ IF Compiles(a.fn)
       THEN phase' = "options" /\ task' = NewTask /\ UNCHANGED errors
       ELSE errors' = errors \union {"Signature"} /\ UNCHANGED <<phase, task>>
    /\ UNCHANGED <<flow, received>>

ThisTask   == Last(args)
NextOption == ThisTask.opts[task.next]

Interprets(kind) ==
    /\ phase = "options"
    /\ task.next \in DOMAIN ThisTask.opts
    /\ NextOption.kind = kind
    /\ UNCHANGED <<args, funcs, providers, received, walks>>

InterpretNoOption ==
    /\ Interprets("NoOption")
    /\ task' = [task EXCEPT !.next = @ + 1]
    /\ errors' = errors \union {"NoOption"}
    /\ UNCHANGED <<phase, flow>>

(* fits: how each value stands to the task's result, "same" or "assignable"  *)
(* to it or "other". Only the first thing that is wrong is reported, but     *)
(* every value that cannot be assigned.                                     *)
InterpretFallbackWith ==
    /\ Interprets("FallbackWith")
    /\ LET fits    == NextOption.fits
           refusal == IF Len(fits) # Len(Outputs(ThisTask.fn)) THEN {"FallbackCount"}
                      ELSE ErrorsIf(~HasError(ThisTask.fn), "FallbackNoError")
       IN  /\ task' = [task EXCEPT !.next = @ + 1, !.fallback = @ \/ refusal = {}]
           /\ errors' = errors \union
                 IF refusal # {} THEN refusal
                 ELSE ErrorsIf(\E i \in DOMAIN fits : fits[i] = "other", "FallbackType")
    /\ UNCHANGED <<phase, flow>>

(* The last predicate counts. A sentinel is made for each.                  *)
InterpretPredicate ==
    /\ Interprets("Predicate")
    /\ IF IsPredicate(NextOption.fn)
       THEN /\ flow' = [flow EXCEPT !.predicateTypeCnt = @ + 1]
            /\ task' = [task EXCEPT !.next = @ + 1, !.predicate = flow.predicateTypeCnt + 1,
                                    !.predicateInputs = Inputs(NextOption.fn)]
            /\ UNCHANGED errors
       ELSE /\ task' = [task EXCEPT !.next = @ + 1, !.predicate = 0]
            /\ errors' = errors \union {"PredicateSignature"}
            /\ UNCHANGED flow
    /\ UNCHANGED phase

InterpretInstrument ==
    /\ Interprets("Instrument")
    /\ task' = [task EXCEPT !.next = @ + 1, !.instrumented = TRUE]
    /\ UNCHANGED <<phase, flow, errors>>

(* The sentinel of an Invoke(true) is recorded even if a later Invoke takes *)
(* its place. A value that is not constant has no boolean value.            *)
InterpretInvoke ==
    /\ Interprets("Invoke")
    /\ \/ /\ NextOption.value = "true"
          /\ flow' = [flow EXCEPT !.invokeTypeCnt = @ + 1]
          /\ task' = [task EXCEPT !.next = @ + 1, !.invoke = flow.invokeTypeCnt + 1]
          /\ UNCHANGED phase
       \/ /\ NextOption.value = "false"
          /\ task' = [task EXCEPT !.next = @ + 1, !.invoke = 0]
          /\ UNCHANGED <<phase, flow>>
       \/ /\ NextOption.value = "variable"
          /\ phase' = "crashed"
          /\ UNCHANGED <<flow, task>>
    /\ UNCHANGED errors

Interpret == \/ InterpretNoOption \/ InterpretFallbackWith \/ InterpretPredicate
             \/ InterpretInstrument \/ InterpretInvoke

(* A function is that of a task, or that of a task's predicate, which has   *)
(* the number under which the task waits for it.                            *)
TaskFunction ==
    [of |-> Len(args), isPredicate |-> FALSE, invoke |-> task.invoke, predicate |-> task.predicate,
     deps |-> Inputs(ThisTask.fn) \o IF task.predicate = 0 THEN <<>> ELSE <<Predicted(task.predicate)>>,
     outs |-> Outputs(ThisTask.fn)]
PredicateFunction ==
    [of |-> Len(args), isPredicate |-> TRUE, invoke |-> 0, predicate |-> task.predicate,
     deps |-> task.predicateInputs, outs |-> <<Predicted(task.predicate)>>]

TaskErrors ==
    ErrorsIf(Outputs(ThisTask.fn) = <<>> /\ task.invoke = 0, "NoOutput")
    \union ErrorsIf(Outputs(ThisTask.fn) # <<>> /\ task.invoke # 0, "InvokeWithOutput")

AutoInstrumented == flow.instrumented /\ AutoInstrument
CompiledTask     == [fallback |-> task.fallback, predicate |-> task.predicate,
                     instrumented |-> task.instrumented \/ AutoInstrumented]

EndTask ==
    /\ phase = "options" /\ task.next \notin DOMAIN ThisTask.opts
    /\ errors' = errors \union TaskErrors
    /\ flow' = [flow EXCEPT !.tasks = Append(@, CompiledTask)]
    /\ funcs' = funcs \o IF task.predicate = 0 THEN <<TaskFunction>>
                         ELSE <<TaskFunction, PredicateFunction>>
    /\ phase' = "reading"
    /\ UNCHANGED <<args, task, providers, received, walks>>

-----------------------------------------------------------------------------
(* The checks after the loop                                               *)

(* validateInstrument                                                      *)
LacksEmitter ==
    /\ flow.emitters = 0
    /\ flow.instrumented \/ \E i \in DOMAIN flow.tasks : flow.tasks[i].instrumented

Provides(f)  == Range(f.outs) \union IF f.invoke = 0 THEN {} ELSE {Invoked(f.invoke)}
Providers(t) == {i \in DOMAIN funcs : t \in Provides(funcs[i])}
Provided     == UNION {Provides(funcs[i]) : i \in DOMAIN funcs}
ProvidedTwice ==
    \/ \E i \in DOMAIN funcs : ~IsInjective(funcs[i].outs)
    \/ \E i, j \in DOMAIN funcs : i # j /\ Provides(funcs[i]) \intersect Provides(funcs[j]) # {}

(* A call with a context and nothing else is refused at once.               *)
NoArguments ==
    /\ phase = "reading" /\ args = <<>>
    /\ errors' = errors \union {"NoArguments"}
    /\ phase' = "refused"
    /\ UNCHANGED <<args, flow, task, funcs, providers, received, walks>>

(* What functions wait for, and the sentinel of a task without results,     *)
(* which receives its own.                                                  *)
Received == (UNION {Range(funcs[i].deps) : i \in DOMAIN funcs})
            \union {Invoked(funcs[i].invoke) : i \in {k \in DOMAIN funcs : funcs[k].invoke # 0}}

OneSentinelMore == {Invoked(n) : n \in 1..(flow.invokeTypeCnt + 1)}   \* mutant
Sentinels == {Invoked(n) : n \in 1..flow.invokeTypeCnt}

(* The loop that fills in receivers and providers, in which the last        *)
(* provider of a type takes its place; then validateNoUnusedOutputTypes,    *)
(* and the queue of validateFuncs.                                          *)
Link ==
    /\ phase = "reading" /\ args # <<>>
    /\ providers' = [t \in Provided |-> Max(Providers(t))]
    /\ received' = received \union Received
    /\ errors' = errors
          \union ErrorsIf(LacksEmitter, "NoEmitter")
          \union ErrorsIf(ProvidedTwice, "ProvidedTwice")
          \union ErrorsIf(~(Provided \subseteq received'), "UnusedOutput")
    /\ queue' = flow.outputs \union Sentinels
    /\ phase' = "visiting"
    /\ UNCHANGED <<args, flow, task, funcs, visited, path, searched, stack, topo>>

-----------------------------------------------------------------------------
(* validateFuncs. In which order the types of the queue are taken does not  *)
(* matter. Where a missing type was needed is part of the message, and for  *)
(* a sentinel there is no such place.                                       *)
Visit(t) ==
    /\ phase = "visiting"
    /\ t \in queue
    /\ visited' = visited \union {t}
    /\ \/ /\ t \in DOMAIN providers
          /\ queue' = (queue \union Range(funcs[providers[t]].deps)) \ visited'
          /\ UNCHANGED <<phase, errors>>
       \/ /\ t \notin DOMAIN providers
          /\ queue' = queue \ {t}
          /\ errors' = errors \union ErrorsIf(t \notin flow.inputs, "NoProvider")
          /\ phase' = IF t \in Sentinels \ flow.inputs THEN "crashed" ELSE "visiting"
    /\ UNCHANGED <<args, flow, task, funcs, providers, received, path, searched, stack, topo>>

UnusedUnlessVisited == flow.inputs \ visited                           \* mutant
Unused == flow.inputs \ (visited \ DOMAIN providers)

EndVisits ==
    /\ phase = "visiting" /\ queue = {}
    /\ errors' = errors \union ErrorsIf(Unused # {}, "UnusedInput")
    /\ phase' = "searching"
    /\ UNCHANGED <<args, flow, task, funcs, providers, received, walks>>

-----------------------------------------------------------------------------
(* Cycles                                                                  *)

DependenciesOfTasks(i) ==                                              \* mutant
    (Range(funcs[i].deps) \intersect DOMAIN providers)
        \ {Predicted(n) : n \in 1..flow.predicateTypeCnt}
Dependencies(i) == Range(funcs[i].deps) \intersect DOMAIN providers

(* What has yet to be searched below a function. A dependency that was      *)
(* searched already is passed over.                                         *)
UnsearchedOffPath(i) == (Dependencies(i) \ searched) \ Range(path)      \* mutant
Unsearched(i) == Dependencies(i) \ searched

(* The first dependency of a function that is in S.                         *)
IsFirst(t, i, S) ==
    \E k \in DOMAIN funcs[i].deps :
        /\ t = funcs[i].deps[k] /\ t \in S
        /\ \A m \in DOMAIN funcs[i].deps : m < k => funcs[i].deps[m] \notin S

(* findFlowCycles takes the functions in turn, findFlowCyclesForFunc what   *)
(* the function that provides the last type on the path depends on.         *)
Searches(i) ==
    /\ phase = "searching"
    /\ IF path = <<>> THEN \A j \in 1..(i - 1) : Unsearched(j) = {} ELSE i = providers[Last(path)]
    /\ UNCHANGED <<args, flow, task, funcs, providers, received, queue, visited, stack, topo>>

SearchBelow(i, t) ==
    /\ Searches(i)
    /\ IsFirst(t, i, Unsearched(i))
    /\ IF t \in Range(path)
       THEN /\ errors' = errors \union {"Cycle"} /\ phase' = "refused"
            /\ UNCHANGED <<path, searched>>
       ELSE /\ path' = Append(path, t)
            /\ UNCHANGED <<phase, searched, errors>>

SearchBack ==
    /\ path # <<>> /\ Searches(providers[Last(path)])
    /\ Unsearched(providers[Last(path)]) = {}
    /\ searched' = searched \union {Last(path)}
    /\ path' = Front(path)
    /\ UNCHANGED <<phase, errors>>

(* A flow in a cycle is not sorted, which would not end, nor is one for     *)
(* which anything was reported so far.                                      *)
EndSearch ==
    /\ phase = "searching" /\ path = <<>>
    /\ \A i \in DOMAIN funcs : Unsearched(i) = {}
    /\ phase' = IF errors = {} THEN "sorting" ELSE "refused"
    /\ UNCHANGED <<args, flow, task, funcs, providers, received, walks, errors>>

-----------------------------------------------------------------------------
(* toposort: a function is put in the list after its dependencies.          *)

Unsorted(i) == {t \in Dependencies(i) : providers[t] \notin Range(topo)}

Sorts == /\ phase = "sorting"
         /\ UNCHANGED <<args, flow, task, funcs, providers, received, queue, visited, path, searched, errors>>

SortFrom(i) ==
    /\ Sorts /\ stack = <<>>
    /\ i \in DOMAIN funcs \ Range(topo)
    /\ \A j \in 1..(i - 1) : j \in Range(topo)
    /\ stack' = <<i>>
    /\ UNCHANGED <<phase, topo>>

SortBelow(t) ==
    /\ Sorts /\ stack # <<>>
    /\ IsFirst(t, Last(stack), Unsorted(Last(stack)))
    /\ stack' = Append(stack, providers[t])
    /\ UNCHANGED <<phase, topo>>

SortBack ==
    /\ Sorts /\ stack # <<>>
    /\ Unsorted(Last(stack)) = {}
    /\ topo' = Append(topo, Last(stack))
    /\ stack' = Front(stack)
    /\ UNCHANGED phase

Accept ==
    /\ Sorts /\ stack = <<>>
    /\ DOMAIN funcs \subseteq Range(topo)
    /\ phase' = "accepted"
    /\ UNCHANGED <<stack, topo>>

Done == phase \in {"accepted", "refused", "crashed"} /\ UNCHANGED vars

Reading(a) == \/ ReadInvalid(a) \/ ReadParams(a) \/ ReadResults(a)
              \/ ReadFlowOption(a) \/ ReadTask(a)

Walking == \/ \E t \in queue : Visit(t)
           \/ EndVisits
           \/ \E i \in DOMAIN funcs : \E t \in Unsearched(i) : SearchBelow(i, t)
           \/ SearchBack \/ EndSearch
           \/ \E i \in DOMAIN funcs : SortFrom(i)
           \/ \E t \in DOMAIN providers : SortBelow(t)
           \/ SortBack \/ Accept

Next == \/ \E a \in Arguments : Reading(a)
        \/ Interpret \/ EndTask
        \/ NoArguments \/ Link \/ Walking \/ Done

Spec == Init /\ [][Next]_vars

-----------------------------------------------------------------------------
(* What the documentation of cff.Flow and its options asks of the           *)
(* arguments (cff.go, docs/faq.md; where they are silent, the files that    *)
(* internal/aquaregia_test.go has refused), in no order but that of the     *)
(* options of one task, of which the last of a kind counts.                 *)

Written(kind) == {i \in DOMAIN args : args[i].kind = kind}
LastOf(opts, kind) ==
    {k \in DOMAIN opts : opts[k].kind = kind /\ \A j \in DOMAIN opts : j > k => opts[j].kind # kind}

WantsInvoke(a) == \E k \in LastOf(a.opts, "Invoke") : a.opts[k].value = "true"
Takes(a) == Range(Inputs(a.fn))
            \union UNION {Range(Inputs(a.opts[k].fn)) : k \in LastOf(a.opts, "Predicate")}
Gives(a) == Range(Outputs(a.fn))

Given    == UNION {Gives(args[i]) : i \in Written("Task")}
Supplied == UNION {Range(args[i].types) : i \in Written("Params")}
Needed   == (UNION {Range(args[i].types) : i \in Written("Results")})
            \union UNION {Takes(args[i]) : i \in Written("Task")}
MustBeConsumed == UNION {Gives(args[i]) : i \in {k \in Written("Task") : ~WantsInvoke(args[k])}}

(* Tasks each of which waits for another of them.                           *)
Circular == \E S \in (SUBSET Written("Task")) \ {{}} :
                \A i \in S : \E k \in S : Takes(args[i]) \intersect Gives(args[k]) # {}

(* Where the compiler asks for less, tolerated names what is not asked for: *)
(* "no work", that there is a task and a result; "assignable", that the     *)
(* values of FallbackWith have exactly the types of the task's results.     *)
DocumentedOption(a, o, tolerated) ==
    /\ o.kind # "NoOption"
    /\ o.kind = "FallbackWith" =>
          /\ Len(o.fits) = Len(Outputs(a.fn))
          /\ Range(o.fits) \subseteq {"same"} \union (tolerated \intersect {"assignable"})
    /\ o.kind = "Predicate" => Compiles(o.fn) /\ o.fn.results = <<"bool">>
DocumentedTask(a, tolerated) ==
    /\ Compiles(a.fn) /\ IsInjective(Outputs(a.fn))
    /\ \A k \in DOMAIN a.opts : DocumentedOption(a, a.opts[k], tolerated)
    /\ Outputs(a.fn) = <<>> => WantsInvoke(a)
DocumentedArgument(a, tolerated) ==
    /\ a.kind \notin {"NoCall", "Foreign", "ParallelOption"}
    /\ a.kind = "ContinueOnError" => a.value = "false"
    /\ a.kind = "Params"  => IsInjective(a.types)
    /\ a.kind = "Results" => "NoPointer" \notin Range(a.types)
    /\ a.kind = "Task"    => DocumentedTask(a, tolerated)

HasWork == Written("Task") # {} /\ \E i \in Written("Results") : args[i].types # <<>>

AsDocumented(tolerated) ==
    /\ args # <<>>
    /\ "no work" \in tolerated \/ HasWork
    /\ \A i \in DOMAIN args : DocumentedArgument(args[i], tolerated)
    /\ \A i, k \in Written("Task") : i # k => Gives(args[i]) \intersect Gives(args[k]) = {}
    /\ Given \intersect Supplied = {}
    /\ Needed \subseteq Given \union Supplied
    /\ MustBeConsumed \union Supplied \subseteq Needed
    /\ ~Circular
    /\ Written("WithEmitter") = {} =>
          /\ Written("InstrumentFlow") = {}
          /\ \A i \in Written("Task") : \A k \in DOMAIN args[i].opts : args[i].opts[k].kind # "Instrument"

(* What the documentation allows and the compiler refuses: a task with      *)
(* Invoke(true) that returns something, FallbackWith on a task that returns *)
(* no error but may panic, a predicate whose type has a name, and           *)
(* ContinueOnError(false).                                                  *)
AllowedButRefused ==
    \/ Written("ContinueOnError") # {}
    \/ \E i \in Written("Task") :
          LET a == args[i]
          IN  \/ WantsInvoke(a) /\ Outputs(a.fn) # <<>>
              \/ \E k \in DOMAIN a.opts :
                    \/ a.opts[k].kind = "FallbackWith" /\ ~HasError(a.fn)
                    \/ a.opts[k].kind = "Predicate" /\ a.opts[k].fn.shape = "named"

-----------------------------------------------------------------------------
(* Properties                                                              *)

(* The compiler departs from the documentation in six points and no other.  *)
(* A flow is accepted if and only if its arguments are what the             *)
(* documentation asks for, in whatever order they were written, or would be *)
(* with a task, a result and values of the exact type for FallbackWith, and *)
(* none of them is allowed but refused. In particular every type that       *)
(* anything needs is provided once, everything provided is needed, and no   *)
(* tasks wait for each other.                                               *)
DocumentedButFor == AsDocumented({"no work", "assignable"}) /\ ~AllowedButRefused
FlowAcceptedIffDocumented ==
    /\ phase = "accepted" => DocumentedButFor
    /\ phase = "refused" => ~DocumentedButFor

(* The code of an accepted flow enqueues each function once, and after the  *)
(* functions it depends on, whose jobs it names as dependencies.            *)
FlowSortedForEnqueue ==
    phase = "accepted" =>
        /\ Len(topo) = Len(funcs) /\ Range(topo) = DOMAIN funcs
        /\ \A n \in DOMAIN topo : \A t \in Range(funcs[topo[n]].deps) \ flow.inputs :
              \E m \in 1..(n - 1) : t \in Provides(funcs[topo[m]])

(* A cycle is reported if and only if functions wait for each other in a    *)
(* circle, although types that were searched once are not searched again.   *)
WaitInCircle(S) ==
    S # {} /\ \A i \in S : \E t \in Range(funcs[i].deps) \intersect DOMAIN providers : providers[t] \in S
FlowCycleReported ==
    phase \in {"accepted", "refused"} /\ args # <<>> =>
        ("Cycle" \in errors <=> \E S \in SUBSET DOMAIN funcs : WaitInCircle(S))

(* The compiler itself crashes exactly on a task with an Invoke whose value  *)
(* is not constant, or with an Invoke(true) that is not the last Invoke, of  *)
(* whose sentinel there is no provider: every other flow is accepted or      *)
(* reported.                                                                *)
Fatal(a) ==
    /\ a.kind = "Task" /\ Compiles(a.fn)
    /\ \E k \in DOMAIN a.opts :
          /\ a.opts[k].kind = "Invoke"
          /\ \/ a.opts[k].value = "variable"
             \/ a.opts[k].value = "true" /\ k \notin LastOf(a.opts, "Invoke")
FlowCrashesOnInvokeOnly ==
    /\ phase = "crashed" => \E i \in DOMAIN args : Fatal(args[i])
    /\ phase \in {"accepted", "refused"} => \A i \in DOMAIN args : ~Fatal(args[i])
=============================================================================
