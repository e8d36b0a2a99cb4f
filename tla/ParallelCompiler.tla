-------------------------- MODULE ParallelCompiler --------------------------
(***************************************************************************)
(* How a call of cff.Parallel is compiled (internal/compile_parallel.go).   *)
(* The arguments are read in the order in which the user wrote them; there  *)
(* are no dependencies, hence nothing to link or sort, but functions have   *)
(* to fit the elements of a collection, and some options exclude others.    *)
(* Names differ from those of FlowCompiler, beside which this module is     *)
(* extended.                                                                *)
(***************************************************************************)
EXTENDS Signature, FiniteSets, SequencesExt

CONSTANTS
    PlainParallel, OddParallel, \* the arguments a user may write, those out of the ordinary apart
    MaxParallelArgs,    \* bound: the number of arguments
    MaxParallelOdd,     \* bound: the number of odd ones among them
    AssignableTo        \* the pairs of a type and one it is assignable to

VARIABLES
    listed,     \* what the user wrote
    stage,      \* "reading", "accepted", "refused"
    parallel,   \* the arguments as compiled
    taskSerial, \* c.taskSerial
    reported    \* c.errors, by kind

parallelVars == <<listed, stage, parallel, taskSerial, reported>>

Assignable(V, T) == V = T \/ <<V, T>> \in AssignableTo

ParallelInit ==
    /\ listed = <<>> /\ stage = "reading" /\ taskSerial = 0 /\ reported = {}
    /\ parallel = [tasks |-> <<>>, slices |-> <<>>, maps |-> <<>>, emitters |-> 0,
                   instrumented |-> FALSE, continueOnError |-> FALSE, concurrency |-> 0]

ReadNext(a) ==
    /\ stage = "reading"
    /\ Len(listed) < MaxParallelArgs
    /\ a \in OddParallel => Cardinality({i \in DOMAIN listed : listed[i] \in OddParallel}) < MaxParallelOdd
    /\ listed' = Append(listed, a)
    /\ UNCHANGED stage

(* taskSerial after n more functions.                                       *)
ByOne(n) == taskSerial + 1                                        \* mutant
Advanced(n) == taskSerial + n

-----------------------------------------------------------------------------
(* Neither a call, nor of cff, nor meant for a parallel. The other options  *)
(* that only a flow has are not looked at.                                  *)
ReadInvalidParallel(a) ==
    /\ ReadNext(a)
    /\ a.kind \in {"NoCall", "Foreign", "InstrumentFlow", "Params"}
    /\ reported' = reported \union ErrorsIf(a.kind # "Params", a.kind)
    /\ UNCHANGED <<parallel, taskSerial>>

ReadOption(a) ==
    /\ ReadNext(a)
    /\ \/ a.kind = "Concurrency"        /\ parallel' = [parallel EXCEPT !.concurrency = Len(listed')]
       \/ a.kind = "ContinueOnError"    /\ parallel' = [parallel EXCEPT !.continueOnError = TRUE]
       \/ a.kind = "InstrumentParallel" /\ parallel' = [parallel EXCEPT !.instrumented = TRUE]
       \/ a.kind = "WithEmitter"        /\ parallel' = [parallel EXCEPT !.emitters = @ + 1]
    /\ UNCHANGED <<taskSerial, reported>>

ParallelTask(serial, instrumented) == [serial |-> serial, instrumented |-> instrumented]

(* compileParallelTask: of its options only Instrument is looked at.        *)
ReadParallelTask(a) ==
    /\ ReadNext(a)
    /\ a.kind = "Task"
    /\ IF TakesNothing(a.fn)
       THEN /\ parallel' = [parallel EXCEPT !.tasks = Append(@,
                  ParallelTask(taskSerial, \E i \in DOMAIN a.opts : a.opts[i].kind = "Instrument"))]
            /\ taskSerial' = Advanced(1)
            /\ reported' = reported \union
                  ErrorsIf(\E i \in DOMAIN a.opts : a.opts[i].kind = "NoOption", "NoOption")
       ELSE /\ reported' = reported \union {"Signature"}
            /\ UNCHANGED <<parallel, taskSerial>>

(* compileParallelTasks: the functions that compile are numbered on.        *)
ReadParallelTasks(a) ==
    /\ ReadNext(a)
    /\ a.kind = "Tasks"
    /\ LET good == {k \in DOMAIN a.fns : TakesNothing(a.fns[k])}
       IN  /\ parallel' = [parallel EXCEPT !.tasks = @ \o
                 [n \in 1..Cardinality(good) |-> ParallelTask(taskSerial + n - 1, FALSE)]]
           /\ taskSerial' = Advanced(Cardinality(good))
           /\ reported' = reported \union ErrorsIf(good # DOMAIN a.fns, "Signature")

-----------------------------------------------------------------------------
(* Collections. Whether an element fits the function's parameter is asked   *)
(* the other way round.                                                     *)

(* The options of a Slice or Map: at most one end function, which has to    *)
(* take and return nothing.                                                 *)
Ends(opts)     == {k \in DOMAIN opts : opts[k].kind = "End"}
GoodEnds(opts) == {k \in Ends(opts) : TakesNothing(opts[k].fn)}
EndErrors(opts) ==
    ErrorsIf(Ends(opts) # DOMAIN opts, "NoOption")
    \union ErrorsIf(GoodEnds(opts) # Ends(opts), "EndSignature")
    \union ErrorsIf(\E j, k \in GoodEnds(opts) : j # k, "EndTwice")

CompilesSlice(a) ==
    LET in == Inputs(a.fn)
    IN  /\ Compiles(a.fn) /\ Outputs(a.fn) = <<>>
        /\ Len(in) \in {1, 2}
        /\ Len(in) = 2 => in[1] = "int"
        /\ a.elem # "NoCollection"
        /\ Assignable(Last(in), a.elem)

SliceTask(a) ==
    [serial |-> taskSerial, elem |-> a.elem, param |-> Last(Inputs(a.fn)),
     withIndex |-> Len(Inputs(a.fn)) = 2, withEnd |-> GoodEnds(a.opts) # {}]

ReadSlice(a) ==
    /\ ReadNext(a)
    /\ a.kind = "Slice"
    /\ IF CompilesSlice(a)
       THEN /\ parallel' = [parallel EXCEPT !.slices = Append(@, SliceTask(a))]
            /\ taskSerial' = Advanced(1)
            /\ reported' = reported \union EndErrors(a.opts)
       ELSE /\ reported' = reported \union {"Slice"}
            /\ UNCHANGED <<parallel, taskSerial>>

(* A map may not be of a named type, unlike a slice.                        *)
CompilesMap(a) ==
    LET in == Inputs(a.fn)
    IN  /\ Compiles(a.fn) /\ Outputs(a.fn) = <<>>
        /\ Len(in) = 2
        /\ a.elem # "NoCollection" /\ ~a.named
        /\ Assignable(in[1], a.key) /\ Assignable(in[2], a.elem)

MapTask(a) == [serial |-> taskSerial, withEnd |-> GoodEnds(a.opts) # {}]

ReadMap(a) ==
    /\ ReadNext(a)
    /\ a.kind = "Map"
    /\ IF CompilesMap(a)
       THEN /\ parallel' = [parallel EXCEPT !.maps = Append(@, MapTask(a))]
            /\ taskSerial' = Advanced(1)
            /\ reported' = reported \union EndErrors(a.opts)
       ELSE /\ reported' = reported \union {"Map"}
            /\ UNCHANGED <<parallel, taskSerial>>

-----------------------------------------------------------------------------
(* The checks after the loop                                               *)

EmptyParallel ==
    /\ stage = "reading" /\ listed = <<>>
    /\ reported' = reported \union {"NoArguments"}
    /\ stage' = "refused"
    /\ UNCHANGED <<listed, parallel, taskSerial>>

(* validateParallelInstrument                                              *)
ParallelLacksEmitter ==
    /\ parallel.emitters = 0
    /\ parallel.instrumented \/ \E i \in DOMAIN parallel.tasks : parallel.tasks[i].instrumented

SliceEndOnly ==                                                   \* mutant
    \E i \in DOMAIN parallel.slices : parallel.slices[i].withEnd
HasEnd == \/ \E i \in DOMAIN parallel.slices : parallel.slices[i].withEnd
          \/ \E i \in DOMAIN parallel.maps : parallel.maps[i].withEnd

Finish ==
    /\ stage = "reading" /\ listed # <<>>
    /\ reported' = reported
          \union ErrorsIf(ParallelLacksEmitter, "NoEmitter")
          \union ErrorsIf(HasEnd /\ parallel.continueOnError, "EndWithContinueOnError")
    /\ stage' = IF reported' = {} THEN "accepted" ELSE "refused"
    /\ UNCHANGED <<listed, parallel, taskSerial>>

ParallelDone == stage \in {"accepted", "refused"} /\ UNCHANGED parallelVars

ReadingParallel(a) ==
    \/ ReadInvalidParallel(a) \/ ReadOption(a) \/ ReadParallelTask(a) \/ ReadParallelTasks(a)
    \/ ReadSlice(a) \/ ReadMap(a)

ParallelNext == \/ \E a \in PlainParallel \union OddParallel : ReadingParallel(a)
                \/ EmptyParallel \/ Finish \/ ParallelDone

ParallelSpec == ParallelInit /\ [][ParallelNext]_parallelVars

-----------------------------------------------------------------------------
(* What the documentation of cff.Parallel and its options asks of the       *)
(* arguments (cff.go), in whatever order they are written.                  *)

Listed(kind) == {i \in DOMAIN listed : listed[i].kind = kind}
Collections   == Listed("Slice") \union Listed("Map")

(* Where the compiler asks for less, tolerated names what is not asked for: *)
(* "no work", that there is a function; "assignable", that a function's     *)
(* parameter has the type of the elements; "flow option", that there are no *)
(* Params and Results.                                                      *)

IsOfType(V, T, tolerated) == V = T \/ ("assignable" \in tolerated /\ Assignable(V, T))

(* f(key, element), f(index, element) or f(element)                         *)
Accepts(a, tolerated) ==
    LET in == Inputs(a.fn)
    IN  /\ \/ a.kind = "Slice" /\ (Len(in) = 1 \/ (Len(in) = 2 /\ in[1] = "int"))
           \/ a.kind = "Map" /\ Len(in) = 2 /\ IsOfType(in[1], a.key, tolerated)
        /\ IsOfType(Last(in), a.elem, tolerated)
DocumentedCollection(a, tolerated) ==
    /\ a.elem # "NoCollection"
    /\ Compiles(a.fn) /\ Outputs(a.fn) = <<>> /\ Accepts(a, tolerated)
    /\ \A k \in DOMAIN a.opts : /\ a.opts[k].kind = "End" /\ TakesNothing(a.opts[k].fn)
                               /\ \A j \in DOMAIN a.opts : j = k

HasFunctions == Collections \union Listed("Task") \union Listed("Tasks") # {}
HasEndWritten == \E i \in Collections : Ends(listed[i].opts) # {}

ParallelAsDocumented(tolerated) ==
    /\ listed # <<>>
    /\ "no work" \in tolerated \/ HasFunctions
    /\ "flow option" \in tolerated \/ Listed("Params") = {}
    /\ Listed("NoCall") \union Listed("Foreign") \union Listed("InstrumentFlow") = {}
    /\ \A i \in Listed("Task") : /\ TakesNothing(listed[i].fn)
                                 /\ \A k \in DOMAIN listed[i].opts : listed[i].opts[k].kind # "NoOption"
    /\ \A i \in Listed("Tasks") : \A k \in DOMAIN listed[i].fns : TakesNothing(listed[i].fns[k])
    /\ \A i \in Collections : DocumentedCollection(listed[i], tolerated)
    /\ HasEndWritten => \A i \in Listed("ContinueOnError") : listed[i].value = "false"
    /\ Listed("WithEmitter") = {} =>
          /\ Listed("InstrumentParallel") = {}
          /\ \A i \in Listed("Task") : \A k \in DOMAIN listed[i].opts : listed[i].opts[k].kind # "Instrument"

(* What is allowed and the compiler refuses: a map of a named type; and,    *)
(* going by the documentation of ContinueOnError rather than by that of     *)
(* SliceEnd and MapEnd, an end function next to ContinueOnError(false).     *)
ParallelAllowedButRefused ==
    \/ \E i \in Listed("Map") : listed[i].named
    \/ HasEndWritten /\ Listed("ContinueOnError") # {}

-----------------------------------------------------------------------------
(* Properties                                                              *)

(* The compiler departs from the documentation in five points and no other. *)
(* A parallel is accepted if and only if its arguments are what the         *)
(* documentation asks for, but for what is tolerated, and none of them is   *)
(* allowed but refused, whatever the order in which they were written:      *)
(* ContinueOnError and WithEmitter may come after what they bear on. In     *)
(* particular an accepted parallel never has both an end function and       *)
(* ContinueOnError, which the generated code relies on.                     *)
ParallelDocumentedButFor ==
    ParallelAsDocumented({"no work", "assignable", "flow option"}) /\ ~ParallelAllowedButRefused
ParallelAcceptedIffDocumented ==
    /\ stage = "accepted" => ParallelDocumentedButFor
    /\ stage = "refused" => ~ParallelDocumentedButFor

(* Every function and collection of an accepted parallel is compiled once,  *)
(* under a number of its own, by which the generated variables are named.   *)
Serials(list)       == {list[i].serial : i \in DOMAIN list}
NumberedApart(list) == \A i, j \in DOMAIN list : list[i].serial = list[j].serial => i = j
NumbersInUse ==
    Serials(parallel.tasks) \union Serials(parallel.slices) \union Serials(parallel.maps)
ApartFromEachOther ==
    /\ NumberedApart(parallel.tasks) /\ NumberedApart(parallel.slices) /\ NumberedApart(parallel.maps)
    /\ Serials(parallel.tasks) \intersect Serials(parallel.slices) = {}
    /\ Serials(parallel.tasks) \intersect Serials(parallel.maps) = {}
    /\ Serials(parallel.slices) \intersect Serials(parallel.maps) = {}
FunctionsOfTasks == UNION {{i} \X DOMAIN listed[i].fns : i \in Listed("Tasks")}
ParallelEverythingNumbered ==
    stage = "accepted" =>
        /\ ApartFromEachOther
        /\ NumbersInUse = 0..(taskSerial - 1)
        /\ Len(parallel.tasks)  = Cardinality(Listed("Task")) + Cardinality(FunctionsOfTasks)
        /\ Len(parallel.slices) = Cardinality(Listed("Slice"))
        /\ Len(parallel.maps)   = Cardinality(Listed("Map"))

-----------------------------------------------------------------------------
(* Slice: "For a slice []T, fn has the following signature: func([ctx       *)
(* context.Context,] [idx int,] value T) ([error])". So the code generated  *)
(* for an accepted Slice compiles: an element can be passed for the value,  *)
(* and idx, under which the jobs are kept for a SliceEnd, is declared       *)
(* whether or not the function takes it.                                    *)
ParallelSliceCodeCompiles ==
    stage = "accepted" =>
        \A i \in DOMAIN parallel.slices :
            LET s == parallel.slices[i]
            IN  Assignable(s.elem, s.param) /\ (s.withEnd => s.withIndex)
=============================================================================
