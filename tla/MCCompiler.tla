------------------------------ MODULE MCCompiler ------------------------------
(***************************************************************************)
(* One directive as compileFile meets it, a cff.Flow or a cff.Parallel, and *)
(* the arguments TLC chooses from: plain ones, of which flows with chains,  *)
(* joins and cycles and parallels of several parts are made, and odd ones,  *)
(* one of which may be among them.                                          *)
(***************************************************************************)
EXTENDS FlowCompiler, ParallelCompiler

CONSTANTS A, B, C

VARIABLE directive

-----------------------------------------------------------------------------
(* Options and arguments                                                   *)

Option(kind)      == [kind |-> kind]
Types(kind, list) == [kind |-> kind, types |-> list]
Invoke(value)     == [kind |-> "Invoke", value |-> value]
Continue(value)   == [kind |-> "ContinueOnError", value |-> value]
Fallback(fits)    == [kind |-> "FallbackWith", fits |-> fits]
Predicate(params) == [kind |-> "Predicate", fn |-> Func(params, <<"bool">>)]
Task(params, results, opts) ==
    [kind |-> "Task", fn |-> Func(params, results), opts |-> opts]

PlainArguments ==
    {Option("WithEmitter"), Types("Params", <<A>>),
     Types("Results", <<B>>), Types("Results", <<C>>),
     Task(<<>>, <<A>>, <<>>), Task(<<A>>, <<B>>, <<>>), Task(<<B>>, <<A>>, <<>>),
     Task(<<A, B>>, <<C>>, <<>>), Task(<<"context", B>>, <<C, "error">>, <<>>),
     Task(<<A>>, <<>>, <<Invoke("true")>>)}

OddSignatures ==
    {[Func(<<A>>, <<B>>) EXCEPT !.variadic = TRUE],
     [Func(<<A>>, <<B>>) EXCEPT !.shape = "other"],
     Func(<<A, "context">>, <<B>>), Func(<<A>>, <<"error", B>>),
     Func(<<>>, <<A, A>>), Func(<<A>>, <<"error">>)}

NamedPredicate == [kind |-> "Predicate",
                   fn |-> [Func(<<>>, <<"bool">>) EXCEPT !.shape = "named"]]

OddOptions ==
    {<<Predicate(<<>>)>>, <<Predicate(<<B>>)>>, <<Predicate(<<C>>), Predicate(<<>>)>>,
     <<Predicate(<<>>), NamedPredicate>>,
     <<Fallback(<<"same">>)>>, <<Fallback(<<"assignable">>)>>, <<Fallback(<<"other">>)>>,
     <<Fallback(<<>>)>>,
     <<Option("Instrument")>>, <<Option("NoOption")>>, <<Invoke("true")>>}

OddInvokes ==
    {<<Invoke("true"), Invoke("true")>>, <<Invoke("true"), Invoke("false")>>,
     <<Invoke("false"), Invoke("true")>>, <<Invoke("variable")>>}

OddArguments ==
    {Option("NoCall"), Option("Foreign"), Option("ParallelOption"),
     Option("InstrumentFlow"), Option("Concurrency"),
     Continue("false"), Types("Params", <<B, B>>), Types("Results", <<"NoPointer", B>>)}
    \union {[kind |-> "Task", fn |-> s, opts |-> <<>>] : s \in OddSignatures}
    \union {Task(<<A>>, <<B, "error">>, o) : o \in OddOptions}
    \union {Task(<<>>, <<B>>, <<Fallback(<<"same">>)>>)}
    \union {Task(<<A>>, <<>>, o) : o \in OddInvokes}

FlowArguments == [plain |-> PlainArguments, odd |-> OddArguments]
PlainFlow == FlowArguments.plain
OddFlow   == FlowArguments.odd

End(params) == [kind |-> "End", fn |-> Func(params, <<>>)]
Slice(params, elem, opts) ==
    [kind |-> "Slice", fn |-> Func(params, <<"error">>), elem |-> elem, opts |-> opts]
Map(params, key, elem, opts) ==
    [kind |-> "Map", fn |-> Func(params, <<>>), named |-> FALSE,
     key |-> key, elem |-> elem, opts |-> opts]
Tasks(fns) == [kind |-> "Tasks", fns |-> fns]

PlainPartsOfParallel ==
    {Option("WithEmitter"), Continue("true"), Option("InstrumentParallel"),
     Task(<<"context">>, <<"error">>, <<>>), Task(<<>>, <<>>, <<Option("Instrument")>>),
     Tasks(<<Func(<<>>, <<>>), Func(<<>>, <<"error">>)>>),
     Slice(<<"int", A>>, A, <<>>), Slice(<<"int", A>>, A, <<End(<<"context">>)>>),
     Map(<<"context", A, B>>, A, B, <<>>), Map(<<A, B>>, A, B, <<End(<<>>)>>)}

OddPartsOfParallel ==
    {Option("NoCall"), Option("Foreign"), Option("InstrumentFlow"), Option("Params"),
     Option("Concurrency"), Continue("false"), Task(<<A>>, <<>>, <<>>), Task(<<>>, <<A>>, <<>>),
     Task(<<>>, <<>>, <<Option("NoOption")>>), Tasks(<<Func(<<A>>, <<>>), Func(<<>>, <<>>)>>),
     Slice(<<A>>, A, <<>>), Slice(<<A>>, A, <<End(<<>>)>>), Slice(<<A>>, B, <<>>),
     Slice(<<"int", B>>, A, <<>>), Slice(<<A, A>>, A, <<>>), Slice(<<>>, A, <<>>),
     Slice(<<A>>, "NoCollection", <<>>), Slice(<<"int", A>>, A, <<End(<<>>), End(<<>>)>>),
     Slice(<<"int", A>>, A, <<End(<<A>>)>>), Slice(<<"int", A>>, A, <<Option("NoOption")>>),
     Map(<<A>>, A, B, <<>>), Map(<<B, A>>, A, B, <<>>), Map(<<A, A>>, B, B, <<>>),
     [Map(<<A, B>>, A, B, <<>>) EXCEPT !.named = TRUE], Map(<<A, B>>, A, "NoCollection", <<>>),
     Map(<<A, B>>, A, B, <<End(<<B>>), End(<<>>)>>)}

(* The concrete type A is assignable to the interface B.                    *)
SomeToOthers == {<<A, B>>}

-----------------------------------------------------------------------------
DirectiveInit == directive \in {"Flow", "Parallel"} /\ Init /\ ParallelInit

DirectiveNext == \/ directive = "Flow" /\ Next /\ UNCHANGED <<directive, parallelVars>>
                 \/ directive = "Parallel" /\ ParallelNext /\ UNCHANGED <<directive, vars>>

DirectiveSpec == DirectiveInit /\ [][DirectiveNext]_<<directive, vars, parallelVars>>
=============================================================================
