------------------------------- MODULE MCTool -------------------------------
(***************************************************************************)
(* The command, the generator and the emitters, each on its own. Files for  *)
(* the generator: those of NameFiles differ in their imports and in the     *)
(* types their directives name, those of LayoutFiles in their directives    *)
(* and in the mode, those of HeaderFiles in their constraints. For the      *)
(* command, one file with up to MaxCalls calls among others that are        *)
(* simpler. For the emitters, a task and the scheduler, and combinations of *)
(* two emitters: none, one and several, nested up to three deep, with an    *)
(* emitter in them twice.                                                   *)
(***************************************************************************)
EXTENDS Command, PackageNames, TLC

CONSTANTS MaxCalls, Parts

VARIABLES part, stage, source, done, lastOff, out,
          combination, stack, program, emitters, event, next, received

generatorVars == <<stage, source, done, lastOff, out, nameVars>>
emitterVars   == <<combination, stack, program, emitters, event, next, received>>

-----------------------------------------------------------------------------
(* Packages: two are called foo, a third declares that name while its path  *)
(* ends in "v2"; one of the user's is called time.                          *)

ImportPaths == {"context", "cff", "time", "debug", "foo1", "foo2", "foov", "utime"}
BaseOf == [p \in ImportPaths |-> CASE p \in {"foo1", "foo2"} -> <<0, "foo">>
                                   [] p = "foov" -> <<0, "v2">>
                                   [] p = "utime" -> <<0, "time">>
                                   [] OTHER -> <<0, p>>]
NameOf == [p \in ImportPaths |-> IF p = "foov" THEN <<0, "foo">> ELSE BaseOf[p]]

Plain(path)    == <<path, NameOf[path]>>
As(path, name) == <<path, name>>

(* What a file may import, also as _ or . and one path twice; cff is         *)
(* imported, by whatever name.                                              *)
SomeImports ==
    {<<c>> \o i \o j : c \in {Plain("cff"), As("cff", <<0, "foo">>), As("cff", <<0, "time">>)},
                       i \in {<<>>, <<Plain("context")>>, <<As("foo1", <<0, "context">>)>>,
                              <<Plain("foo1")>>, <<As("foo1", <<1, "foo">>)>>, <<Plain("foov")>>,
                              <<As("context", Dot)>>, <<As("foo1", Blank)>>,
                              <<As("foo1", <<1, "foo">>), Plain("foo1")>>},
                       j \in {<<>>, <<Plain("time")>>, <<As("time", <<0, "clock">>)>>,
                              <<Plain("utime")>>, <<As("debug", <<1, "time">>)>>, <<As("foo2", <<2, "foo">>)>>,
                              <<As("time", Blank)>>, <<As("time", <<0, "clock">>), Plain("time")>>,
                              <<Plain("time"), As("time", <<0, "debug">>)>>}}
Distinct(list) ==
    \A m, n \in DOMAIN list : m # n /\ list[m][2] \notin {Blank, Dot} => list[m][2] # list[n][2]
FileImports == {l \in SomeImports : Distinct(l)}

ShortTypeLists == {<<>>} \union {<<p>> : p \in {"foo1", "foo2", "foov", "utime"}}
TypeLists == ShortTypeLists \union {<<p, q>> : p, q \in {"foo1", "foo2", "foov"}}

Tagged == <<<<"tag", "cff">>>>
File(header, list, dirs, mode) ==
    [header |-> header, imports |-> list, directives |-> dirs, mode |-> mode]
Directive(kind, options, types) == [kind |-> kind, options |-> options, types |-> types]

NameFiles ==
    {File(Tagged, i, <<Directive("Flow", <<"Task">>, t), Directive("Flow", <<>>, u)>>, "base") :
        i \in FileImports, t \in TypeLists, u \in ShortTypeLists}
    \union {File(Tagged, i, <<Directive("Flow", <<"Task">>, t)>>, "modifier") :
                i \in FileImports, t \in TypeLists}

OptionLists == UNION {[1..n -> {"Task", "PredicateTask", "Params", "Results", "Concurrency"}] : n \in 0..3}
LayoutFiles ==
    {File(Tagged, <<Plain("cff")>>, d, m) :
        d \in {<<Directive(k, o, <<>>)>> : k \in {"Flow", "Parallel"}, o \in OptionLists}
              \union {<<Directive("Flow", <<"Results", "Task">>, <<>>), Directive(k, o, <<>>)>> :
                         k \in {"Flow", "Parallel"}, o \in OptionLists},
        m \in {"base", "source-map", "modifier"}}

Tags  == {<<"tag", "cff">>, <<"tag", "foo">>}
Small == Tags \union {<<"not", t>> : t \in Tags}
         \union {<<op, s, t>> : op \in {"and", "or"}, s \in Tags, t \in Tags}
Constraints ==
    Small \union {<<"not", s>> : s \in Small}
          \union {<<"not", <<"not", <<"not", t>>>>>> : t \in Tags}
          \union {<<op, s, t>> : op \in {"and", "or"}, s \in Small, t \in Small}
HeaderFiles ==
    {File(h, <<Plain("cff")>>, <<Directive("Flow", <<>>, <<>>)>>, "base") :
        h \in {<<c>> : c \in Constraints} \union {<<s, t>> : s \in Small, t \in Small}}

Files == NameFiles \union LayoutFiles \union HeaderFiles

-----------------------------------------------------------------------------
(* Invocations of the command, and packages of three files: a and b of one  *)
(* directory, and the a of another. Tests add a variant of a package.       *)

A1 == <<"d1", "a">>
B1 == <<"d1", "b">>
A2 == <<"d2", "a">>

Arguments(mode, paths, files) ==
    [mode |-> mode, importPaths |-> paths, files |-> files]
FileLists ==
    {<<>>, <<<<"a", "NoOutput">>>>, <<<<"a", "o">>>>, <<<<"d1/a", "NoOutput">>>>,
     <<<<"a", "o">>, <<"b", "NoOutput">>>>, <<<<"b", "o">>, <<"a", "o">>>>,
     <<<<"a", "NoOutput">>, <<"a", "o">>>>}
AllInvocations ==
    {Arguments("base", 1, f) : f \in FileLists}
    \union {Arguments("other", 1, <<>>), Arguments("base", 0, <<>>), Arguments("modifier", 2, <<>>)}

Content(list, tagged) == [calls |-> list, tagged |-> tagged]
CallLists == UNION {[1..n -> Call] : n \in 0..MaxCalls}

World(loads, packages, a1, b1, ungenerable) ==
    [loads |-> loads, packages |-> packages, ungenerable |-> ungenerable,
     content |-> A1 :> a1 @@ B1 :> b1 @@ A2 :> Content(<<"Flow">>, TRUE)]
AllWorlds ==
    {World(TRUE, p, Content(c, t), b, u) :
        p \in {<<<<A1>>>>, <<<<A1, B1>>>>, <<<<B1, A1>>>>, <<<<A1>>, <<A1, B1>>>>, <<<<A1>>, <<A2>>>>, <<<<>>, <<A1>>>>},
        c \in CallLists, t \in BOOLEAN,
        b \in {Content(<<>>, FALSE), Content(<<"Flow">>, TRUE), Content(<<"Parallel", "BrokenFlow">>, TRUE)},
        u \in {{}, {A1}}}
    \union {World(l, p, Content(<<"Flow">>, TRUE), Content(<<>>, FALSE), {}) :
                l \in BOOLEAN, p \in {<<>>, <<<<A1, B1>>>>}}

-----------------------------------------------------------------------------
(* The emitters                                                            *)

Sources == {"task", "scheduler"}
Events  == {<<"done">>, <<"success", "done">>, <<"error", "done">>}

Stacked(list) == <<"stack", list>>
Level0 == {<<"nop">>, <<"user", "e1">>, <<"user", "e2">>}
Level1 == {Stacked(<<>>)} \union {Stacked(<<a>>) : a \in Level0} \union {Stacked(<<a, b>>) : a, b \in Level0}
Level2 == {Stacked(<<a, b>>) : a \in Level0, b \in Level1}
          \union {Stacked(<<a, b>>) : a \in Level1, b \in Level0}
AllCombinations ==
    {Stacked(<<>>)} \union {Stacked(<<a>>) : a \in Level0 \union Level1 \union Level2}

-----------------------------------------------------------------------------
G == INSTANCE Generator WITH Sources <- Files, phase <- stage
E == INSTANCE EmitterStack WITH Source <- Sources, Programs <- Events,
                                Combinations <- AllCombinations

(* What the proofs about names take for granted is so of these files.       *)
FileRequests == {Requests(t) : t \in TypeLists}

ASSUME FilesAssumption == ImportsApart /\ RequestsKnown

NotUsed == "not used"
NoCommand ==
    /\ invocation = NotUsed /\ world = NotUsed /\ phase = NotUsed /\ position = NotUsed
    /\ calls = NotUsed /\ found = NotUsed /\ errors = NotUsed
    /\ processed = NotUsed /\ errored = NotUsed /\ err = NotUsed /\ written = NotUsed
NoGenerator ==
    /\ stage = NotUsed /\ source = NotUsed /\ done = NotUsed /\ lastOff = NotUsed
    /\ out = NotUsed /\ imports = <<>> /\ NoneAdded
NoEmitters ==
    /\ combination = NotUsed /\ stack = NotUsed /\ program = NotUsed /\ emitters = NotUsed
    /\ event = NotUsed /\ next = NotUsed /\ received = NotUsed

ToolInit ==
    /\ part \in Parts
    /\ \/ part = "generator" /\ G!Init /\ NoCommand /\ NoEmitters
       \/ part = "command" /\ Init /\ NoGenerator /\ NoEmitters
       \/ part = "emitters" /\ E!Init /\ NoCommand /\ NoGenerator

ToolNext == \/ part = "generator" /\ G!Next /\ UNCHANGED <<part, vars, emitterVars>>
            \/ part = "command" /\ Next /\ UNCHANGED <<part, generatorVars, emitterVars>>
            \/ part = "emitters" /\ E!Next /\ UNCHANGED <<part, vars, generatorVars>>

ToolSpec == ToolInit /\ [][ToolNext]_<<part, generatorVars, vars, emitterVars>>

-----------------------------------------------------------------------------
(* The properties of the generator and of the emitters; those of the        *)
(* command and of the names are their modules' own.                         *)

(* Nothing of the source is lost, doubled or moved.                         *)
SourceKept == part = "generator" => G!SourceKept

(* The generated file is built where the source is not, but for the tag.    *)
HeaderInverted == part = "generator" => G!HeaderInverted

(* Emitters receive every event of every goroutine, in order.               *)
EachInOrder == part = "emitters" => E!EachInOrder
=============================================================================
