------------------------------- MODULE Command -------------------------------
(***************************************************************************)
(* One run of the command (cmd/cff/main.go): the arguments, the loading of  *)
(* the packages (internal/pkg/gopackages.go), and every file's compilation  *)
(* and generation (internal/process.go, compileFile in internal/compile.go).*)
(*                                                                         *)
(* A path is <<directory, name>>. Of a file matter the calls in it and      *)
(* whether it has the tag cff; of a directive, whether it is in order.      *)
(***************************************************************************)
EXTENDS Naturals, Sequences, FiniteSets

CONSTANTS
    Invocations,    \* [mode, importPaths, files: <<input, output>>s]
    Worlds          \* [loads, packages, content, ungenerable]

(* What a file may call: a directive, in order or not; one that is allowed  *)
(* only inside another; anything else of package cff.                       *)
Call == {"Flow", "BrokenFlow", "Parallel", "BrokenParallel", "EmptyParallel", "Stray", "Other"}

(* A package is a list of files, empty if all its files are tests.          *)
ASSUME WorldsAssumption ==
    \A w \in Worlds :
        /\ w.packages \in Seq(Seq(DOMAIN w.content))
        /\ \A path \in DOMAIN w.content :
              w.content[path].calls \in Seq(Call) /\ w.content[path].tagged \in BOOLEAN

VARIABLES
    invocation,     \* the arguments of the command
    world,          \* the packages they name, and the files in them
    phase,          \* "args", "load", "files", "compile", "generate", "done", "crashed"
    position,       \* the package and the file in it that come next
    calls,          \* the number of calls of the file that have been compiled
    found,          \* what each directive among them became
    errors,         \* c.errors of the compiler, one to each file
    processed, errored, err,
    written         \* the source whose code an output file holds

vars == <<invocation, world, phase, position, calls, found, errors,
          processed, errored, err, written>>
arguments == <<invocation, world>>
counts    == <<processed, errored, err, written>>

NoOutput == "NoOutput"

-----------------------------------------------------------------------------
(* What is asked for                                                       *)

Inputs == {invocation.files[n][1] : n \in DOMAIN invocation.files}
Selected(path) == invocation.files = <<>> \/ path[2] \in Inputs

(* genFilename: a sibling of the source, another one for each.              *)
GenFilename(path) == <<"gen", path>>

(* A file that is named by -file without an OUTPUT has the default output.  *)
OutputOf(path) ==
    LET named == {n \in DOMAIN invocation.files :
                      /\ invocation.files[n][1] = path[2]
                      /\ invocation.files[n][2] # NoOutput}
    IN  IF named = {} THEN GenFilename(path)
        ELSE <<"named", invocation.files[CHOOSE n \in named : TRUE][2]>>

Packages  == world.packages
At(i)     == Packages[i[1]][i[2]]
Path      == At(position)
Calls     == world.content[Path].calls
InPackage == position[1] <= Len(Packages)
AtFile    == InPackage /\ position[2] <= Len(Packages[position[1]])
Following == <<position[1], position[2] + 1>>

-----------------------------------------------------------------------------
Init ==
    /\ invocation \in Invocations /\ world \in Worlds
    /\ phase = "args" /\ position = <<1, 1>>
    /\ calls = 0 /\ found = <<>> /\ errors = {}
    /\ processed = 0 /\ errored = 0 /\ err = {} /\ written = <<>>

Fail(why) ==
    /\ err' = {why} /\ phase' = "done"
    /\ UNCHANGED <<position, calls, found, errors, processed, errored, written, arguments>>

(* The modes that -genmode knows.                                           *)
Modes == {"base", "source-map", "modifier"}

(* parseArgs, and the map from FILE to OUTPUT.                              *)
Repeated == \E m, n \in DOMAIN invocation.files : m < n /\ invocation.files[m][1] = invocation.files[n][1]
BadArguments ==
    /\ phase = "args"
    /\ invocation.mode \notin Modes \/ invocation.importPaths # 1 \/ Repeated
    /\ Fail("arguments")
GoodArguments ==
    /\ phase = "args"
    /\ invocation.mode \in Modes /\ invocation.importPaths = 1 /\ ~Repeated
    /\ phase' = "load"
    /\ UNCHANGED <<position, calls, found, errors, counts, arguments>>

(* Load: an error in one of the packages is an error of them all.           *)
Loads == world.loads /\ Packages # <<>>
LoadFails == phase = "load" /\ ~Loads /\ Fail("load")
LoadSucceeds ==
    /\ phase = "load" /\ Loads
    /\ phase' = "files"
    /\ UNCHANGED <<position, calls, found, errors, counts, arguments>>

SkipFile ==
    /\ phase = "files" /\ AtFile
    /\ ~Selected(Path)
    /\ position' = Following
    /\ UNCHANGED <<phase, calls, found, errors, counts, arguments>>

NextPackage ==
    /\ phase = "files" /\ InPackage /\ ~AtFile
    /\ position' = <<position[1] + 1, 1>>
    /\ UNCHANGED <<phase, calls, found, errors, counts, arguments>>

(* Process: each file has a compiler of its own.                            *)
StartSharing ==                                                   \* mutant
    /\ phase = "files" /\ AtFile
    /\ Selected(Path)
    /\ processed' = processed + 1
    /\ calls' = 0 /\ found' = <<>> /\ errors' = errors
    /\ phase' = "compile"
    /\ UNCHANGED <<position, errored, err, written, arguments>>
StartFile ==
    /\ phase = "files" /\ AtFile
    /\ Selected(Path)
    /\ processed' = processed + 1
    /\ calls' = 0 /\ found' = <<>> /\ errors' = {}
    /\ phase' = "compile"
    /\ UNCHANGED <<position, errored, err, written, arguments>>

(* One call that compileFile comes across. A flow becomes nil as soon as    *)
(* the file has an error, were it of another directive; a parallel only if  *)
(* it is empty.                                                             *)
Compiling(n) ==
    /\ phase = "compile" /\ n = calls + 1 /\ n \in DOMAIN Calls
    /\ calls' = n
    /\ UNCHANGED <<phase, position, counts, arguments>>
Error(n) == <<Path, "call", n>>
Became(n, what) == [m \in DOMAIN found \union {n} |-> IF m = n THEN what ELSE found[m]]
CompileFlow ==
    LET n == calls + 1  bad == Calls[n] = "BrokenFlow" IN
    /\ Compiling(n) /\ Calls[n] \in {"Flow", "BrokenFlow"}
    /\ errors' = errors \union (IF bad THEN {Error(n)} ELSE {})
    /\ found' = Became(n, IF errors' = {} THEN "flow" ELSE "nil")
CompileParallel ==
    LET n == calls + 1 IN
    /\ Compiling(n) /\ Calls[n] \in {"Parallel", "BrokenParallel", "EmptyParallel"}
    /\ errors' = errors \union (IF Calls[n] = "Parallel" THEN {} ELSE {Error(n)})
    /\ found' = Became(n, IF Calls[n] = "EmptyParallel" THEN "nil" ELSE "parallel")
IsCodegenDirective(call) == call # "Other"
CompileStray ==
    LET n == calls + 1 IN
    /\ Compiling(n) /\ Calls[n] \in {"Stray", "Other"} /\ IsCodegenDirective(Calls[n])
    /\ errors' = errors \union {Error(n)}
    /\ UNCHANGED found
CompileOther ==
    LET n == calls + 1 IN
    /\ Compiling(n) /\ ~IsCodegenDirective(Calls[n])
    /\ UNCHANGED <<found, errors>>

(* The check of the build tag, which asks every directive where it is.      *)
CheckTag ==
    LET missing == ~world.content[Path].tagged IN
    /\ phase = "compile" /\ calls = Len(Calls)
    /\ IF missing /\ "nil" \in {found[n] : n \in DOMAIN found}
       THEN phase' = "crashed" /\ UNCHANGED errors
       ELSE /\ phase' = "generate"
            /\ errors' = errors \union (IF missing THEN {<<Path, "tag", n>> : n \in DOMAIN found} ELSE {})
    /\ UNCHANGED <<position, calls, found, counts, arguments>>

(* The rest of Process, whose error the loop over the files collects.       *)
Report(reported) ==
    /\ errored' = IF reported = {} THEN errored ELSE errored + 1
    /\ err' = err \union reported
    /\ position' = Following
    /\ phase' = "files"
    /\ UNCHANGED <<processed, calls, found, errors, arguments>>
Overwritten(output, path) ==
    [o \in DOMAIN written \union {output} |-> IF o = output THEN path ELSE written[o]]
RejectFile ==
    /\ phase = "generate" /\ errors # {}
    /\ Report(errors) /\ UNCHANGED written
WriteAnything ==                                                  \* mutant
    /\ phase = "generate" /\ errors = {}
    /\ Path \notin world.ungenerable
    /\ written' = Overwritten(OutputOf(Path), Path)
    /\ Report({})
WriteFile ==
    /\ phase = "generate" /\ errors = {} /\ DOMAIN found # {}
    /\ Path \notin world.ungenerable
    /\ written' = Overwritten(OutputOf(Path), Path)
    /\ Report({})
LeaveFile ==
    /\ phase = "generate" /\ errors = {} /\ DOMAIN found = {}
    /\ Report({}) /\ UNCHANGED written
GenerateFails ==
    /\ phase = "generate" /\ errors = {} /\ DOMAIN found # {}
    /\ Path \in world.ungenerable
    /\ Report({<<Path, "generate", 0>>}) /\ UNCHANGED written

Finish ==
    /\ phase = "files" /\ ~InPackage
    /\ phase' = "done"
    /\ UNCHANGED <<position, calls, found, errors, counts, arguments>>

Stopped == phase \in {"done", "crashed"} /\ UNCHANGED vars

Next == \/ BadArguments \/ GoodArguments \/ LoadFails \/ LoadSucceeds
        \/ SkipFile \/ NextPackage \/ StartFile
        \/ CompileFlow \/ CompileParallel \/ CompileStray \/ CompileOther \/ CheckTag
        \/ RejectFile \/ WriteFile \/ LeaveFile \/ GenerateFails
        \/ Finish \/ Stopped

Spec == Init /\ [][Next]_vars

-----------------------------------------------------------------------------
(* Properties                                                              *)

(* What is wrong with a file, told from the file alone.                     *)
Directives(path) ==
    {n \in DOMAIN world.content[path].calls :
        world.content[path].calls[n] \notin {"Stray", "Other"}}
Broken(path) ==
    {n \in DOMAIN world.content[path].calls :
        world.content[path].calls[n] \in {"BrokenFlow", "BrokenParallel", "EmptyParallel", "Stray"}}
Untagged(path) == IF world.content[path].tagged THEN {} ELSE Directives(path)
Wrong(path) ==
    {<<path, "call", n>> : n \in Broken(path)}
    \union {<<path, "tag", n>> : n \in Untagged(path)}
    \union {<<path, "generate", 0>> : n \in
               {m \in Directives(path) : Broken(path) \union Untagged(path) = {}
                                          /\ path \in world.ungenerable}}

Loaded == processed # 0 \/ (phase = "done" /\ err \notin {{"arguments"}, {"load"}})
Chosen == {i \in UNION {{p} \X DOMAIN Packages[p] : p \in DOMAIN Packages} : Selected(At(i))}
Good   == {i \in Chosen : Wrong(At(i)) = {} /\ Directives(At(i)) # {}}
Before(i, j) == i[1] < j[1] \/ (i[1] = j[1] /\ i[2] < j[2])

(* A run that ends has dealt with every file that was asked for, whatever   *)
(* was wrong with the others: everything wrong with each is in the error    *)
(* that is returned, and the files that failed are counted.                 *)
EveryFileAnswered ==
    phase = "done" /\ Loaded =>
        /\ processed = Cardinality(Chosen)
        /\ errored = Cardinality({i \in Chosen : Wrong(At(i)) # {}})
        /\ err = UNION {Wrong(At(i)) : i \in Chosen}

(* A run that ends has written the code of every file that was asked for,   *)
(* has a directive and nothing wrong with it, where that was asked for, and *)
(* of no other; of several files with one output, the last has written it.  *)
OutputsRight ==
    phase = "done" =>
        /\ DOMAIN written = IF Loaded THEN {OutputOf(At(i)) : i \in Good} ELSE {}
        /\ Loaded =>
              \A i \in Good :
                 (\A j \in Good : Before(i, j) => OutputOf(At(j)) # OutputOf(At(i)))
                     => written[OutputOf(At(i))] = At(i)

(* "files that use cff.Flow must be tagged": whoever uses a directive in a  *)
(* file without the tag is told so, along with everything else.             *)
UntaggedReported ==
    phase \in {"done", "crashed"} /\ Loaded =>
        \A i \in Chosen : \A n \in Directives(At(i)) :
            ~world.content[At(i)].tagged => <<At(i), "tag", n>> \in err
=============================================================================
