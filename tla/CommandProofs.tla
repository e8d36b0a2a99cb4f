---------------------------- MODULE CommandProofs -----------------------------
(***************************************************************************)
(* One run of the command deals with every file it was asked for, and       *)
(* writes the code of those in order only, for every invocation and all     *)
(* packages, of any number of files with any calls in them.                 *)
(***************************************************************************)
EXTENDS Command, FiniteSetTheorems, TLAPS

-----------------------------------------------------------------------------
(* The inductive invariant                                                 *)

(* The files the loop has passed, and those of them whose code is written.  *)
Passed   == {i \in Chosen : Before(i, position)}
Finished == Good \intersect Passed

Underway == phase \in {"compile", "generate", "crashed"}

CommandType ==
    /\ phase \in {"args", "load", "files", "compile", "generate", "done", "crashed"}
    /\ position \in (Nat \ {0}) \X (Nat \ {0})
    /\ calls \in Nat /\ processed \in Nat /\ errored \in Nat

(* Nothing has happened before the packages are loaded.                     *)
Fresh ==
    phase \in {"args", "load"} =>
        /\ position = <<1, 1>> /\ processed = 0 /\ errored = 0
        /\ err = {} /\ DOMAIN written = {}

(* An error of the arguments or of loading is the only one.                 *)
NeverLoaded ==
    /\ phase = "done" /\ processed = 0
    /\ err \in {{"arguments"}, {"load"}} /\ DOMAIN written = {}

(* What the command has counted and collected of the files it passed; the   *)
(* one underway is counted when it is begun.                                *)
Tallied ==
    /\ IsFiniteSet(Passed)
    /\ processed = Cardinality(Passed) + (IF Underway THEN 1 ELSE 0)
    /\ errored = Cardinality({i \in Passed : Wrong(At(i)) # {}})
    /\ err = UNION {Wrong(At(i)) : i \in Passed}

(* What it has written: of two files with one output the later one's code.  *)
Stored ==
    /\ DOMAIN written = {OutputOf(At(i)) : i \in Finished}
    /\ \A i \in Finished :
          (\A j \in Finished : Before(i, j) => OutputOf(At(j)) # OutputOf(At(i)))
              => written[OutputOf(At(i))] = At(i)

(* What the compiler knows of the file underway.                            *)
Compiled ==
    /\ Underway => position \in Chosen
    /\ phase \in {"compile", "generate"} =>
          /\ calls <= Len(Calls)
          /\ DOMAIN found = {n \in Directives(Path) : n <= calls}
    /\ phase = "compile" =>
          errors = {Error(n) : n \in {m \in Broken(Path) : m <= calls}}
    /\ phase = "generate" =>
          /\ calls = Len(Calls)
          /\ errors = {Error(n) : n \in Broken(Path)}
                      \union {<<Path, "tag", n>> : n \in Untagged(Path)}

Ended == phase = "done" => NeverLoaded \/ ~InPackage

CommandInv ==
    /\ world \in Worlds
    /\ CommandType /\ Fresh /\ Compiled /\ Ended
    /\ NeverLoaded \/ (Tallied /\ Stored)

-----------------------------------------------------------------------------
(* Files and their order                                                   *)

LEMMA WorldShape ==
  ASSUME world \in Worlds
  PROVE  /\ Packages \in Seq(Seq(DOMAIN world.content))
         /\ Len(Packages) \in Nat /\ DOMAIN Packages = 1..Len(Packages)
         /\ \A p \in DOMAIN Packages :
               /\ Len(Packages[p]) \in Nat /\ DOMAIN Packages[p] = 1..Len(Packages[p])
               /\ \A f \in DOMAIN Packages[p] : Packages[p][f] \in DOMAIN world.content
<1>1. Packages \in Seq(Seq(DOMAIN world.content))
  BY WorldsAssumption DEF Packages
<1>2. Len(Packages) \in Nat /\ DOMAIN Packages = 1..Len(Packages)
  BY <1>1
<1>3. ASSUME NEW p \in DOMAIN Packages
      PROVE  /\ Len(Packages[p]) \in Nat /\ DOMAIN Packages[p] = 1..Len(Packages[p])
             /\ \A f \in DOMAIN Packages[p] : Packages[p][f] \in DOMAIN world.content
  <2>1. Packages[p] \in Seq(DOMAIN world.content)
    BY <1>1, <1>2, <1>3
  <2> QED
    BY <2>1
<1> QED
  BY <1>1, <1>2, <1>3

(* A file that was asked for is a position in the packages.                 *)
LEMMA ChosenAt ==
  ASSUME world \in Worlds
  PROVE  /\ \A i \in Chosen :
               /\ i = <<i[1], i[2]>> /\ i[1] \in 1..Len(Packages)
               /\ i[2] \in 1..Len(Packages[i[1]])
               /\ Selected(At(i)) /\ At(i) \in DOMAIN world.content
         /\ \A p \in 1..Len(Packages) : \A f \in 1..Len(Packages[p]) :
               Selected(At(<<p, f>>)) => <<p, f>> \in Chosen
<1>1. ASSUME NEW i \in Chosen
      PROVE  /\ i = <<i[1], i[2]>> /\ i[1] \in 1..Len(Packages)
             /\ i[2] \in 1..Len(Packages[i[1]])
             /\ Selected(At(i)) /\ At(i) \in DOMAIN world.content
  <2>1. PICK p \in DOMAIN Packages : i \in {p} \X DOMAIN Packages[p]
    BY <1>1 DEF Chosen
  <2>2. i = <<p, i[2]>> /\ i[1] = p /\ i[2] \in DOMAIN Packages[p]
    BY <2>1
  <2>3. Selected(At(i))
    BY <1>1 DEF Chosen
  <2> QED
    BY <2>2, <2>3, WorldShape DEF At
<1>2. ASSUME NEW p \in 1..Len(Packages), NEW f \in 1..Len(Packages[p]),
             Selected(At(<<p, f>>))
      PROVE  <<p, f>> \in Chosen
  <2>1. p \in DOMAIN Packages /\ f \in DOMAIN Packages[p]
    BY WorldShape
  <2>2. <<p, f>> \in {p} \X DOMAIN Packages[p]
    BY <2>1
  <2> QED
    BY <1>2, <2>1, <2>2 DEF Chosen
<1> QED
  BY <1>1, <1>2

(* What is asked for, and what is wrong with it, never changes.             *)
LEMMA ArgumentsKept ==
  ASSUME UNCHANGED arguments
  PROVE  /\ world' = world /\ Chosen' = Chosen /\ Good' = Good /\ Packages' = Packages
         /\ \A i : At(i)' = At(i)
         /\ \A path : /\ Wrong(path)' = Wrong(path) /\ OutputOf(path)' = OutputOf(path)
                      /\ Directives(path)' = Directives(path)
                      /\ Broken(path)' = Broken(path) /\ Untagged(path)' = Untagged(path)
<1>1. invocation' = invocation /\ world' = world
  BY DEF arguments
<1>2. Packages' = Packages /\ \A i : At(i)' = At(i)
  BY <1>1 DEF Packages, At
<1>3. /\ \A path : Selected(path)' = Selected(path)
      /\ \A path : OutputOf(path)' = OutputOf(path)
  BY <1>1 DEF Selected, Inputs, OutputOf
<1>4. \A path : /\ Directives(path)' = Directives(path)
                /\ Broken(path)' = Broken(path)
  BY <1>1 DEF Directives, Broken
<1>5. \A path : Untagged(path)' = Untagged(path)
  BY <1>1, <1>4 DEF Untagged
<1>6. \A path : Wrong(path)' = Wrong(path)
  BY <1>1, <1>4, <1>5 DEF Wrong
<1>7. Chosen' = Chosen
  BY <1>2, <1>3 DEF Chosen
<1>8. Good' = Good
  BY <1>2, <1>4, <1>6, <1>7 DEF Good
<1> QED
  BY <1>1, <1>2, <1>3, <1>4, <1>5, <1>6, <1>7, <1>8

(* The loop passes the file at its position and no other.                   *)
LEMMA PassOne ==
  ASSUME CommandInv, UNCHANGED arguments, position' = Following, AtFile
  PROVE  /\ Passed' = Passed \union ({position} \intersect Chosen)
         /\ \A i \in Passed : Before(i, position)
         /\ position \notin Passed
<1>1. /\ position = <<position[1], position[2]>>
      /\ position[1] \in Nat /\ position[2] \in Nat
      /\ position'[1] = position[1] /\ position'[2] = position[2] + 1
  BY DEF CommandInv, CommandType, Following
<1>2. Chosen' = Chosen /\ world \in Worlds
  BY ArgumentsKept DEF CommandInv
<1>3. ASSUME NEW i \in Chosen
      PROVE  Before(i, position') <=> Before(i, position) \/ i = position
  <2>1. i = <<i[1], i[2]>> /\ i[1] \in Nat /\ i[2] \in Nat
    BY <1>2, ChosenAt, WorldShape
  <2>2. i = position <=> i[1] = position[1] /\ i[2] = position[2]
    BY <1>1, <2>1
  <2> QED
    BY <1>1, <2>1, <2>2 DEF Before
<1>4. ~Before(position, position)
  BY <1>1 DEF Before
<1> QED
  BY <1>2, <1>3, <1>4 DEF Passed

(* Past the last file of a package there is none to pass.                   *)
LEMMA PassNone ==
  ASSUME CommandInv, UNCHANGED arguments, position' = <<position[1] + 1, 1>>,
         InPackage, ~AtFile
  PROVE  Passed' = Passed
<1>1. /\ position[1] \in Nat \ {0} /\ position[2] \in Nat \ {0}
      /\ position'[1] = position[1] + 1 /\ position'[2] = 1
  BY DEF CommandInv, CommandType
<1>2. Chosen' = Chosen /\ world \in Worlds
  BY ArgumentsKept DEF CommandInv
<1>3. Len(Packages) \in Nat /\ position[1] \in DOMAIN Packages
  BY <1>1, <1>2, WorldShape DEF InPackage
<1>4. Len(Packages[position[1]]) \in Nat /\ position[2] > Len(Packages[position[1]])
  BY <1>1, <1>2, <1>3, WorldShape DEF AtFile
<1>5. ASSUME NEW i \in Chosen
      PROVE  Before(i, position') <=> Before(i, position)
  <2>1. i[1] \in Nat /\ i[2] \in Nat \ {0} /\ i[2] <= Len(Packages[i[1]])
    BY <1>2, <1>3, ChosenAt, WorldShape
  <2>2. i[1] = position[1] => i[2] < position[2]
    BY <1>1, <1>4, <2>1
  <2> QED
    BY <1>1, <2>1, <2>2 DEF Before
<1> QED
  BY <1>2, <1>5 DEF Passed

(* Once there is no package left, every file that was asked for is passed.  *)
LEMMA AllPassed ==
  ASSUME CommandInv, ~InPackage
  PROVE  Passed = Chosen
<1>1. position[1] \in Nat /\ world \in Worlds
  BY DEF CommandInv, CommandType
<1>2. Len(Packages) \in Nat /\ position[1] > Len(Packages)
  BY <1>1, WorldShape DEF InPackage
<1>3. \A i \in Chosen : Before(i, position)
  BY <1>1, <1>2, ChosenAt DEF Before
<1> QED
  BY <1>3 DEF Passed

(* What the command has counted and stored, it keeps while it passes no file *)
(* that was asked for.                                                      *)
LEMMA TallyKept ==
  ASSUME Tallied, Stored, UNCHANGED arguments, Passed' = Passed,
         Underway' <=> Underway, UNCHANGED counts
  PROVE  Tallied' /\ Stored'
<1>1. /\ processed' = processed /\ errored' = errored /\ err' = err /\ written' = written
  BY DEF counts
<1>2. Finished' = Finished
  BY ArgumentsKept DEF Finished
<1>3. Tallied'
  BY <1>1, ArgumentsKept DEF Tallied
<1>4. Stored'
  BY <1>1, <1>2, ArgumentsKept DEF Stored, Before
<1> QED
  BY <1>3, <1>4

-----------------------------------------------------------------------------
(* One file is dealt with                                                  *)

(* When the file underway is answered for, by what is wrong with it, it is  *)
(* counted among those passed.                                              *)
LEMMA ReportTallied ==
  ASSUME CommandInv, Tallied, phase = "generate", Report(Wrong(Path))
  PROVE  Tallied'
<1>1. /\ position \in Chosen /\ UNCHANGED arguments /\ position' = Following
      /\ Underway /\ ~Underway'
      /\ errored' = IF Wrong(Path) = {} THEN errored ELSE errored + 1
      /\ err' = err \union Wrong(Path) /\ processed' = processed
  BY DEF CommandInv, Compiled, Underway, Report
<1>2. AtFile
  BY <1>1, ChosenAt, WorldShape DEF CommandInv, AtFile, InPackage
<1>3. Passed' = Passed \union {position} /\ position \notin Passed
  BY <1>1, <1>2, PassOne
<1>4. IsFiniteSet(Passed') /\ Cardinality(Passed') = Cardinality(Passed) + 1
  BY <1>3, FS_AddElement DEF Tallied
<1>5. processed' = Cardinality(Passed') + (IF Underway' THEN 1 ELSE 0)
  BY <1>1, <1>4, FS_CardinalityType DEF Tallied
<1> DEFINE bad == {i \in Passed : Wrong(At(i)) # {}}
<1>6. IsFiniteSet(bad) /\ Cardinality(bad) \in Nat /\ position \notin bad
  BY <1>3, FS_Subset, FS_CardinalityType DEF Tallied
<1>7. bad' = IF Wrong(Path) = {} THEN bad ELSE bad \union {position}
  BY <1>1, <1>3, ArgumentsKept DEF Path
<1>8. errored' = Cardinality(bad')
  BY <1>1, <1>6, <1>7, FS_AddElement DEF Tallied
<1>9. err' = UNION {Wrong(At(i))' : i \in Passed'}
  BY <1>1, <1>3, ArgumentsKept DEF Tallied, Path
<1> QED
  BY <1>4, <1>5, <1>8, <1>9 DEF Tallied

(* A file with nothing to write leaves what is written as it is.            *)
LEMMA NothingStored ==
  ASSUME CommandInv, Stored, UNCHANGED arguments, UNCHANGED written,
         position \in Chosen \ Good, position' = Following
  PROVE  Stored'
<1>1. AtFile
  BY ChosenAt, WorldShape DEF CommandInv, AtFile, InPackage
<1>2. Passed' = Passed \union {position}
  BY <1>1, PassOne
<1>3. Finished' = Finished
  BY <1>2, ArgumentsKept DEF Finished
<1> QED
  BY <1>3, ArgumentsKept DEF Stored, Before

(* A file with code to write overwrites that of an earlier one.             *)
LEMMA CodeStored ==
  ASSUME CommandInv, Stored, UNCHANGED arguments, position \in Good,
         position' = Following, written' = Overwritten(OutputOf(Path), Path)
  PROVE  Stored'
<1>1. position \in Chosen
  BY DEF Good
<1>2. AtFile
  BY <1>1, ChosenAt, WorldShape DEF CommandInv, AtFile, InPackage
<1>3. /\ Passed' = Passed \union {position} /\ position \notin Passed
      /\ \A i \in Passed : Before(i, position)
  BY <1>1, <1>2, PassOne
<1>4. Finished' = Finished \union {position}
  BY <1>3, ArgumentsKept DEF Finished
<1>5. /\ DOMAIN written' = DOMAIN written \union {OutputOf(Path)}
      /\ written'[OutputOf(Path)] = Path
      /\ \A o \in DOMAIN written : o # OutputOf(Path) => written'[o] = written[o]
  BY DEF Overwritten
<1>6. DOMAIN written' = {OutputOf(At(i))' : i \in Finished'}
  BY <1>4, <1>5, ArgumentsKept DEF Stored, Path
<1>7. ASSUME NEW i \in Finished',
             \A j \in Finished' : Before(i, j) => OutputOf(At(j)) # OutputOf(At(i))
      PROVE  written'[OutputOf(At(i))] = At(i)
  <2>1. CASE i = position
    BY <1>5, <2>1 DEF Path
  <2>2. CASE i # position
    <3>1. i \in Finished /\ Before(i, position)
      BY <1>3, <1>4, <2>2 DEF Finished
    <3>2. OutputOf(At(i)) # OutputOf(Path)
      BY <1>4, <1>7, <3>1 DEF Path
    <3>3. written[OutputOf(At(i))] = At(i) /\ OutputOf(At(i)) \in DOMAIN written
      BY <1>4, <1>7, <3>1 DEF Stored
    <3> QED
      BY <1>5, <3>2, <3>3
  <2> QED
    BY <2>1, <2>2
<1> QED
  BY <1>6, <1>7, ArgumentsKept DEF Stored, Before

-----------------------------------------------------------------------------
(* One file is compiled                                                    *)

LEMMA FileShape ==
  ASSUME world \in Worlds, position \in Chosen
  PROVE  /\ Len(Calls) \in Nat /\ DOMAIN Calls = 1..Len(Calls)
         /\ world.content[Path].tagged \in BOOLEAN
         /\ Directives(Path) = {n \in 1..Len(Calls) : Calls[n] \notin {"Stray", "Other"}}
         /\ Broken(Path) = {n \in 1..Len(Calls) :
               Calls[n] \in {"BrokenFlow", "BrokenParallel", "EmptyParallel", "Stray"}}
<1>1. Path \in DOMAIN world.content
  BY ChosenAt DEF Path
<1>2. Calls \in Seq(Call) /\ world.content[Path].tagged \in BOOLEAN
  BY <1>1, WorldsAssumption DEF Calls
<1>3. Len(Calls) \in Nat /\ DOMAIN Calls = 1..Len(Calls)
  BY <1>2
<1> QED
  BY <1>2, <1>3 DEF Directives, Broken, Calls

(* A step within a file moves nothing that counts.                          *)
LEMMA Within ==
  ASSUME CommandInv, phase \in {"compile", "generate"}, Underway',
         UNCHANGED <<position, counts, arguments>>, calls' \in Nat,
         phase' \in {"compile", "generate", "crashed"}, Compiled'
  PROVE  CommandInv'
<1>1. Underway /\ Tallied /\ Stored
  BY DEF CommandInv, NeverLoaded, Underway
<1>2. Passed' = Passed
  BY ArgumentsKept DEF Passed, Before
<1>3. Tallied' /\ Stored'
  BY <1>1, <1>2, TallyKept
<1> QED
  BY <1>3, ArgumentsKept DEF CommandInv, CommandType, Fresh, Ended, counts

(* One call is compiled: found and errors are right up to it if it adds to  *)
(* them what it is.                                                         *)
LEMMA CallCompiled ==
  ASSUME CommandInv, NEW n, Compiling(n),
         DOMAIN found' = DOMAIN found \union
                            (IF Calls[n] \in {"Stray", "Other"} THEN {} ELSE {n}),
         errors' = errors \union
            (IF Calls[n] \in {"BrokenFlow", "BrokenParallel", "EmptyParallel", "Stray"}
             THEN {Error(n)} ELSE {})
  PROVE  CommandInv'
<1>1. /\ phase = "compile" /\ n = calls + 1 /\ n \in DOMAIN Calls /\ calls' = n
      /\ UNCHANGED <<phase, position, counts, arguments>>
  BY DEF Compiling
<1>2. /\ position \in Chosen /\ world \in Worlds /\ calls \in Nat
      /\ DOMAIN found = {m \in Directives(Path) : m <= calls}
      /\ errors = {Error(m) : m \in {k \in Broken(Path) : k <= calls}}
  BY <1>1 DEF CommandInv, CommandType, Compiled, Underway
<1>3. n \in 1..Len(Calls) /\ Len(Calls) \in Nat
  BY <1>1, <1>2, FileShape
<1>4. Path' = Path /\ Calls' = Calls /\ position' \in Chosen'
  BY <1>1, <1>2, ArgumentsKept DEF Path, Calls
<1>5. DOMAIN found' = {m \in Directives(Path) : m <= calls'}
  BY <1>1, <1>2, <1>3, FileShape
<1>6. {k \in Broken(Path) : k <= calls'} = {k \in Broken(Path) : k <= calls} \union
         (IF Calls[n] \in {"BrokenFlow", "BrokenParallel", "EmptyParallel", "Stray"}
          THEN {n} ELSE {})
  BY <1>1, <1>2, <1>3, FileShape
<1>7. errors' = {Error(m) : m \in {k \in Broken(Path) : k <= calls'}}
  BY <1>2, <1>6
<1>8. Compiled'
  BY <1>1, <1>3, <1>4, <1>5, <1>7, ArgumentsKept DEF Compiled, Error
<1> QED
  BY <1>1, <1>3, <1>8, Within DEF Underway

LEMMA CompileStep ==
  ASSUME CommandInv,
         CompileFlow \/ CompileParallel \/ CompileStray \/ CompileOther
  PROVE  CommandInv'
<1> DEFINE n == calls + 1
<1> HIDE DEF n
<1>1. CASE CompileFlow
  <2>1. /\ Compiling(n) /\ Calls[n] \in {"Flow", "BrokenFlow"}
        /\ errors' = errors \union (IF Calls[n] = "BrokenFlow" THEN {Error(n)} ELSE {})
        /\ DOMAIN found' = DOMAIN found \union {n}
    BY <1>1 DEF CompileFlow, Became, n
  <2> QED
    BY <2>1, CallCompiled
<1>2. CASE CompileParallel
  <2>1. /\ Compiling(n) /\ Calls[n] \in {"Parallel", "BrokenParallel", "EmptyParallel"}
        /\ errors' = errors \union (IF Calls[n] = "Parallel" THEN {} ELSE {Error(n)})
        /\ DOMAIN found' = DOMAIN found \union {n}
    BY <1>2 DEF CompileParallel, Became, n
  <2> QED
    BY <2>1, CallCompiled
<1>3. CASE CompileStray
  <2>1. /\ Compiling(n) /\ Calls[n] = "Stray"
        /\ errors' = errors \union {Error(n)} /\ found' = found
    BY <1>3 DEF CompileStray, IsCodegenDirective, n
  <2> QED
    BY <2>1, CallCompiled
<1>4. CASE CompileOther
  <2>1. /\ Compiling(n) /\ Calls[n] = "Other" /\ errors' = errors /\ found' = found
    BY <1>4 DEF CompileOther, IsCodegenDirective, n
  <2> QED
    BY <2>1, CallCompiled
<1> QED
  BY <1>1, <1>2, <1>3, <1>4

LEMMA CheckTagStep ==
  ASSUME CommandInv, CheckTag
  PROVE  CommandInv'
<1>1. /\ phase = "compile" /\ calls = Len(Calls)
      /\ UNCHANGED <<position, calls, found, counts, arguments>>
  BY DEF CheckTag
<1>2. /\ position \in Chosen /\ world \in Worlds /\ calls \in Nat
      /\ DOMAIN found = {m \in Directives(Path) : m <= calls}
      /\ errors = {Error(m) : m \in {k \in Broken(Path) : k <= calls}}
  BY <1>1 DEF CommandInv, CommandType, Compiled, Underway
<1>3. DOMAIN found = Directives(Path) /\ errors = {Error(m) : m \in Broken(Path)}
  <2>1. {m \in Directives(Path) : m <= calls} = Directives(Path)
    BY <1>1, <1>2, FileShape
  <2>2. {k \in Broken(Path) : k <= calls} = Broken(Path)
    BY <1>1, <1>2, FileShape
  <2> QED
    BY <1>2, <2>1, <2>2
<1>4. Path' = Path /\ Calls' = Calls /\ position' \in Chosen'
  BY <1>1, <1>2, ArgumentsKept DEF Path, Calls
<1>5. CASE phase' = "crashed"
  <2>1. Compiled'
    BY <1>4, <1>5 DEF Compiled
  <2> QED
    BY <1>1, <1>2, <1>5, <2>1, Within DEF Underway
<1>6. CASE phase' # "crashed"
  <2>1. /\ phase' = "generate"
        /\ errors' = errors \union (IF world.content[Path].tagged THEN {}
                                    ELSE {<<Path, "tag", n>> : n \in DOMAIN found})
    BY <1>2, <1>6, FileShape DEF CheckTag
  <2>2. errors' = errors \union {<<Path, "tag", n>> : n \in Untagged(Path)}
    BY <1>3, <2>1 DEF Untagged
  <2>3. /\ calls' <= Len(Calls') /\ calls' = Len(Calls')
        /\ DOMAIN found' = {n \in Directives(Path)' : n <= calls'}
    BY <1>1, <1>2, <1>4, FileShape, ArgumentsKept
  <2>4. errors' = {Error(m)' : m \in Broken(Path)'}
                     \union {<<Path', "tag", n>> : n \in Untagged(Path)'}
    BY <1>3, <1>4, <2>2, ArgumentsKept, <1>1 DEF Error
  <2>5. Compiled'
    BY <1>4, <2>1, <2>3, <2>4 DEF Compiled
  <2> QED
    BY <1>1, <1>2, <2>1, <2>5, Within DEF Underway
<1> QED
  BY <1>5, <1>6

-----------------------------------------------------------------------------
(* One file is answered for                                                *)

(* What is wrong with the file underway, told from what was found in it.    *)
LEMMA Verdict ==
  ASSUME CommandInv, phase = "generate"
  PROVE  /\ errors # {} => Wrong(Path) = errors
         /\ errors = {} => Wrong(Path) =
               IF DOMAIN found # {} /\ Path \in world.ungenerable
               THEN {<<Path, "generate", 0>>} ELSE {}
         /\ position \in Good <=>
               errors = {} /\ DOMAIN found # {} /\ Path \notin world.ungenerable
<1>1. /\ position \in Chosen /\ world \in Worlds /\ calls = Len(Calls)
      /\ DOMAIN found = {n \in Directives(Path) : n <= calls}
      /\ errors = {Error(n) : n \in Broken(Path)}
                  \union {<<Path, "tag", n>> : n \in Untagged(Path)}
  BY DEF CommandInv, Compiled, Underway
<1>2. DOMAIN found = Directives(Path)
  BY <1>1, FileShape
<1>3. Wrong(Path) = errors \union
         {<<Path, "generate", 0>> : n \in
            {m \in Directives(Path) : Broken(Path) \union Untagged(Path) = {}
                                      /\ Path \in world.ungenerable}}
  BY <1>1 DEF Wrong, Error
<1>4. errors = {} <=> Broken(Path) \union Untagged(Path) = {}
  BY <1>1 DEF Error
<1>5. /\ errors # {} => Wrong(Path) = errors
      /\ errors = {} => Wrong(Path) =
            IF DOMAIN found # {} /\ Path \in world.ungenerable
            THEN {<<Path, "generate", 0>>} ELSE {}
  BY <1>2, <1>3, <1>4
<1>6. position \in Good <=> Wrong(Path) = {} /\ DOMAIN found # {}
  BY <1>1, <1>2 DEF Good, Path
<1> QED
  BY <1>5, <1>6

LEMMA ReportStep ==
  ASSUME CommandInv, RejectFile \/ WriteFile \/ LeaveFile \/ GenerateFails
  PROVE  CommandInv'
<1>1. phase = "generate" /\ phase' = "files" /\ position \in Chosen /\ world \in Worlds
  BY DEF RejectFile, WriteFile, LeaveFile, GenerateFails, Report, CommandInv, Compiled,
         Underway
<1>2. Tallied /\ Stored
  BY <1>1 DEF CommandInv, NeverLoaded
<1>3. Report(Wrong(Path))
  BY <1>1, Verdict DEF RejectFile, WriteFile, LeaveFile, GenerateFails
<1>4. /\ position' = Following /\ UNCHANGED <<arguments, processed, calls>>
      /\ errored' \in {errored, errored + 1}
  BY <1>3 DEF Report
<1>5. Tallied'
  BY <1>1, <1>2, <1>3, ReportTallied
<1>6. Stored'
  <2>1. CASE WriteFile
    <3>1. position \in Good /\ written' = Overwritten(OutputOf(Path), Path)
      BY <1>1, <2>1, Verdict DEF WriteFile
    <3> QED
      BY <1>2, <1>4, <3>1, CodeStored
  <2>2. CASE RejectFile \/ LeaveFile \/ GenerateFails
    <3>1. position \notin Good /\ written' = written
      BY <1>1, <2>2, Verdict DEF RejectFile, LeaveFile, GenerateFails
    <3> QED
      BY <1>1, <1>2, <1>4, <3>1, NothingStored
  <2> QED
    BY <2>1, <2>2
<1>7. CommandType'
  <2>1. position[1] \in Nat \ {0} /\ position[2] \in Nat \ {0}
    BY DEF CommandInv, CommandType
  <2>2. position' \in (Nat \ {0}) \X (Nat \ {0})
    BY <1>4, <2>1 DEF Following
  <2> QED
    BY <1>1, <1>4, <2>2 DEF CommandInv, CommandType
<1> QED
  BY <1>1, <1>4, <1>5, <1>6, <1>7, ArgumentsKept
  DEF CommandInv, Fresh, Compiled, Ended, Underway

-----------------------------------------------------------------------------
(* The loop over the files, and what comes before it                       *)

(* A step outside any file that counts nothing.                             *)
LEMMA Between ==
  ASSUME CommandInv, phase \in {"args", "load", "files"},
         phase' \in {"load", "files", "done"}, UNCHANGED <<calls, counts, arguments>>,
         position' \in (Nat \ {0}) \X (Nat \ {0}), Passed' = Passed, Fresh', Ended'
  PROVE  CommandInv'
<1>1. Tallied /\ Stored /\ ~Underway /\ ~Underway'
  BY DEF CommandInv, NeverLoaded, Underway
<1>2. Tallied' /\ Stored'
  BY <1>1, TallyKept
<1>3. Compiled'
  BY <1>1 DEF Compiled, Underway
<1> QED
  BY <1>2, <1>3, ArgumentsKept DEF CommandInv, CommandType, counts

LEMMA FailStep ==
  ASSUME CommandInv, BadArguments \/ LoadFails
  PROVE  CommandInv'
<1>1. /\ phase \in {"args", "load"} /\ phase' = "done"
      /\ err' \in {{"arguments"}, {"load"}}
      /\ UNCHANGED <<position, calls, processed, errored, written, arguments>>
  BY DEF BadArguments, LoadFails, Fail
<1>2. NeverLoaded'
  BY <1>1 DEF CommandInv, Fresh, NeverLoaded
<1> QED
  BY <1>1, <1>2, ArgumentsKept
  DEF CommandInv, CommandType, Fresh, Compiled, Ended, Underway

LEMMA LoopStep ==
  ASSUME CommandInv,
         GoodArguments \/ LoadSucceeds \/ SkipFile \/ NextPackage \/ Finish
  PROVE  CommandInv'
<1>1. /\ position = <<position[1], position[2]>>
      /\ position[1] \in Nat \ {0} /\ position[2] \in Nat \ {0} /\ world \in Worlds
  BY DEF CommandInv, CommandType
<1>2. CASE GoodArguments
  <2>1. Passed' = Passed
    BY <1>2, ArgumentsKept DEF GoodArguments, Passed, Before
  <2> QED
    BY <1>1, <1>2, <2>1, Between
    DEF GoodArguments, CommandInv, CommandType, Fresh, Ended, counts
<1>3. CASE LoadSucceeds
  <2>1. Passed' = Passed
    BY <1>3, ArgumentsKept DEF LoadSucceeds, Passed, Before
  <2> QED
    BY <1>1, <1>3, <2>1, Between
    DEF LoadSucceeds, CommandInv, CommandType, Fresh, Ended, counts
<1>4. CASE SkipFile
  <2>1. position \notin Chosen
    BY <1>1, <1>4, ChosenAt DEF SkipFile, Path
  <2>2. Passed' = Passed
    BY <1>4, <2>1, PassOne DEF SkipFile
  <2>3. position' \in (Nat \ {0}) \X (Nat \ {0})
    BY <1>1, <1>4 DEF SkipFile, Following
  <2> QED
    BY <1>4, <2>2, <2>3, Between DEF SkipFile, Fresh, Ended
<1>5. CASE NextPackage
  <2>1. Passed' = Passed
    BY <1>5, PassNone DEF NextPackage
  <2>2. position' \in (Nat \ {0}) \X (Nat \ {0})
    BY <1>1, <1>5 DEF NextPackage
  <2> QED
    BY <1>5, <2>1, <2>2, Between DEF NextPackage, Fresh, Ended
<1>6. CASE Finish
  <2>1. Passed' = Passed
    BY <1>6, ArgumentsKept DEF Finish, Passed, Before
  <2>2. ~InPackage'
    BY <1>6, ArgumentsKept DEF Finish, InPackage
  <2> QED
    BY <1>1, <1>6, <2>1, <2>2, Between
    DEF Finish, CommandInv, CommandType, Fresh, Ended
<1> QED
  BY <1>2, <1>3, <1>4, <1>5, <1>6

LEMMA StartStep ==
  ASSUME CommandInv, StartFile
  PROVE  CommandInv'
<1>1. /\ phase = "files" /\ AtFile /\ Selected(Path) /\ phase' = "compile"
      /\ processed' = processed + 1 /\ calls' = 0 /\ found' = <<>> /\ errors' = {}
      /\ UNCHANGED <<position, errored, err, written, arguments>>
  BY DEF StartFile
<1>2. /\ position = <<position[1], position[2]>>
      /\ position[1] \in Nat \ {0} /\ position[2] \in Nat \ {0} /\ world \in Worlds
  BY DEF CommandInv, CommandType
<1>3. position \in Chosen
  <2>1. position[1] \in 1..Len(Packages) /\ Len(Packages[position[1]]) \in Nat
    BY <1>1, <1>2, WorldShape DEF AtFile, InPackage
  <2>2. position[2] \in 1..Len(Packages[position[1]])
    BY <1>1, <1>2, <2>1 DEF AtFile
  <2> QED
    BY <1>1, <1>2, <2>1, <2>2, ChosenAt DEF Path
<1>4. Tallied /\ Stored /\ ~Underway /\ Underway'
  BY <1>1 DEF CommandInv, NeverLoaded, Underway
<1>5. Passed' = Passed /\ Finished' = Finished
  BY <1>1, ArgumentsKept DEF Passed, Finished, Before
<1>6. Tallied'
  <2>1. processed' = Cardinality(Passed') + 1
    BY <1>1, <1>4, <1>5, FS_CardinalityType DEF Tallied
  <2> QED
    BY <1>1, <1>4, <1>5, <2>1, ArgumentsKept DEF Tallied
<1>7. Stored'
  BY <1>1, <1>4, <1>5, ArgumentsKept DEF Stored, Before
<1>8. Path' = Path /\ Calls' = Calls /\ position' \in Chosen'
  BY <1>1, <1>3, ArgumentsKept DEF Path, Calls
<1>9. /\ {n \in Directives(Path) : n <= 0} = {} /\ {m \in Broken(Path) : m <= 0} = {}
      /\ Len(Calls) \in Nat
  BY <1>2, <1>3, FileShape
<1>10. DOMAIN found' = {}
  BY <1>1
<1>11. Compiled'
  BY <1>1, <1>8, <1>9, <1>10, ArgumentsKept DEF Compiled
<1> QED
  BY <1>1, <1>2, <1>6, <1>7, <1>11, ArgumentsKept
  DEF CommandInv, CommandType, Fresh, Ended

-----------------------------------------------------------------------------
LEMMA CommandInitially == Init => CommandInv
<1> SUFFICES ASSUME Init PROVE CommandInv
  OBVIOUS
<1>1. /\ phase = "args" /\ position = <<1, 1>> /\ world \in Worlds /\ DOMAIN written = {}
      /\ calls = 0 /\ processed = 0 /\ errored = 0 /\ err = {}
  BY DEF Init
<1>2. Passed = {}
  <2>1. ASSUME NEW i \in Chosen PROVE ~Before(i, position)
    <3>1. i[1] \in Nat \ {0} /\ i[2] \in Nat \ {0}
      BY <1>1, ChosenAt, WorldShape
    <3> QED
      BY <1>1, <3>1 DEF Before
  <2> QED
    BY <2>1 DEF Passed
<1>3. Tallied
  <2>1. {i \in Passed : Wrong(At(i)) # {}} = {} /\ UNION {Wrong(At(i)) : i \in Passed} = {}
    BY <1>2
  <2> QED
    BY <1>1, <1>2, <2>1, FS_EmptySet DEF Tallied, Underway
<1>4. Stored
  BY <1>1, <1>2 DEF Stored, Finished
<1> QED
  BY <1>1, <1>3, <1>4
  DEF CommandInv, CommandType, Fresh, Compiled, Ended, Underway

LEMMA CommandStep == CommandInv /\ [Next]_vars => CommandInv'
<1> SUFFICES ASSUME CommandInv, [Next]_vars PROVE CommandInv'
  OBVIOUS
<1>1. CASE BadArguments \/ LoadFails
  BY <1>1, FailStep
<1>2. CASE GoodArguments \/ LoadSucceeds \/ SkipFile \/ NextPackage \/ Finish
  BY <1>2, LoopStep
<1>3. CASE StartFile
  BY <1>3, StartStep
<1>4. CASE CompileFlow \/ CompileParallel \/ CompileStray \/ CompileOther
  BY <1>4, CompileStep
<1>5. CASE CheckTag
  BY <1>5, CheckTagStep
<1>6. CASE RejectFile \/ WriteFile \/ LeaveFile \/ GenerateFails
  BY <1>6, ReportStep
<1>7. CASE Stopped \/ UNCHANGED vars
  <2>1. /\ UNCHANGED <<phase, position, calls, found, errors, processed, errored, err, written>>
        /\ UNCHANGED arguments
    BY <1>7 DEF Stopped, vars, arguments
  <2>2. /\ Path' = Path /\ Calls' = Calls /\ InPackage' = InPackage
        /\ Passed' = Passed /\ Finished' = Finished /\ Underway' = Underway
    BY <2>1, ArgumentsKept DEF Path, Calls, InPackage, Passed, Finished, Underway, Before
  <2>3. Tallied /\ Stored => Tallied' /\ Stored'
    BY <2>1, <2>2, TallyKept DEF counts
  <2>4. Underway => position' \in Chosen'
    BY <2>1, ArgumentsKept DEF CommandInv, Compiled
  <2>5. /\ Directives(Path)' = Directives(Path) /\ Broken(Path)' = Broken(Path)
        /\ Untagged(Path)' = Untagged(Path) /\ \A n : Error(n)' = Error(n)
    BY <2>1, <2>2, ArgumentsKept DEF Error
  <2>6. Compiled
    BY DEF CommandInv
  <2>7. Compiled'
    BY <2>1, <2>2, <2>4, <2>5, <2>6 DEF Compiled
  <2> QED
    BY <2>1, <2>2, <2>3, <2>7, ArgumentsKept
    DEF CommandInv, CommandType, Fresh, NeverLoaded, Ended
<1> QED
  BY <1>1, <1>2, <1>3, <1>4, <1>5, <1>6, <1>7 DEF Next

LEMMA CommandInvariance == Spec => []CommandInv
BY CommandInitially, CommandStep, PTL DEF Spec

-----------------------------------------------------------------------------
(* What follows                                                            *)

(* A run that ends has dealt with every file that was asked for, whatever   *)
(* was wrong with the others: each is counted, those that failed as failed, *)
(* and what was wrong with each is in the error that is returned.           *)
THEOREM FilesAreAnswered == Spec => []EveryFileAnswered
<1>1. ASSUME CommandInv, phase = "done", Loaded
      PROVE  /\ processed = Cardinality(Chosen)
             /\ errored = Cardinality({i \in Chosen : Wrong(At(i)) # {}})
             /\ err = UNION {Wrong(At(i)) : i \in Chosen}
  <2>1. ~NeverLoaded
    BY <1>1 DEF NeverLoaded, Loaded
  <2>2. Tallied /\ Passed = Chosen /\ ~Underway
    BY <1>1, <2>1, AllPassed DEF CommandInv, Ended, Underway
  <2>3. processed = Cardinality(Passed)
    BY <2>2, FS_CardinalityType DEF Tallied
  <2> QED
    BY <2>2, <2>3 DEF Tallied
<1>2. CommandInv => EveryFileAnswered
  BY <1>1 DEF EveryFileAnswered
<1> QED
  BY <1>2, CommandInvariance, PTL

(* A run that ends has written the code of every file that was asked for,   *)
(* has a directive and nothing wrong with it, where that was asked for, and *)
(* of no other; of several files with one output, the last has written it.  *)
THEOREM OutputsAreRight == Spec => []OutputsRight
<1>1. ASSUME CommandInv, phase = "done"
      PROVE  OutputsRight
  <2>1. CASE NeverLoaded
    BY <1>1, <2>1 DEF NeverLoaded, Loaded, OutputsRight
  <2>2. CASE ~NeverLoaded
    <3>1. Tallied /\ Stored /\ Passed = Chosen /\ ~Underway
      BY <1>1, <2>2, AllPassed DEF CommandInv, Ended, Underway
    <3>2. Finished = Good
      BY <3>1 DEF Finished, Good
    <3>3. CASE Loaded
      BY <3>1, <3>2, <3>3 DEF Stored, OutputsRight
    <3>4. CASE ~Loaded
      <4>1. processed = 0 /\ processed = Cardinality(Chosen) /\ IsFiniteSet(Chosen)
        BY <3>1, <3>4, FS_CardinalityType DEF Loaded, Tallied
      <4>2. Good = {}
        BY <4>1, FS_EmptySet DEF Good
      <4> QED
        BY <3>1, <3>2, <3>4, <4>2 DEF Stored, OutputsRight
    <3> QED
      BY <3>3, <3>4
  <2> QED
    BY <2>1, <2>2
<1>2. CommandInv => OutputsRight
  BY <1>1 DEF OutputsRight
<1> QED
  BY <1>2, CommandInvariance, PTL

=============================================================================
