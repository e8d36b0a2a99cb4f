# A formal model of cff

cff is a Go toolchain for concurrent code. A user writes `cff.Flow`,
`cff.Parallel` and their options in a file behind the `cff` build tag; `cmd/cff`
compiles the file into plain Go code that creates *jobs* and hands them to a
small runtime, the *scheduler*. This directory holds TLA+ modules of the parts
of cff that have behaviour worth checking, the TLC configurations that check
small instances of them, and proofs of theorems that hold for all instances.

`Scheduler` is the core; `FlowRuntime` and `ParallelRuntime` model the code that
cff generates on top of it. `FlowCompiler`, `ParallelCompiler`, `Generator` and
`Command` model the tool that generates it, and `EmitterStack` the delivery of
events. `PROJECT.json` names the status of each component.

## The system

| component | state | operations | talks to |
|---|---|---|---|
| Scheduler (`scheduler/scheduler.go`) | job graph (`remaining`, `consumers`, `done`, `err`, `invalid`), ready list, counters, combined error; channels `enqueuec`, `readyc`, `donec`, `finishedc` | `Config.New`, `Enqueue`, `Wait`, the loop `run`, the function `worker`, the state ticker | caller through `enqueuec` and `finishedc`; workers through `readyc` and `donec`; emitter by callback |
| Generated flow (`internal/templates/flow`) | results of tasks, `ran` flag and recovered panic of each task and predicate | run the tasks and predicates of a flow, fall back, report events, return the first error | enqueues jobs and waits for the scheduler; calls emitters |
| Generated parallel (`internal/templates/parallel`) | `ran` flags, error | tasks, slice and map elements, end functions | scheduler, emitters |
| Flow compiler (`internal/compile.go`, `graph.go`, `cycle.go`) | the flow under construction: inputs, outputs, tasks, providers and receivers of types, the list of errors | accept or refuse a flow; sort its tasks topologically | generators |
| Parallel compiler (`internal/compile_parallel.go`) | list of tasks, slices and maps with serial numbers | accept or refuse a parallel | generators |
| Generators (`internal/gen*.go`, `internal/modifier`) | import aliases, position in the source, output buffer | copy the source, replace each directive, add imports, map lines | templates |
| Build tags (`internal/buildtag.go`) | none | invert the `cff` constraint of a file | generators |
| Emitters (`emitter*.go`, `scheduler.go`) | the stack of emitters | deliver each event to each of them | generated code, scheduler |
| Command line (`cmd/cff/main.go`, `internal/process.go`) | counters, accumulated error, one compiler to a file | select files, process each one | compiler and generators |

The behaviours that are hard to get right, and what makes each part correct:

* **Scheduler.** Goroutines without a common lock share the job graph: the loop
  owns it, the workers read `invalid` without synchronisation of their own. Jobs
  arrive while others finish, dependencies may be repeated, the loop may quit
  with jobs in every place, the context may be cancelled at any point, a job may
  end its goroutine. Correct means: a job runs at most once and only after its
  dependencies succeeded; the counters which decide when the loop ends are
  exact; `Wait` returns, and returns the truth; no goroutine is left behind.
* **Generated flow and parallel.** A task's closures run on different
  goroutines than the function that reads their results; a predicate's panic is
  adopted by its task; fallbacks replace errors and panics; events must agree
  with what happened. Correct means: an output is read only after its provider
  wrote it; a task's events are exactly one of success, error, panic, skipped
  (with their recovered variants); the flow's error is the error of a task.
* **Compilers.** Options come in any order and may be repeated; what one leaves
  behind the next finds. Correct means: a flow is accepted iff every type has one
  provider, everything provided is used, and there is no cycle; the sort is
  topological; a parallel is accepted iff its functions fit their collections
  (where the documentation says otherwise the points are listed, see below);
  what is accepted has code that compiles; no argument crashes the compiler.
* **Generators, build tags.** Names of packages that collide with each other and
  with those of the file, arguments that must be evaluated in the user's order
  although templates ask for them in their own, line directives, constraints
  nested in each other. Correct means: names denote what they were printed for,
  nothing of the source is lost, exactly one of the two files is built.
* **Command line.** One broken file must not stop the others, and nothing that
  was found wrong may be lost; code is written for the good files only.
* **Emitters.** Several goroutines report through one stack without a lock.
  Correct means: every event reaches every emitter, in order, once.

## Modules

| module | models | role |
|---|---|---|
| `Scheduler` | `scheduler/scheduler.go` | the detailed specification, its properties |
| `JobGraph` | what `Scheduler` promises | abstract specification |
| `SchedulerRefinement` | | the mapping from `Scheduler` to `JobGraph` |
| `MCScheduler` | | the instances for TLC |
| `SchedulerProofs` | | its safety properties, and that it implements `JobGraph`, proved |
| `FlowRuntime` | `internal/templates/flow` | the code of a flow, on top of `JobGraph` |
| `MCFlowRuntime` | | its instances for TLC |
| `FlowRuntimeProofs` | | its properties, proved |
| `ParallelRuntime` | `internal/templates/parallel` | the code of a parallel, on top of `JobGraph` |
| `MCParallelRuntime` | | its instances for TLC |
| `ParallelRuntimeProofs` | | its properties, proved |
| `EventLists` | | what the proofs of these two need to know of lists |
| `Signature` | `internal/compile.go` (functions), `types.go` | what both compilers make of a function's type |
| `FlowCompiler` | `internal/compile.go`, `graph.go`, `cycle.go` | how a `cff.Flow` is compiled |
| `FlowCompilerProofs` | | its properties, proved |
| `ParallelCompiler` | `internal/compile_parallel.go` | how a `cff.Parallel` is compiled |
| `ParallelCompilerProofs` | | its properties, proved |
| `MCCompiler` | | composes the two compilers: one directive, and its arguments for TLC |
| `BuildTag` | `internal/buildtag.go` | constraint trees and their inversion |
| `PackageNames` | `internal/gen.go` (`printImportAlias`, `typePrinter`, the imports added) | the names of packages in generated code |
| `PackageNamesProofs` | | that they are right, proved |
| `Generator` | `internal/gen*.go`, `flow_modifier.go`, `modifier/` | the code of one file, on top of `PackageNames` |
| `Command` | `cmd/cff/main.go`, `internal/process.go`, `compileFile` | one run of the tool |
| `CommandProofs` | | its properties, proved |
| `MCTool` | | puts the generator, the command and the emitters side by side: files, packages and combinations for TLC |
| `EmitterStack` | `emitter_stack.go`, `nop_emitter.go`, `scheduler.go` | combining emitters, delivering events |

### Scheduler

One action stands for the code a goroutine runs from one channel operation to
the next. That is as fine as the code needs: between two channel operations a
goroutine touches only its own state, with the exceptions named below.

| code | action |
|---|---|
| `Enqueue`: `s.enqueuec <- j` | `Enqueue(j)`; `DependencyLists` are the lists a caller can have in hand: jobs already returned, in any order, possibly repeated |
| `Wait`: `close(s.enqueuec)` | `CallWait` |
| `Wait`: the select on `finishedc` and `ctx.Done()` | `ReturnFinished`, `ReturnCtx` |
| `run`: `case readyc <- next` | `Dispatch(w)`: the send is a rendezvous with an idle worker |
| `run`: `case job, ok := <-enqueuec` | `Admit` (ok), `StopAccepting` (closed and drained) |
| `run`: `case res := <-s.donec` | `CollectAndQuit` (the error ends the loop), `Collect` |
| `run`: `case <-tickerC` | `Emit` |
| the exit test at the end of the loop body | `AfterSelect`, part of each of the above |
| the deferred functions of `run` | `Drain`, `ExitLoop` |
| `worker`: the checks, `job.run`, `donec <- res`, end of `range readyc` | `Begin(w)`, `Finish(w)`, `Post(w)`, `ExitWorker(w)` |
| a user cancels the context, a deadline passes | `CancelCtx` |

What is abstracted, and why that is sound for the properties:

* An error is its kind. `fail` is what a job returned, `exit` what a worker
  reports for a job that called `runtime.Goexit`, `ctx` the context's error,
  `invalid` the sentinel. `s.err` is the set of jobs whose errors were combined.
* There is one context for all jobs and `Wait`, as in generated code.
* A job that panics ends the process: the scheduler does not recover, so there
  is nothing to say about what follows.
* A worker that ended with `Goexit` is replaced by a new goroutine, which takes
  over its name; a worker that is not spawned yet is idle.
* The loop walks the consumers of a finished job once per subscription and
  appends a job to `ready` when its counter reaches 0. `ReleaseOrders` is the
  order this gives, without the walk.
* The condition of the select's `readyc` branch (`readyc` is nil when nothing is
  ready) is the guard of `Dispatch`.
* `Concurrency` is the cardinality of `Worker`, hence positive: `Config.New`
  replaces 0 by a default. A negative value makes `make(chan)` panic and is left
  out.

### JobGraph

The promise to the caller, without goroutines or queues: a job is submitted with
prerequisites, starts only if they all succeeded, is settled once (succeeded,
failed or skipped), and `Wait` answers nil only if all succeeded. A job's status
in the detailed model is decided by whoever holds it: `StatusOf` looks at `done`,
then `donec`, then the worker.

### FlowRuntime

The function that replaces a `cff.Flow` call and the closures of its jobs. The
scheduler is an instance of `JobGraph`, of which `SchedulerRefinement` shows that
the real one implements it: whatever the detailed scheduler does, the generated
code sees a behaviour of `JobGraph`. The flow is part of the state and never
changes (`needs`, `predNeeds`, `guarded`, `fallback`), so one run checks every
flow over `Task`.

| code | action |
|---|---|
| `pred.job = sched.Enqueue(...)`, `task.job = sched.Enqueue(...)` and the append to `tasks` | `EnqueuePredicate(t)`, `EnqueueTask(t)`, in the order of `TopoFuncs` |
| `sched.Wait(ctx)` and what follows | `Await`, then `Succeed` (the results are copied) or `Fail` |
| the deferred loop over `tasks`, the deferred `FlowDone` | `ReportSkipped`, once per task, then `Return` |
| `pred.run` | `StartPredicate(t)`, `EndPredicate(t)` |
| `task.run`: up to the call of the user's function, or past it | `StartTask(t)` |
| the function returns and its outcome is reported; it panics or calls Goexit | `ReturnFromTask(t)`; `AbortTask(t)` |
| `defer task.ran.Store(true)` | `StoreRan(t)`, a step of its own since the deferred loop reads `ran` without a lock |
| the deferred functions: recover, report, fall back, `TaskDone` | `LeaveTask(t)` |
| the context is cancelled; the scheduler gives up on a job | `CancelFlow`; `SkipJob` |

A task stands for the types it provides, so a value is "zero", "computed" or
"fallback". Every task may return an error: those without an error result are
the runs in which they do not. `panic(nil)` is not distinguished from a return,
emitters do not panic, and `cff.Results` lists all tasks. After the function has
returned its jobs go on: the closures' steps do not depend on `main`.

### ParallelRuntime

Tasks, with events and `ran` flags as in a flow; slices and maps, whose elements
are jobs of their own that report to no emitter; end functions, whose jobs depend
on all elements' jobs. `size` is the number of elements, 0 included, and a map
differs from a slice only in the order in which elements are met. The compiler
refuses end functions together with ContinueOnError, which is `Init`'s condition
on `withEnd`. `EnqueueTask`, `EnqueueElement`, `EnqueueEnd`, `Await`,
`Conclude(r)`, `ReportSkipped`, `Return` are the function; `StartJob`,
`EndTaskFunction`, `StoreRan`, `LeaveTask` the closure of a task;
`EndOtherFunction`, `LeaveOther` those of elements and end functions.

### FlowCompiler and ParallelCompiler

The user of the model writes the arguments while the compiler reads them, so TLC
meets every list of arguments up to a length, in every order. One action stands
for one turn of a loop or one call of a recursive function: walks over the graph
of types are steps, with the call stack in the state, so that there is something
to prove by induction over steps.

| code | action |
|---|---|
| `compileFlow`: the switch over the option | `ReadParams`, `ReadResults`, `ReadFlowOption`, `ReadTask`, `ReadInvalid` |
| `interpretTaskOptions`: the switch over the option of a task | `InterpretFallbackWith`, `InterpretPredicate`, `InterpretInstrument`, `InterpretInvoke`, `InterpretNoOption` |
| `compileTask`: the checks after its options, the functions of the task | `EndTask` |
| `compileFlow`: a call without arguments | `NoArguments` |
| `validateInstrument`, the loop that fills in `receivers` and `providers`, `validateNoUnusedOutputTypes` | `Link` |
| `validateFuncs`: one type of its queue; the inputs never used | `Visit(t)`; `EndVisits` |
| `findFlowCyclesForFunc`: a dependency is searched; the function returns | `SearchBelow(i, t)`; `SearchBack` |
| `validateNoCycles` returns, `scheduleFlow` goes on or not | `EndSearch` |
| `toposort`: the loop over the functions; a recursive call; its return; the end | `SortFrom(i)`; `SortBelow(t)`; `SortBack`; `Accept` |
| `compileParallel`: the switch over the option | `ReadParallelTask`, `ReadParallelTasks`, `ReadSlice`, `ReadMap`, `ReadOption`, `ReadInvalidParallel` |
| `compileParallel`: the checks after the loop | `Finish`, `EmptyParallel` |

The queue of `validateFuncs` is a set: in which order types are taken from it
decides about messages only, and a type is visited once. The order matters where
a cycle is searched for and where functions are sorted; there a step takes the
first dependency that is left (`IsFirst`), as the code does. The modifiers that
`compileFlow` collects on the way are `Generator`'s.

The other side is what the documentation of `cff.Flow`, `cff.Parallel` and their
options asks for (`AsDocumented`, `ParallelAsDocumented`), as a predicate of the
set of arguments, without an order. The code departs from it, so the properties
list in which points, and claim that there are no others:

| | a flow | a parallel |
|---|---|---|
| accepted although not allowed (`tolerated`) | no task or no result (`cff.go:170`); a value of `FallbackWith` that is only assignable (`cff.go:235`) | no function (`cff.go:321`); a function whose parameter is only assignable to the element (`cff.go:409`); `Params` or `Results`, which are ignored |
| refused although allowed (`AllowedButRefused`) | `Invoke(true)` of a task that returns something (`cff.go:305`); `FallbackWith` of a task that may only panic (`cff.go:231`); a predicate whose type has a name; `ContinueOnError(false)` (`cff.go:159`) | a map of a named type (a slice of one is accepted); an end function next to `ContinueOnError(false)` (`cff.go:159`) |

In the last point the documentation contradicts itself: `cff.go:450` and `:509`
exclude `ContinueOnError` from a collection with an end function without naming a
value, which is what the compiler does. Likewise `cff.go:170` mentions `Tasks` of
a flow, which `cff.go:390` forbids; the compiler refuses them, and here they count
as forbidden.

Types are model values; those the compiler treats specially
(context, error, bool, int) are strings. An error is its kind: which messages a
flow gets matters only as far as whether it gets one, and whether it is the one
about a cycle.

### BuildTag, PackageNames and Generator

`BuildTag` holds constraint trees, `Eval` and the inversion. `Generator` works on
a source of tokens: a stretch of text, the name of a directive or of an option,
an argument, the end of a directive. `WriteHeader`, then one step per directive
(`ReplaceDirective`; `ReplaceCall`, `PassPlaceholder` and `Implement` in mode
modifier), then `CopyRest`, then in mode source-map `ResetMagicTokens`. Templates
matter for two things: `Requests` of `PackageNames`, the packages whose names they
print, in order, and `Prologue`, the arguments they use. In mode modifier, too, directives ask for
names.

The names are those of `PackageNames`, which `Generator` extends: replacing a
directive is also `Ask`, and each name its templates print a step of its own
(`PrintNext`), before the generator goes on.

| code | action of `PackageNames` |
|---|---|
| a template is executed | `Ask(list)` |
| the template spells a name out (`time.Since`) | `PrintLiteral` |
| `import` and `typePrinter`: the file imports the package | `PrintImported(k)` |
| `printImportAlias`: the import was added before | `PrintAdded` |
| `printImportAlias`: the search for a free alias, `addImports`, `aliases` | `PrintNew(name)` with `Free` |
| `astutil.AddNamedImport` | `FinalImports` |

A name is a number of underscores and a string, because underscores are what the
search prepends. `Blank` and `Dot` stand for imports as `_` and `.`, which the code
takes for names like any other. `FirstOfPath` are the imports the code knows of: of
a path that is imported by several names, the first. `NamesResolve` says exactly
which printed names do not denote what they were printed for, see Findings.

A constraint is printed without parentheses between two negations
(`constraint.NotExpr.String`), and the parser refuses that: `Readable` are the
constraints that can be read again. `HeaderInverted` says for which sources they
can, and that such a file is built where the source would be with the tag flipped.

### Command

One run of `cff`: `BadArguments`/`GoodArguments`, `LoadFails`/`LoadSucceeds`, then
for each package and file `SkipFile`, or `StartFile`, one `Compile...` action per
call in it, `CheckTag`, and `RejectFile`, `WriteFile`, `LeaveFile` or
`GenerateFails`; `NextPackage` ends the inner loop, at once for a package of which
all files are tests. Of a directive matters only whether it is in order; `MCCompiler`
says when it is. A directive leaves nil behind as the code does: a flow when the
file has *any* error so far, a parallel only when it is empty.

### EmitterStack

`Stack` is the function of the same name; a combination written by the user is
nested at will, and the generated code stacks what it was given. `Emit(s)` is one
call of one emitter by source `s` (a task, or the scheduler), so sources
interleave between any two calls of one event.

## Runs

All bounds are on the numbers of jobs, of workers and on the length of a
dependency list (`MaxDeps`), on the tasks of a flow that have a predicate or a
fallback (`MaxSpecial`) or need no other task (`MaxSources`), and on the elements
of a collection (`MaxSize`). No other
counter needs one: each job is enqueued at most once, each closure runs once.

| run | instance | shows |
|---|---|---|
| `sched_continue` | 3 jobs, 2 workers, lists of 2, ContinueOnError, an emitter whose ticker fires at any time | all safety properties, what the emitter is told, and that the scheduler implements `JobGraph` |
| `sched_quit` | 3 jobs, 2 workers, lists of 1, without ContinueOnError, with fairness | after an early end `Wait` returns, with the right outcome, `Enqueue` never blocks for good, and the scheduler still implements `JobGraph` |
| `sched_live` | 3 jobs, 2 workers, lists of 1, ContinueOnError, with fairness | `Wait` returns and all workers end |
| `flow` | every flow of 3 tasks with an edge, one of them with a predicate, a fallback or both | inputs and results are final when read; each task's events are those of what happened |
| `parallel` | 2 tasks, one collection of 0 to 2 elements, with or without an end function, with or without ContinueOnError | the end function runs after its elements succeeded; everything runs that has to; the error and the events are right |
| `compiler` | every flow of up to 4 and every parallel of up to 3 arguments, one of them odd | both compilers accept what the documentation asks for, but for the points listed above; sort, cycle search and numbering are right; only an odd `Invoke` crashes |
| `tool` | files that differ in imports (blank, dot and repeated ones included), types and mode; in options; in constraints of two levels. Three files in up to two packages, with up to 2 calls in one of them. All combinations of two emitters and the nop emitter, three deep, 2 sources | which names resolve, the source is kept, the generated file is built where the source would be with the tag flipped; every file is answered for and the outputs are right; each emitter receives every event in order |
| `sched_stranded`, `flow_context`, `compiler_slice`, `tool_untagged`, `tool_imports` | expected violations | see Findings |

`parallel` makes ContinueOnError a variable that never changes, `compiler` and
`tool` choose a directive or a part in `Init`: one run then covers all, and the
parts share no variable. `sched_continue`, `sched_quit` and `sched_live` share the bounds on jobs
and workers.

Why the bounds are enough: three jobs make every shape that the bookkeeping
distinguishes (a chain of two edges, so invalidity travels through an invalid
job; two dependencies of one job; two consumers of one job; a repeated
dependency with `MaxDeps = 2`). Two workers make every race between them, and
between a posted and an unread result. Four independent jobs and two workers
fill the workers and `donec` at once, the smallest instance in which a worker
can block on `donec`. Jobs and workers are symmetric; liveness runs use no
symmetry.

Three tasks make a chain and a diamond's halves: a task whose predicate needs
one task while the task itself needs another, a skipped task's zero value in the
middle of a chain, a task that runs on while an unrelated one fails. Two elements
distinguish the last element of a collection from the others; one collection is
enough because collections share no state.

Four arguments of a flow are a chain or a join of three tasks and its results, or
a cycle of two and something that needs it; a type provided twice, one nobody
uses, one nobody provides; two odd arguments would be refused for either. Ten
plain and some thirty odd ones stand for the options: each condition in the code
has an argument that meets it and one that does not. Three arguments of a parallel
are two collections and the option that excludes one of them.

For names, two packages of one name, a third whose path and name differ, and one
called like a package of the standard library are all the collisions there are,
and a path is imported twice, as `_` or as `.` where that can meet them;
two directives let the second find what the first has added. Two levels of
operators are where inversion meets a constraint inside another. Three files are
one that is broken, one before or after it in the same package, and one of the
same name elsewhere; two calls, so that a broken one comes before or after a good
one. Two sources interleave; three levels of stacks are one more than flattening
has to undo.

### Fairness

`CallWait`: generated code always calls `Wait`. `ReturnFinished \/ ReturnCtx`,
`Drain`, `ExitLoop` and each `WorkerStep(w)`: Go runs every runnable goroutine,
and a running job is assumed to end. The branches of the loop's select each get
weak fairness: Go chooses uniformly among those that are ready, so none that
stays ready is passed over for ever. Nothing is assumed of `Enqueue`, of
`CancelCtx` or of `Emit`.

## Findings

* `sched_stranded` / `NeverStranded`. `Config.New` says workers should always be
  able to post their results. When the loop returns at the first error nobody
  receives from `donec` any more; with two workers each with a result buffered
  and another job in hand, a worker blocks for ever. It needs more results than
  `donec` has room for. With ContinueOnError the loop reads all results and no
  worker is left (`WorkersExit` in `sched_live`).
* `flow_context` / `ContextInvalidated`. The doc of `Flow` says that the context
  is invalidated if the flow ends early because of a failure. The generated code
  hands the caller's context on unchanged; nobody cancels it, so a task that runs
  on cannot tell.
* `compiler_slice` / `ParallelSliceCodeCompiles`. The doc of `Slice` makes the
  index optional and asks that an element can be passed to the function. The
  compiler tests assignability the other way round
  (`internal/compile_parallel.go:308`), so a function of a concrete type passes
  for a slice of interfaces; and with `SliceEnd` the template uses `idx`
  (`slice.go.tmpl:28`) whether or not it declared it. In both cases the generated
  file does not compile.
* `tool_untagged` / `UntaggedReported`. A flow that does not compile is kept as
  nil, and so is an empty parallel; the check of the build tag reads the node of
  each. A broken directive in a file without the tag crashes the tool, which then
  reports nothing of this file, nor of those it has processed already.
* `tool_imports` / `AddedNamesApart`. Of a path that the file imports by several
  names only the first is recorded as taken (`internal/gen.go:107`), although the
  names are kept as a list for just that case (`compile.go:81`). An import that is
  added may get the second, and the generated file declares it twice.

Smaller things met while modelling, which no run is spent on:

* The scheduler's count of ongoing jobs may exceed the number of workers, against
  the comment at `scheduler/scheduler.go:541`: a worker whose result is still in
  `donec` takes the next job. `idleWorkers` clamps, so the emitter is told sane
  numbers (`HonestReport`).
* When a flow returns early, `TaskSkipped` is reported of every task whose `ran`
  flag is not set yet, also of one that is running, though `emitter.go:122`
  documents it for tasks that did not run.
* The points in which the compilers depart from the documentation are in the table
  above (`FlowAcceptedIffDocumented`, `ParallelAcceptedIffDocumented`). Beyond them,
  `Predicate`, `FallbackWith` and `Invoke` of a task of a parallel are accepted and
  ignored. A second `Predicate` replaces the first (`compile.go:620`) whose sentinel stays.
  `--auto-instrument` reaches only the tasks after `InstrumentFlow`.
* The templates spell out `time.Since` (for instance `flow.go.tmpl:45`), which is
  wrong in a file that imports `time` by another name or has another `time`;
  `NamesResolve` states it. A package that the file imports as `_` or `.` is
  printed by that name (`gen.go:340`), which does not compile. Names declared in the
  file are not taken into account.
* A directive inside an argument of another is not compiled. A parallel ends in a
  line directive in every mode.
* A constraint with two negations in parentheses, `cff && !(!foo)`, is valid, and
  comes out as `!cff && !!foo` (`buildtag.go:114`), which is not: `go build` refuses
  the generated file. `HeaderInverted` says that nothing else has this effect.
* A constraint `cff || foo` selects the source and the generated file both where
  `foo` holds; inversion (`HeaderInverted`) does not claim otherwise. A file name
  with a `_GOOS` suffix loses it in the generated name.
* In mode modifier a predicate leaves a placeholder, which adds a parameter to the
  flow's function and no argument to its call: the code does not compile.
  `SourceKept` claims the correspondence for other flows only.
* `-file=dir/foo.go` matches nothing and is silently ignored; two files with one
  output overwrite each other, and files of a package with tests are processed
  once per variant. `OutputsRight` states what is written then.
* A stack of several nop emitters is not itself a nop emitter, so the scheduler
  keeps its ticker for nobody.

## Proofs

Every safety property, and the refinement, that a run checks of `Scheduler`,
`FlowRuntime`, `ParallelRuntime`, `FlowCompiler`, `ParallelCompiler`, `PackageNames`
and `Command` is also a theorem: it holds for every value of the constants. The
theorems compose. Those of a flow and of a parallel hold on
any scheduler that keeps `JobGraph`'s promise, and `SchedulerImplementsJobGraph`
says that the real one does.

| proofs of | assume of the constants |
|---|---|
| `Scheduler` | `Worker` and `Job` are finite, `Worker` is not empty, `NoJob` is not a job; `ContinueOnError` and `HasEmitter` are Boolean; `MaxDeps` is a number |
| `FlowRuntime` | `Task` is a finite set of numbers (the order in which the compiler sorted them); the two bounds of the runs are numbers, and are used for nothing else |
| `ParallelRuntime` | `Task` and `Collection` are finite, `MaxSize` is a number |
| `FlowCompiler` | `SentinelsApart`: no type of the user's is a sentinel of the compiler; `ArgumentsTyped`: arguments are those of the model, of any types, in lists of any length; the bounds of the runs are used for nothing else and may be anything |
| `ParallelCompiler` | `ListsAreFinite`: a call of `Tasks` lists finitely many functions |
| `PackageNames` | `ImportsApart`: no two imports of a file declare one name, which Go does not allow; `RequestsKnown`: a path that is asked for by itself ends in the package's name, no path ends in its package's name with underscores before it, and templates spell out `time` only |
| `Command` | `Worlds` is a set of lists of packages, these are lists of files, each of a known content; nothing is assumed of `Invocations` |

### The scheduler

All in `SchedulerProofs`. First `TypeCorrect == Spec => []TypeOK`, the type invariant, which
includes the capacities of the channels. `TypeOK` is not inductive: `Post` puts
the job a worker holds in `donec`, which has the right type only if the worker
does hold one. `HandsFull` (a worker holds a job exactly in the phases in which
the code has one) is the strengthening.

Then one inductive invariant, `IInv`, gives five theorems.

| theorem | states |
|---|---|
| `JobsInOnePlace` | `[]OnePlace`: no job is handed out, run or counted twice |
| `CountdownExact` | `[]RemainingExact`: `remaining` is exact, repeated dependencies included |
| `VerdictSettled` | `[]SettledVerdict`: `invalid` is right when a worker reads it |
| `DependenciesSucceedFirst` | `[]DependenciesFirst` |
| `NoWriteToHeldJobs` | `NoRacyWrite`, an action property |

The argument, and why each conjunct of `IInv` is needed:

* `Known` (every job that is anywhere was enqueued): a new job is in no place
  yet, so `Enqueue` cannot put it in a second one.
* `OnePlace`: a job moves from place to place; that it leaves one when it enters
  the next is its own induction.
* `Bookkeeping`, only while the loop selects (the early return leaves its books
  as they are): `remaining` counts the unfinished positions of the list,
  `consumers[d]` holds a job as often as its list names an unfinished `d`, and
  `invalid` says whether a finished dependency failed. A result moves its job to
  the finished ones, which takes exactly its occurrences out of each consumer's
  count. That is the long step, `CollectBooked`.
* `SettledVerdict`: follows from the books when the loop releases a job, and
  stays true after it has quit, since finished jobs stay finished.
* `RunningValid`: a worker runs a job only if `invalid` is not set; with
  `SettledVerdict` this gives `DependenciesFirst`.

The lemmas on lists (`AppendMembers`, `TailMembers`, `ConcatMembers`,
`CountSubscribed`) are what the steps share.

A third part adds to `IInv` what the loop knows of the whole. Its invariant is
`Outcome`.

| theorem | states |
|---|---|
| `CountersRight` | `[]CountersAgree`: `ongoing`, `waiting` and `pending` are exact while the loop selects |
| `ReportHonest` | `HonestReport`, an action property of `Emit` |
| `WaitTellsTheTruth` | `[]WaitOutcome`: nil from `Wait` means that all succeeded, an error names failures only |

* `Counted`: the three counters against the places jobs are in. `OnePlace` makes
  each move add to one place what it takes from another; a result makes `waiting`
  fall by as many jobs as it appends to `ready`, which needs `Bookkeeping`. The
  loop leaves its select when `pending` is 0, so that is when nothing is left.
* `ErrorsRecorded`: `schedErr` holds exactly the failures of finished jobs.
  `InvalidForCause`: no job is invalid while none has failed,
  so a job that was skipped cannot hide behind a nil error.
* `QuitsOnce`, `AllSeenTo`: a loop that ends without an error, or with
  ContinueOnError, ends with every job done; otherwise it ends with one failure.
* `ClosedForGood`, `ResultRead`: no job is enqueued behind the back of `Wait`, and
  `Wait` reads the error only after the loop has closed `finishedc`.

The last is `SchedulerImplementsJobGraph`. `StatusOf` picks a
result and a worker; `StatusByPlace` shows from `OnePlace` that there is only one
to pick, so each step changes the status of the job it moves and of no other.
Most steps map to a stutter (a job that changes queue keeps its status); `Enqueue`
submits, `Begin` starts or skips, `Finish` settles, the loop's reading of the
result does not: the status was settled in the worker. That a started job's
prerequisites had succeeded is `DependenciesFirst`, that a skipped one had a
reason is `SettledVerdict`, and that `Wait` answers as `JobGraph` says is
`Outcome`.

### The generated code

`FlowRuntimeProofs`, with the inductive invariant `FlowInv`:

| theorem | states |
|---|---|
| `FlowTypesRight` | `[]TypeOK`, with the bounds on what emitters are told |
| `InputsAreSettled` | `[]InputsSettled`: a task's inputs are final when its function is called |
| `ResultsAreFinal` | `[]ResultsFinal`: all results, or none |
| `OneVerdictEach`, `FailuresAreReported`, `AllAccountedFor` | the events of a task are those of what happened |

* `Ordered`: a task's job has its providers and its predicate for prerequisites,
  and a job that started found them succeeded. `Progress` ties the step of a
  closure to the status of its job, hence a job that succeeded to a closure that
  was left; the two give `InputsSettled`. `Valued` says what such a closure has
  written, and `Consulted` that its function was called if and only if the
  predicate allowed it, so that a zero value means a false predicate.
* `Reported`: what a task's emitter was told is a function of how far the closure
  is and how its function ended; nothing is told twice and nothing after
  `TaskDone`. The deferred scan's `TaskSkipped` is set apart, since it comes from
  another goroutine at any time after `Wait`.
* `Scanned`, `TasksListed`: the scan visits every task once, tells of those whose
  flag it finds unset, and after nil from `Wait` these are the ones whose predicate
  was false. `Copied` and `WaitMatches` say where the function itself is.

`ParallelRuntimeProofs`, with the inductive invariant `ParallelInv`:

| theorem | states |
|---|---|
| `ParallelTypesRight` | `[]TypeOK` |
| `EndsComeAfterElements` | `[]EndAfterElements`, for collections of any size |
| `EverythingHasRun` | `[]EverythingRan`, with ContinueOnError |
| `ErrorsAreRight` | `[]ErrorIsRight` |
| `TasksReportedOnce`, `SkippedForCancel` | `[]TasksAccountedFor`, `[]SkippedOnlyAfterCancel` |

`Ordered`, `Progress` and `Reported` are as in a flow. `Ordered` also keeps the
reason why a job was skipped, and `Answered` that what `Wait` said stays true
while other jobs go on: a job settled as failed stays failed, and with
ContinueOnError none is left to settle. ContinueOnError excludes end functions,
and without them no job has a prerequisite, so one is skipped only for a cancelled
context; that is `SkippedOnlyAfterCancel`.

### The command

`CommandProofs`: `FilesAreAnswered == Spec => []EveryFileAnswered` and
`OutputsAreRight == Spec => []OutputsRight`, for any number of packages and files,
empty packages and a file met twice included. The properties say something of the
end only; the inductive invariant `CommandInv` says it of every step:

* `Tallied`: `processed`, `errored` and `err` are those of the files passed so far
  (`Passed`), with the file underway counted already. `PassOne` shows that the two
  nested loops pass each position once, in order; `AllPassed` that they end when
  all files that were asked for are passed.
* `Compiled`: the directives and errors found in the file underway are those of the
  calls up to the present one, so what is reported of it is `Wrong`, which is a
  function of the file alone (`Verdict`). This is where a compiler that keeps
  errors of the file before would fail.
* `Stored`: what is written is the code of the good files passed, each overwriting
  an earlier one with the same output.
* `NeverLoaded`: the ends before the loop are told apart from those after it.

### The compilers

`FlowCompilerProofs`, for flows of any number of arguments over any types:

| theorem | states |
|---|---|
| `AcceptedIffDocumented` | `[]FlowAcceptedIffDocumented`: accepted means as documented but for the points listed, refused means not |
| `CycleReportedIffAny` | `[]FlowCycleReported` |
| `SortedForEnqueue` | `[]FlowSortedForEnqueue`: each function once, after what it waits for |
| `CrashesOnInvokeOnly` | `[]FlowCrashesOnInvokeOnly` |

The inductive invariant has a conjunct for each piece of the compiler's state:

* `TaskInv`, `FuncsInv`, `FlowInv`: what was compiled so far is what the arguments
  read so far ask for, a task's options counted up to the present one. Sentinels
  are numbered apart, so that no two functions provide the same one.
* `LinkInv`: `providers` maps each type that is provided to a function providing it.
* `ErrorsInv`: no error so far if and only if all arguments so far are in order
  and, once linked, all checks were passed. This is where an early return that
  forgot an error would fail. `RefusedInv`: nothing is refused for no reason.
* `ReachInv`: the visits of `validateFuncs` cover what the results need. When the
  queue is empty, `EveryFunctionReached` shows that every function was reached:
  everything provided is received, so by the absence of cycles one can go on from
  any function to one that receives from it, until a result. Hence no missing
  provider goes unnoticed although only what results lead to is visited.
* `CycleInv` with `SearchInv`: what is on the path hangs together, what was
  searched is closed under dependency and has no circle in it. A dependency on the
  path is then a circle, and when all is searched there is none.
* `SortInv`: a function in `topo` comes after its dependencies, those on the stack
  wait for each other. A function that is met on the stack again would be a circle,
  so `SortedOnce` needs `CycleInv`.
* `CrashInv`: an `Invoke(true)` that a later one replaced leaves a sentinel which
  nobody provides; the compiler crashes if there is one.

`Acceptable` is what the code asks of the arguments. It speaks of tasks, the
compiler of functions and numbers: a task's predicate is a function of its own.
`CircleOfTasks` and `CircleOfFunctions` carry a circle from one to the other.
`AcceptableIfAccepted` and `NotAcceptableIfRefused` say that the code decides it;
`AcceptableAsDocumented`, that it is what the documentation asks for, but for the
six points.

`ParallelCompilerProofs`: `AcceptedIffDocumented` (`[]ParallelAcceptedIffDocumented`)
and `EverythingNumbered` (`[]ParallelEverythingNumbered`). `Numbered` says that
the numbers in use are those below `taskSerial`, each once; `Counted`, that there
are as many functions and collections as were written; `Judged`, that errors so
far are those of the arguments so far. Nothing is assumed of assignability: that
the code asks for it in the wrong direction is one of the five points, and the
finding of `compiler_slice`.

### The names of packages

`PackageNamesProofs`: `NamesAreRight == NamesSpec => []NamesResolve`, for any imports and
any number of directives. The inductive invariant `NamesInv`:

* `AllTaken`: the first name of a path that the file imports, and that of each
  import added, is in `aliases`. A new name is free, so it differs from all of
  these; from the second name of a path it may not.
* `AddedApart`: no path is both the file's and added, two paths added have two
  names, and an import added without a name is of a package called what its path
  ends in.
* `PrintedOfImports`: what was printed is an import of the final file, or the
  `time` that templates spell out.

From these, `NamesApart` shows that a name is that of one import unless it is an
added import's and the second of a path, and `TwiceNamed` that such a name denotes
nothing: the exceptions in `NamesResolve` are exact. `FreeIsFree` is the lemma the
invariant rests on: of one more candidates than there are taken names one is free,
so the search ends, and at the first that is free. TLC evaluates both assumptions
on the files of the run.

### What is only model-checked

TLC checked each inductive invariant on the instances of the runs before it was
proved. Out of the provers' reach are

* liveness: `WaitReturns`, `EnqueueUnblocks`, `WorkersExit`;
* `HeaderInverted` and `EachInOrder`, about what recursive operators on trees (of
  constraints, of emitters) return, and `SourceKept`, about lists of tokens that are
  concatenated and filtered: these are inductions over data;
* that the steps of `Generator` on the names are steps of `PackageNames`, as its
  definitions say: `Generator` uses `BuildTag`, which is recursive. `NamesResolve` is
  checked on the composition.

## Plan

1. `Scheduler`, its abstract specification and its safety theorems (done).
2. `FlowRuntime` and `ParallelRuntime` over `JobGraph` (done).
3. The compilers against what the documentation asks for (done).
4. `BuildTag`, `Generator`, `Command`, `EmitterStack` (done).
5. Theorems: the scheduler's properties and its refinement of `JobGraph`, those
   of flows and parallels, of the command, of both compilers, and of the names of
   packages (done).
6. Open: `SourceKept`, `HeaderInverted` and `EachInOrder` as step machines, the way
   `FlowCompiler` became one, so that induction over steps takes the place of
   recursion over their data.

## Not modelled

Listed in `PROJECT.json` with reasons: the public API (stubs and documentation),
thin wrappers of go/ast, package loading, mocks and examples. The templates of
mode modifier make the scheduler's calls of a flow without predicates, fallbacks,
`ran` flags and events; `FlowRuntime` shows all there is to show of them. Of the
generators, the numbering of variables (`typeID`, `predID`), the names of modifier
functions and formatting are left out: no property here would tell two of them
apart. Of the command, the syntax of flags. Emitters that panic, jobs that panic
without the generated recover, and negative concurrency are outside the models.
