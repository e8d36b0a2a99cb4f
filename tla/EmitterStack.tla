---------------------------- MODULE EmitterStack ----------------------------
(***************************************************************************)
(* What the emitters of a directive receive (emitter_stack.go). The user    *)
(* combines emitters with EmitterStack, nested as they like, and the        *)
(* generated code combines what it was given once more. The stack makes an  *)
(* emitter for every task, for the directive and for the scheduler, and     *)
(* each goroutine then passes its events on, to one emitter after another   *)
(* and without a lock: the goroutines interleave between any two calls.     *)
(***************************************************************************)
EXTENDS Naturals, Sequences, FiniteSets, SequencesExt

CONSTANTS
    Source,         \* the goroutines that have events to report
    Programs,       \* the sequences of events that one of them may report
    Combinations    \* the emitters the directive may be given

(* An emitter is <<"nop">>, <<"user", e>> or <<"stack", emitters>>; what    *)
(* the user writes is a combination: the last with combinations inside.     *)
Nop     == <<"nop">>
User(e) == <<"user", e>>

VARIABLES
    combination,    \* the combination that was written
    stack,          \* the emitter that it made
    program,        \* the events each source reports
    emitters,       \* the emitters that the stack made for each source
    event, next,    \* each source: the event it reports, and to which emitter
    received        \* by each of the user's emitters, from each source

vars == <<combination, stack, program, emitters, event, next, received>>

-----------------------------------------------------------------------------
IsStack(e) == e[1] = "stack"
StackKeepingStacks(es) ==                                         \* mutant
    CASE Len(es) = 0 -> Nop
      [] Len(es) = 1 -> es[1]
      [] OTHER -> <<"stack", FlattenSeq([i \in DOMAIN es |->
                      IF IsStack(es[i]) THEN <<es[i][2][1]>> ELSE <<es[i]>>])>>
(* EmitterStack: none or one need no stack, and stacks are flattened.       *)
Stack(es) ==
    CASE Len(es) = 0 -> Nop
      [] Len(es) = 1 -> es[1]
      [] OTHER -> <<"stack", FlattenSeq([i \in DOMAIN es |->
                      IF IsStack(es[i]) THEN es[i][2] ELSE <<es[i]>>])>>

RECURSIVE Combine(_)
Combine(c) == IF IsStack(c) THEN Stack([i \in DOMAIN c[2] |-> Combine(c[2][i])]) ELSE c

(* TaskInit, FlowInit, ParallelInit and SchedulerInit. An emitter may return *)
(* the same for every source.                                               *)
Made(e) == IF IsStack(e) THEN e[2] ELSE <<e>>

RECURSIVE Leaves(_)
Leaves(c) == IF IsStack(c) THEN FlattenSeq([i \in DOMAIN c[2] |-> Leaves(c[2][i])]) ELSE <<c>>
Users(c) == {l \in Range(Leaves(c)) : l # Nop}

(* adaptSchedulerEmitter: no scheduler reports to a nop emitter.            *)
Scheduler == "scheduler"
Reports(s) == s # Scheduler \/ stack # Nop

-----------------------------------------------------------------------------
Init ==
    /\ combination \in Combinations
    /\ stack = Combine(combination)
    /\ program \in [Source -> Programs]
    /\ emitters = [s \in Source |-> Made(stack)]
    /\ event = [s \in Source |-> 1] /\ next = [s \in Source |-> 1]
    /\ received = [u \in Users(combination) |-> [s \in Source |-> <<>>]]

(* One call of the loop over the stack; after the last, the source comes to *)
(* its next event.                                                          *)
Emit(s) ==
    LET e == emitters[s][next[s]]  last == next[s] = Len(emitters[s]) IN
    /\ Reports(s) /\ event[s] <= Len(program[s])
    /\ received' = IF e = Nop THEN received
                   ELSE [received EXCEPT ![e][s] = Append(@, program[s][event[s]])]
    /\ next' = [next EXCEPT ![s] = IF last THEN 1 ELSE @ + 1]
    /\ event' = [event EXCEPT ![s] = IF last THEN @ + 1 ELSE @]
    /\ UNCHANGED <<combination, stack, program, emitters>>

Reported(s) == ~Reports(s) \/ event[s] > Len(program[s])
Done == (\A s \in Source : Reported(s)) /\ UNCHANGED vars

Next == (\E s \in Source : Emit(s)) \/ Done

Spec == Init /\ [][Next]_vars

-----------------------------------------------------------------------------
(* Properties                                                              *)

(* However emitters are nested and goroutines interleave, each receives the *)
(* events of every source in the order in which they were reported, as many *)
(* times as it was written into the combination, and at the end all of them.*)
Times(e, c) == Cardinality({i \in DOMAIN Leaves(c) : Leaves(c)[i] = e})
EachInOrder ==
    \A u \in Users(combination) : \A s \in Source :
        LET all == FlattenSeq([i \in DOMAIN program[s] |->
                       [k \in 1..Times(u, combination) |-> program[s][i]]])
        IN  /\ IsPrefix(received[u][s], all)
            /\ event[s] > Len(program[s]) => received[u][s] = all
            /\ ~Reports(s) => Users(combination) = {}
=============================================================================
