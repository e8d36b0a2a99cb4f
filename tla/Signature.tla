------------------------------ MODULE Signature ------------------------------
(***************************************************************************)
(* What the compiler makes of the signature of a user's function: its       *)
(* inputs and outputs without the context and the error, and whether it can *)
(* be called at all. A type is a model value; the types cff treats          *)
(* specially are strings.                                                   *)
(***************************************************************************)
EXTENDS Naturals, Sequences

(* The expression where a function is expected: its shape is "func", or     *)
(* "named" for a value of a named function type, or "other".               *)
Func(params, results) ==
    [shape |-> "func", variadic |-> FALSE, params |-> params, results |-> results]

IsContext(t) == t = "context"
IsError(t)   == t = "error"

Inputs(sig)   == SelectSeq(sig.params, LAMBDA p : ~IsContext(p))
Outputs(sig)  == SelectSeq(sig.results, LAMBDA r : ~IsError(r))
HasError(sig) == \E i \in DOMAIN sig.results : IsError(sig.results[i])

(* compileFunction: not nil.                                                *)
Compiles(sig) ==
    /\ sig.shape # "other"
    /\ ~sig.variadic
    /\ \A i \in DOMAIN sig.params  : IsContext(sig.params[i]) => i = 1
    /\ \A i \in DOMAIN sig.results : IsError(sig.results[i]) => i = Len(sig.results)

(* compilePredicate: not nil. The named types of functions are refused.     *)
IsPredicate(sig) ==
    /\ sig.shape = "func"
    /\ sig.results = <<"bool">>
    /\ Compiles(sig)

(* checkParallelTask, and the same tests for SliceEnd and MapEnd.           *)
TakesNothing(sig) == Compiles(sig) /\ Inputs(sig) = <<>> /\ Outputs(sig) = <<>>

(* What a check adds to the errors of the compiler.                         *)
ErrorsIf(condition, kind) == IF condition THEN {kind} ELSE {}
=============================================================================
