-------------------------- MODULE MCParallelRuntime --------------------------
(***************************************************************************)
(* Instances of ParallelRuntime for TLC. Tasks are interchangeable, and     *)
(* collections are.                                                         *)
(***************************************************************************)
EXTENDS ParallelRuntime, TLC

Symmetry == Permutations(Task) \union Permutations(Collection)
=============================================================================
