----------------------------- MODULE MCScheduler -----------------------------
(***************************************************************************)
(* Instances of Scheduler for TLC. Jobs and workers are interchangeable in  *)
(* the specification, so both sets are symmetric in the runs that check no  *)
(* liveness property.                                                       *)
(***************************************************************************)
EXTENDS SchedulerRefinement, TLC

Symmetry == Permutations(Job) \union Permutations(Worker)
=============================================================================
