---------------------------- MODULE MCFlowRuntime ----------------------------
(***************************************************************************)
(* Instances of FlowRuntime for TLC: every flow of two or of three tasks.   *)
(***************************************************************************)
EXTENDS FlowRuntime

TwoTasks   == 1..2
ThreeTasks == 1..3
=============================================================================
