---------------------------- MODULE MCWorkflowRun ----------------------------
(***************************************************************************)
(* WorkflowRun on small instances.  The managers are interchangeable, so   *)
(* the safety runs with two of them use symmetry.                          *)
(***************************************************************************)
EXTENDS WorkflowRun, TLC

ManagerSymmetry == Permutations(Managers)
==============================================================================
