---------------------------- MODULE MCAppRuntime ----------------------------
(***************************************************************************)
(* Instances of AppRuntime for TLC.                                        *)
(***************************************************************************)
EXTENDS AppIsolated, TLC

ProcSymmetry == Permutations(Procs)
=============================================================================
