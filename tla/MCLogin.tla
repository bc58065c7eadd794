------------------------------ MODULE MCLogin ------------------------------
(***************************************************************************)
(* The instance of FirstSetup for TLC.                                     *)
(***************************************************************************)
EXTENDS LoginInvariants, TLC

Symmetric == Permutations(Procs) \cup Permutations(Keys) \cup Permutations(Names)
=============================================================================
