------------------------------ MODULE MCTokens ------------------------------
(***************************************************************************)
(* Instances of Tokens for TLC.                                            *)
(***************************************************************************)
EXTENDS TokenInvariants, TLC

ProcSymmetry == Permutations(Procs)
=============================================================================
