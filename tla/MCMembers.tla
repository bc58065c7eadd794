----------------------------- MODULE MCMembers -----------------------------
(***************************************************************************)
(* The instance of Members for TLC.                                        *)
(***************************************************************************)
EXTENDS MemberInvariants, TLC

CONSTANTS ph1, d1

MCPhoneOf == (d1 :> ph1)

Symmetric == Permutations(Procs) \cup Permutations(Passwords) \cup Permutations(Names)
=============================================================================
