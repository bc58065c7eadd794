----------------------------- MODULE MCSharing -----------------------------
(***************************************************************************)
(* The instance of AppData for TLC.                                        *)
(***************************************************************************)
EXTENDS SharingInvariants, TLC

CONSTANTS a1, o1, o2, o3

MCOwner == (a1 :> o1)

\* The names of the tables begin alike.
MCCut == [t \in Tables |-> 1]

Symmetric == Permutations(Procs) \cup Permutations(Users) \cup Permutations({o2, o3})
                \cup Permutations(Tables)
=============================================================================
