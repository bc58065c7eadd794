----------------------------- MODULE GrantLife -----------------------------
(***************************************************************************)
(* What the token endpoints promise of a login: tokens are issued for it   *)
(* while it is open; once it has ended, nobody gets a token for it again.  *)
(***************************************************************************)
EXTENDS Naturals

CONSTANT Logins

VARIABLES open, ended,   \* sets of logins
          issued         \* how many tokens a login has brought

grants == <<open, ended, issued>>

Init == open = {} /\ ended = {} /\ issued = [l \in Logins |-> 0]

SignIn(l) ==
    /\ l \notin open \cup ended
    /\ open' = open \cup {l}
    /\ UNCHANGED <<ended, issued>>

Issue(l) ==
    /\ l \in open
    /\ issued' = [issued EXCEPT ![l] = @ + 1]
    /\ UNCHANGED <<open, ended>>

\* Revoked or used up; several at a time when they expire.
End(L) ==
    /\ L \subseteq open
    /\ open' = open \ L
    /\ ended' = ended \cup L
    /\ UNCHANGED issued

Next == (\E l \in Logins : SignIn(l) \/ Issue(l)) \/ (\E L \in SUBSET Logins : End(L))

Spec == Init /\ [][Next]_grants
=============================================================================
