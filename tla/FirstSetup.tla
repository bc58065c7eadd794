----------------------------- MODULE FirstSetup -----------------------------
(***************************************************************************)
(* OOBEHandler: the first administrator and organization, in a system that *)
(* nobody can log in to yet.  Departments are left out: a setup makes one, *)
(* and an organization's go with it.                                       *)
(***************************************************************************)
EXTENDS Login

-----------------------------------------------------------------------------
(***************************************************************************)
(* NeedOOBE counts passwords, then passkeys.                               *)
(***************************************************************************)
NoPasswords == \A u \in LiveUsers : users[u].name = NoName

\* Mutant: passkeys do not count.
NoPasskeysAny == TRUE

NoPasskeys == \A i \in DOMAIN creds : ~creds[i].live

NeedOOBE == NoPasswords /\ NoPasskeys

\* The error counts as a disturbance.
Fails(p, label) ==
    /\ proc' = [proc EXCEPT ![p].pc = label, ![p].alone = FALSE]
    /\ UNCHANGED accounts

\* A username or a password that is refused leads nowhere.  The error of a
\* count is dropped, and it reads as none: a failed one lets the setup go on
\* where somebody has a password, or a passkey.
Setup(p, n) ==
    /\ At(p, "idle") /\ RoomForUser
    /\ Starts(p, [Work("passkeys", 0, 0, 0, 0) EXCEPT !.name = n, !.alone = NoPasswords])
    /\ UNCHANGED <<accounts, sessions>>

SetupGuard(p) ==
    /\ At(p, "passkeys")
    /\ \/ NoPasskeys /\ Goes(p, "cleanBonds") /\ UNCHANGED accounts
       \/ ~NoPasskeys /\ Ends(p) /\ UNCHANGED accounts
       \/ ~NoPasskeys /\ Fails(p, "cleanBonds")
    /\ UNCHANGED sessions

-----------------------------------------------------------------------------
(***************************************************************************)
(* cleanupOrphanedOOBE: bonds, users and organizations of an attempt that  *)
(* came to nothing, if that was in the last thirty minutes.  Each deletion *)
(* may fail, which nobody hears of.                                        *)
(***************************************************************************)
\* Mutant: accounts with a passkey go too.
OrphanedNamed(u) == u \in LiveUsers /\ users[u].new /\ users[u].name = NoName

Orphaned(u) ==
    /\ u \in LiveUsers /\ users[u].new
    /\ users[u].name = NoName /\ CredsOf(u) = {}

Orphans == {u \in DOMAIN users : Orphaned(u)}

Without(members) == [o \in DOMAIN orgs |-> [orgs[o] EXCEPT !.members = @ \ members]]

CleanBonds(p) ==
    /\ At(p, "cleanBonds")
    /\ \/ orgs' = Without(Orphans) /\ Goes(p, "cleanUsers") /\ UNCHANGED <<users, creds>>
       \/ Fails(p, "cleanUsers")
    /\ UNCHANGED sessions

\* Bonds and passkeys go with their account.
CleanUsers(p) ==
    /\ At(p, "cleanUsers")
    /\ \/ /\ users' = [u \in DOMAIN users |-> [users[u] EXCEPT !.live = @ /\ u \notin Orphans]]
          /\ creds' = [i \in DOMAIN creds |->
                          [creds[i] EXCEPT !.live = @ /\ creds[i].user \notin Orphans]]
          /\ orgs' = Without(Orphans)
          /\ Goes(p, "cleanOrgs")
       \/ Fails(p, "cleanOrgs")
    /\ UNCHANGED sessions

CleanOrgs(p) ==
    /\ At(p, "cleanOrgs")
    /\ \/ /\ orgs' = [o \in DOMAIN orgs |->
                        [orgs[o] EXCEPT !.live = @ /\ (orgs[o].members # {} \/ ~orgs[o].new)]]
          /\ Goes(p, "create")
          /\ UNCHANGED <<users, creds>>
       \/ Fails(p, "create")
    /\ UNCHANGED sessions

\* One transaction.
SetupCreate(p) ==
    /\ At(p, "create")
    /\ \A u \in LiveUsers : users[u].name # proc[p].name
    /\ users' = Append(users, User(proc[p].name))
    /\ orgs' = Append(orgs, Org({Len(users) + 1}))
    /\ Ends(p)
    /\ UNCHANGED <<creds, sessions>>

-----------------------------------------------------------------------------
\* Thirty minutes pass, longer than any request takes or a challenge lives.
Age ==
    /\ Busy = {}
    /\ \E u \in DOMAIN users : users[u].new
    /\ users' = [u \in DOMAIN users |-> [users[u] EXCEPT !.new = FALSE]]
    /\ orgs' = [o \in DOMAIN orgs |-> [orgs[o] EXCEPT !.new = FALSE]]
    /\ ceremonies' = [c \in DOMAIN ceremonies |-> [ceremonies[c] EXCEPT !.live = FALSE]]
    /\ UNCHANGED <<creds, logins, proc>>

(***************************************************************************)
(* An empty database; one in which an attempt of an older version, which   *)
(* made the organization before the passkey, has left its account; or, to  *)
(* begin later, two accounts with a passkey each.                          *)
(***************************************************************************)
Registered ==
    /\ users = <<User(NoName), User(NoName)>> /\ orgs = <<>>
    /\ \E k \in Keys : \E l \in Keys \ {k}, n \in 0 .. MaxCount :
          creds = <<Cred(1, k, n), Cred(2, l, 0)>>

Init ==
    /\ \/ users = <<>> /\ orgs = <<>> /\ creds = <<>>
       \/ users = <<User(NoName)>> /\ orgs = <<Org({1})>> /\ creds = <<>>
       \/ Registered
    /\ ceremonies = <<>> /\ logins = <<>>
    /\ proc = [p \in Procs |-> Idle]

SetupStep(p) ==
    \/ \E n \in Names : Setup(p, n)
    \/ SetupGuard(p) \/ CleanBonds(p) \/ CleanUsers(p) \/ CleanOrgs(p) \/ SetupCreate(p)

Next ==
    \/ \E p \in Procs : LoginStep(p) \/ SetupStep(p)
    \/ Age

Spec == Init /\ [][Next]_vars
=============================================================================
