-------------------------- MODULE LoginInvariants --------------------------
(***************************************************************************)
(* What holds of logins and of the first setup.                            *)
(***************************************************************************)
EXTENDS FirstSetup

UserRow == [name : Names \cup {NoName}, live : BOOLEAN, new : BOOLEAN]
CredRow == [user : Nat, key : Keys, count : 0 .. MaxCount, live : BOOLEAN]
OrgRow == [members : SUBSET Nat, live : BOOLEAN, new : BOOLEAN]
CeremonyRow == [kind : {"register", "login"}, user : Nat,
                live : BOOLEAN, spoilt : BOOLEAN]

\* The tables and stores are what their types say; a live passkey belongs to
\* a live account, and a member of an organization is one; usernames and
\* passkeys are unique.
TypeOK ==
    /\ users \in Seq(UserRow) /\ creds \in Seq(CredRow) /\ orgs \in Seq(OrgRow)
    /\ ceremonies \in Seq(CeremonyRow)
    /\ \A l \in DOMAIN logins : logins[l].user \in DOMAIN users
    /\ \A i \in DOMAIN creds : creds[i].live => creds[i].user \in LiveUsers
    /\ \A i, j \in DOMAIN creds :
          i # j /\ creds[i].live /\ creds[j].live => creds[i].key # creds[j].key
    /\ \A o \in DOMAIN orgs : orgs[o].members \subseteq LiveUsers
    /\ \A u, v \in LiveUsers : u # v => users[u].name = NoName \/ users[u].name # users[v].name

\* A login with a passkey is a login of its owner, whoever the ceremony was
\* begun for, and of nobody else (FinishLogin).
SessionsEarned ==
    \A l \in DOMAIN logins :
       LET s == logins[l] IN
       s.ceremony # 0 =>
          /\ creds[s.cred].user = s.user
          /\ ceremonies[s.ceremony].user \in {0, s.user}

\* The stored count of a passkey never falls, in whatever order answers
\* arrive, unless another request overlaps the login.
CounterGrows ==
    [][\A p \in Procs, i \in DOMAIN creds :
          At(p, "count") /\ proc[p].alone => creds'[i].count >= creds[i].count]_vars

\* A ceremony leads to one login at most, unless two requests answer it at the
\* same time or it could not be deleted.
OneLoginPerCeremony ==
    \A l, m \in DOMAIN logins :
       l < m /\ logins[l].ceremony = logins[m].ceremony /\ logins[l].ceremony # 0
          => ceremonies[logins[l].ceremony].spoilt

\* A setup that nothing overlaps, and none of whose statements failed (a count
\* that fails lets it go on), only happens where nobody could log in, and
\* leaves, of what is new, its own account and organization.
FreshStart ==
    [][\A p \in Procs : At(p, "create") /\ proc[p].alone /\ Len(orgs') > Len(orgs) =>
          /\ NeedOOBE
          /\ \A u \in LiveUsers : ~users[u].new
          /\ \A o \in DOMAIN orgs : orgs[o].live /\ orgs[o].new => orgs[o].members # {}]_vars

\* Once somebody can log in a setup is never needed again, and a cleaning up
\* that is still under way spares them and their memberships.
InitializedForGood ==
    [][/\ ~NeedOOBE => ~NeedOOBE'
       /\ \A u \in LiveUsers :
             users[u].name # NoName \/ CredsOf(u) # {} =>
                /\ u \in LiveUsers'
                /\ \A o \in DOMAIN orgs :
                      orgs[o].live /\ u \in orgs[o].members
                         => orgs'[o].live /\ u \in orgs'[o].members]_vars
=============================================================================
