-------------------------- MODULE MemberInvariants --------------------------
(***************************************************************************)
(* What holds of accounts and memberships.                                 *)
(***************************************************************************)
EXTENDS Members

UserRow == [phone : Phones \cup {NoPhone}, name : Names \cup {NoName},
            password : Passwords \cup {NoPassword},
            ids : SUBSET ({"userid", "union", "open"} \X People)]
BondRow == [org : Orgs, user : Nat, admin : BOOLEAN, dept : Nat, live : BOOLEAN]

\* The tables are what their types say: accounts with a username have a
\* password, and of several bonds for one membership one at most is live.
TypeOK ==
    /\ users \in Seq(UserRow)
    /\ bonds \in Seq(BondRow)
    /\ \A u \in DOMAIN users : users[u].name # NoName => users[u].password # NoPassword
    /\ \A b, c \in DOMAIN bonds :
          /\ bonds[b].user \in DOMAIN users
          /\ b # c /\ bonds[b].live /\ bonds[c].live
                => bonds[b].org # bonds[c].org \/ bonds[b].user # bonds[c].user
    /\ \A p \in Procs : ~At(p, "idle") => proc[p].alone \in BOOLEAN
    /\ account \in [People -> Nat]

\* A removal never takes an organization's last administrator, unless another
\* request overlaps it: the rule is checked on the bonds read before
\* (RemoveMember).  A demotion has no such rule.
LastAdminStays ==
    [][\A p \in Procs, o \in Orgs :
          At(p, "delete") /\ proc[p].alone /\ Admins(o) # {} => Admins(o)' # {}]_vars

\* A request that overlaps no other changes of an account only what it is
\* about: the password if it is a reset, a missing DingTalk id if it is a
\* DingTalk login, although rows are saved whole (UpdateMember, LoginOrCreate).
SavesKeepTheRest ==
    [][\A p \in Procs : ~At(p, "idle") /\ proc[p].alone /\ proc'[p] # proc[p] =>
          \A u \in DOMAIN users :
             LET old == users[u]
                 new == users'[u] IN
             /\ new.phone = old.phone /\ new.name = old.name
             /\ old.ids \subseteq new.ids
             /\ new.password = old.password \/ At(p, "reset")]_vars

\* However often a person logs in by DingTalk, and whatever happens to their
\* account meanwhile, the login leads to the same account (findDingTalkUser).
SamePersonSameAccount ==
    [][\A d \in People : account[d] # 0 => account'[d] = account[d]]_vars
=============================================================================
