-------------------------- MODULE TokenInvariants --------------------------
(***************************************************************************)
(* What holds of logins and tokens, whoever requests what at the same time *)
(* and whatever fails.                                                     *)
(***************************************************************************)
EXTENDS Tokens

Roles == {"provider", "tenant"}

SessionRow == [user : Users, orgs : SUBSET Orgs, at : Nat, live : BOOLEAN]

WorkType == [pc : {"rotate", "role", "store", "drop", "revoke"},
             login : Nat, user : Users, org : Orgs, role : Roles, row : Nat]
AnswerType == [pc : {"idle", "answer"}, row : Nat]

\* Sessions, tokens and goroutines are what their types say.
TypeOK ==
    /\ bonds \subseteq Orgs \X Users
    /\ joined \subseteq Orgs \X Users
    /\ sessions \in Seq(SessionRow)
    /\ tokens \in Seq(TokenRow)
    /\ now \in Nat
    /\ proc \in [Procs -> WorkType \cup AnswerType]

\* A grant: user u acts in organization o, on account of login l.
FromLogin(l, u, o) ==
    /\ l \in DOMAIN sessions
    /\ sessions[l].user = u
    /\ o \in sessions[l].orgs

\* Every token, however often refreshed and by whomever, goes back to a login
\* of its user that offered its organization (ExchangeLoginSession,
\* RefreshToken), and so to a time when the user was its member; a provider's
\* token belongs to someone who has been a member of the provider.
GrantsFromBonds ==
    \A t \in DOMAIN tokens :
       /\ FromLogin(tokens[t].login, tokens[t].user, tokens[t].org)
       /\ <<tokens[t].org, tokens[t].user>> \in joined
       /\ tokens[t].role = "provider" => <<Provider, tokens[t].user>> \in joined

Usable(t) == ~tokens[t].revoked /\ now <= tokens[t].at + RefreshTTL

\* A login is open while its session, a token or a request in flight can
\* still bring a token.
Open(l) ==
    \/ SessionLives(l)
    \/ \E t \in DOMAIN tokens : tokens[t].login = l /\ Usable(t)
    \/ \E p \in Issuing : proc[p].login = l

Issued(l) == Cardinality({t \in DOMAIN tokens : tokens[t].login = l})

Grants == INSTANCE GrantLife WITH
    Logins <- 1 .. MaxLogins,
    open <- {l \in DOMAIN sessions : Open(l)},
    ended <- {l \in DOMAIN sessions : ~Open(l)},
    issued <- [l \in 1 .. MaxLogins |-> Issued(l)]

\* Once the session is used up or expired, the tokens are revoked or expired,
\* and no request that found them valid is in flight, nobody gets a token on
\* account of that login any more.
GrantsEnd == Grants!Spec
=============================================================================
