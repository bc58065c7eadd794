------------------------------- MODULE Tokens -------------------------------
(***************************************************************************)
(* From a login to access and refresh tokens: OAuthService, the login      *)
(* sessions of oauth/session.go and the table oauth_tokens.                *)
(*                                                                         *)
(* A process p of Procs is the goroutine of one request; an action of p is *)
(* one call that leaves it (a statement or a Redis command) with the code  *)
(* up to the next one.  proc[p] is what the goroutine keeps meanwhile.     *)
(*                                                                         *)
(* An access token and the refresh token issued with it carry the same     *)
(* user, organization and time, so one row of tokens stands for both.      *)
(***************************************************************************)
EXTENDS Integers, Sequences, FiniteSets

CONSTANTS
    Procs, Users, Orgs,
    Provider,          \* the organization whose id is 1
    Faults,            \* which calls may fail, see below
    SessionTTL, AccessTTL, RefreshTTL,
    MaxLogins, MaxTokens, MaxTime   \* bounds

ASSUME ProviderIsOrg == Provider \in Orgs
ASSUME Lifetimes == SessionTTL \in Nat /\ AccessTTL \in Nat /\ RefreshTTL \in Nat
ASSUME LoginsBound == MaxLogins \in Nat

(***************************************************************************)
(* Faults is a subset of                                                   *)
(*   "failed"    a statement fails and its error is returned               *)
(*   "dropped"   a call fails whose error the code drops                   *)
(*   "gone"      the server stops, or the client goes before its answer    *)
(*   "revoke"    clients revoke tokens (not a fault, but not what the      *)
(*               platform's own pages ever do)                             *)
(***************************************************************************)

VARIABLES
    bonds,      \* org_user_bonds, as pairs <<organization, user>>
    joined,     \* history: every bond there has ever been
    sessions,   \* login sessions, in the order they were stored
    tokens,     \* oauth_tokens, in the order they were issued
    now,
    proc

vars == <<bonds, joined, sessions, tokens, now, proc>>

Session(u, orgs, at, live) == [user |-> u, orgs |-> orgs, at |-> at, live |-> live]

\* login is history: the session that the token goes back to.
TokenRow == [user : Users, org : Orgs, role : {"provider", "tenant"},
             at : Nat, revoked : BOOLEAN, login : Nat]

\* What a goroutine holds: the login, user and organization it issues a token
\* for, the role, and the row it has loaded (0 for none).
Work(label, l, u, o, role, t) ==
    [pc |-> label, login |-> l, user |-> u, org |-> o, role |-> role, row |-> t]

Idle == [pc |-> "idle", row |-> 0]
Answered(t) == [pc |-> "answer", row |-> t]

At(p, label) == proc[p].pc = label
Becomes(p, local) == proc' = [proc EXCEPT ![p] = local]
GoTo(p, label) ==
    Becomes(p, Work(label, proc[p].login, proc[p].user, proc[p].org,
                    proc[p].role, proc[p].row))
May(fault) == fault \in Faults

\* The goroutines that will issue a token.
Issuing == {p \in Procs : proc[p].pc \in {"rotate", "role", "store"}}
Room == Len(tokens) + Cardinality(Issuing) < MaxTokens

-----------------------------------------------------------------------------
(***************************************************************************)
(* Members come and go; the details are the directory's.                   *)
(***************************************************************************)
Join(o, u) ==
    /\ bonds' = bonds \cup {<<o, u>>}
    /\ joined' = joined \cup {<<o, u>>}
    /\ UNCHANGED <<sessions, tokens, now, proc>>

Leave(o, u) ==
    /\ <<o, u>> \in bonds
    /\ bonds' = bonds \ {<<o, u>>}
    /\ UNCHANGED <<joined, sessions, tokens, now, proc>>

\* The end of every way to log in (module Login): the user and the
\* organizations they can choose from are stored for five minutes.
AvailableOrgs(u) == {o \in Orgs : <<o, u>> \in bonds}

SignIn(u) ==
    /\ Len(sessions) < MaxLogins
    /\ sessions' = Append(sessions, Session(u, AvailableOrgs(u), now, TRUE))
    /\ UNCHANGED <<bonds, joined, tokens, now, proc>>

SessionLives(l) == sessions[l].live /\ now <= sessions[l].at + SessionTTL

-----------------------------------------------------------------------------
(***************************************************************************)
(* ExchangeLoginSession: load the session, issue, delete the session.  The *)
(* deletion is deferred, so it happens whatever becomes of the rest.       *)
(***************************************************************************)
\* Mutant: any organization.
OfferedAny(l, o) == TRUE

Offered(l, o) == o \in sessions[l].orgs

Exchange(p, l, o) ==
    /\ At(p, "idle")
    /\ Room
    /\ SessionLives(l)
    /\ Offered(l, o)
    /\ Becomes(p, Work("role", l, sessions[l].user, o, "tenant", 0))
    /\ UNCHANGED <<bonds, joined, sessions, tokens, now>>

\* Asking for another organization uses the session up as well.
ExchangeElsewhere(p, l, o) ==
    /\ At(p, "idle")
    /\ SessionLives(l)
    /\ ~Offered(l, o)
    /\ Becomes(p, Work("drop", l, sessions[l].user, o, "tenant", 0))
    /\ UNCHANGED <<bonds, joined, sessions, tokens, now>>

\* Mutant: the session is left to expire.
DeletedNot(s) == s

Deleted(s) == Session(s.user, s.orgs, s.at, FALSE)

DropSession(p) ==
    /\ At(p, "drop")
    /\ \/ sessions' = [sessions EXCEPT ![proc[p].login] = Deleted(sessions[proc[p].login])]
       \/ May("dropped") /\ UNCHANGED sessions
    /\ Becomes(p, Answered(proc[p].row))
    /\ UNCHANGED <<bonds, joined, tokens, now>>

-----------------------------------------------------------------------------
(***************************************************************************)
(* RefreshToken: find the row, revoke it, issue anew; RevokeToken.         *)
(***************************************************************************)
\* Mutant: the lookup finds revoked rows too.
FoundAny(t) == TRUE

\* GetByRefreshTokenHash.
Found(t) == ~tokens[t].revoked

RefreshLoad(p, t) ==
    /\ At(p, "idle")
    /\ Room
    /\ Found(t)
    /\ now <= tokens[t].at + RefreshTTL
    /\ Becomes(p, Work("rotate", tokens[t].login, tokens[t].user, tokens[t].org,
                       "tenant", t))
    /\ UNCHANGED <<bonds, joined, sessions, tokens, now>>

RevokedRow(r) ==
    [user |-> r.user, org |-> r.org, role |-> r.role, at |-> r.at,
     revoked |-> TRUE, login |-> r.login]

Revoke(t) == tokens' = [tokens EXCEPT ![t] = RevokedRow(tokens[t])]

RefreshRotate(p) ==
    /\ At(p, "rotate")
    /\ Revoke(proc[p].row) \/ (May("dropped") /\ UNCHANGED tokens)
    /\ GoTo(p, "role")
    /\ UNCHANGED <<bonds, joined, sessions, now>>

RevokeLoad(p, t) ==
    /\ May("revoke")
    /\ At(p, "idle")
    /\ Found(t)
    /\ Becomes(p, Work("revoke", tokens[t].login, tokens[t].user, tokens[t].org,
                       "tenant", t))
    /\ UNCHANGED <<bonds, joined, sessions, tokens, now>>

\* The handler drops the error and answers that the token is revoked.
RevokeSave(p) ==
    /\ At(p, "revoke")
    /\ Revoke(proc[p].row) \/ (May("dropped") /\ UNCHANGED tokens)
    /\ Becomes(p, Answered(0))
    /\ UNCHANGED <<bonds, joined, sessions, now>>

-----------------------------------------------------------------------------
(***************************************************************************)
(* issueTokens: the role is looked up, then the row stored.  A token for   *)
(* the provider's organization needs no lookup; a failing one means tenant.*)
(***************************************************************************)
\* Mutant: the name of a role that there is no more.
RoleNowRenamed(u, o) ==
    IF o = Provider \/ <<Provider, u>> \in bonds THEN "provider" ELSE "member"

RoleNow(u, o) == IF o = Provider \/ <<Provider, u>> \in bonds THEN "provider" ELSE "tenant"

ResolveRole(p) ==
    /\ At(p, "role")
    /\ \E role \in {RoleNow(proc[p].user, proc[p].org)} \cup
                   (IF May("failed") /\ proc[p].org # Provider THEN {"tenant"} ELSE {}) :
          Becomes(p, Work("store", proc[p].login, proc[p].user, proc[p].org,
                          role, proc[p].row))
    /\ UNCHANGED <<bonds, joined, sessions, tokens, now>>

\* A session exchange has loaded no row; it deletes its session next.
Finish(p, t) ==
    IF proc[p].row = 0
    THEN Becomes(p, Work("drop", proc[p].login, proc[p].user, proc[p].org,
                         proc[p].role, t))
    ELSE Becomes(p, Answered(t))

NewToken(p) == [user |-> proc[p].user, org |-> proc[p].org, role |-> proc[p].role,
                at |-> now, revoked |-> FALSE, login |-> proc[p].login]

StoreToken(p) ==
    /\ At(p, "store")
    /\ tokens' = Append(tokens, NewToken(p))
    /\ Finish(p, Len(tokens) + 1)
    /\ UNCHANGED <<bonds, joined, sessions, now>>

StoreFails(p) ==
    /\ At(p, "store")
    /\ May("failed")
    /\ Finish(p, 0)
    /\ UNCHANGED <<bonds, joined, sessions, tokens, now>>

\* The client has its answer: a token, or (0) none.
Answer(p) ==
    /\ At(p, "answer")
    /\ Becomes(p, Idle)
    /\ UNCHANGED <<bonds, joined, sessions, tokens, now>>

Gone(p) ==
    /\ May("gone")
    /\ ~At(p, "idle")
    /\ Becomes(p, Idle)
    /\ UNCHANGED <<bonds, joined, sessions, tokens, now>>

Tick ==
    /\ now < MaxTime
    /\ now' = now + 1
    /\ UNCHANGED <<bonds, joined, sessions, tokens, proc>>

-----------------------------------------------------------------------------
Init ==
    /\ bonds \in SUBSET (Orgs \X Users)
    /\ joined = bonds
    /\ sessions = <<>>
    /\ tokens = <<>>
    /\ now = 0
    /\ proc = [p \in Procs |-> Idle]

Request(p) ==
    \/ \E l \in DOMAIN sessions :
          \E o \in Orgs : Exchange(p, l, o) \/ ExchangeElsewhere(p, l, o)
    \/ \E t \in DOMAIN tokens : RefreshLoad(p, t) \/ RevokeLoad(p, t)

\* The server's goroutine goes on.
Continue(p) ==
    \/ RefreshRotate(p) \/ RevokeSave(p) \/ ResolveRole(p)
    \/ StoreToken(p) \/ StoreFails(p) \/ DropSession(p)

Next ==
    \/ \E o \in Orgs, u \in Users : Join(o, u) \/ Leave(o, u)
    \/ \E u \in Users : SignIn(u)
    \/ \E p \in Procs : Request(p) \/ Continue(p) \/ Answer(p) \/ Gone(p)
    \/ Tick

Spec == Init /\ [][Next]_vars
=============================================================================
