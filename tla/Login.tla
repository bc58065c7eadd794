------------------------------- MODULE Login -------------------------------
(***************************************************************************)
(* Passkeys, passwords and the first setup: WebAuthnService,               *)
(* PasswordService and OOBEHandler, up to the login session, from where    *)
(* Tokens goes on.                                                         *)
(*                                                                         *)
(* As in Members an action is one statement, or one call of Redis, with    *)
(* the code up to the next one, and proc[p] is what the goroutine keeps.   *)
(***************************************************************************)
EXTENDS Integers, Sequences, FiniteSetsExt

CONSTANTS
    Procs, Keys,        \* Keys: the passkeys that authenticators make
    Names, NoName,      \* usernames
    MaxCount,           \* what authenticators count to
    MaxUsers, MaxCeremonies, MaxLogins   \* bounds

ASSUME CountsAssumption == MaxCount \in Nat

VARIABLES
    users,       \* table users, by id, removed ones with live = FALSE
    creds,       \* table webauthn_credentials, by id
    orgs,        \* table orgs, by id, with the members of org_user_bonds
    ceremonies,  \* Redis: the challenges, by session id
    logins,      \* Redis: the login sessions that passkeys have led to, by id
    proc

vars == <<users, creds, orgs, ceremonies, logins, proc>>
accounts == <<users, creds, orgs>>
sessions == <<ceremonies, logins>>

\* An account without a username has no password, and the other way round;
\* new is to be at most thirty minutes old.
User(name) == [name |-> name, live |-> TRUE, new |-> TRUE]
Org(members) == [members |-> members, live |-> TRUE, new |-> TRUE]
Cred(u, k, n) == [user |-> u, key |-> k, count |-> n, live |-> TRUE]

\* user is 0 in a ceremony that is for whoever answers; spoilt (history), of a
\* login, that two requests have answered at a time or it could not be deleted.
Ceremony(kind, u) == [kind |-> kind, user |-> u, live |-> TRUE, spoilt |-> FALSE]
LoginSession(u, c, cred) == [user |-> u, ceremony |-> c, cred |-> cred]

\* Of a request: the ceremony, the user it is about (0: none), the key and the
\* count of the authenticator's answer, the credential's row (0: none) and its
\* copy; alone says that no other request has been in flight since it began,
\* and that none of its statements has failed that it went on without.
Work(label, c, u, k, n) ==
    [pc |-> label, ceremony |-> c, user |-> u, key |-> k, count |-> n,
     cred |-> 0, name |-> NoName, alone |-> TRUE]

Idle == [pc |-> "idle"]
At(p, label) == proc[p].pc = label
Busy == {p \in Procs : ~At(p, "idle")}

Disturbed(q) == IF At(q, "idle") THEN Idle ELSE [proc[q] EXCEPT !.alone = FALSE]

Starts(p, work) ==
    proc' = [q \in Procs |->
        IF q = p THEN [work EXCEPT !.alone = @ /\ Busy = {}] ELSE Disturbed(q)]

Goes(p, label) == proc' = [proc EXCEPT ![p].pc = label]
Ends(p) == proc' = [proc EXCEPT ![p] = Idle]

\* All that is left to do is to delete the ceremony, if there is one.
Closes(p) ==
    IF proc[p].ceremony = 0 THEN Ends(p)
    ELSE proc' = [proc EXCEPT ![p] = [Work("drop", @.ceremony, 0, 0, 0) EXCEPT !.alone = FALSE]]

RoomForUser == Len(users) + Cardinality(Busy) < MaxUsers

LiveUsers == {u \in DOMAIN users : users[u].live}
CredsOf(u) == {i \in DOMAIN creds : creds[i].live /\ creds[i].user = u}
ByKey(k) == {i \in DOMAIN creds : creds[i].live /\ creds[i].key = k}

-----------------------------------------------------------------------------
(***************************************************************************)
(* The ceremonies in Redis.  That their time runs out, there and in the    *)
(* challenge itself, shows as a request that is refused.  Answers are to   *)
(* what was asked: a registration is not answered with an assertion.       *)
(***************************************************************************)
RoomForCeremony == Len(ceremonies) + Cardinality(Busy) < MaxCeremonies

StoreCeremony(kind, u) == ceremonies' = Append(ceremonies, Ceremony(kind, u))

Stored(c) == c \in DOMAIN ceremonies /\ ceremonies[c].live

\* Mutant: the ceremony is left to its time to live.
GoneLater(c) == ceremonies

Gone(c) == [ceremonies EXCEPT ![c].live = FALSE]

Shares(c) ==
    ceremonies' = [ceremonies EXCEPT ![c].spoilt = @ \/ \E q \in Busy : proc[q].ceremony = c]

\* Whatever becomes of the request; the error is dropped.
DeleteCeremony(p) ==
    /\ At(p, "drop")
    /\ ceremonies' = Gone(proc[p].ceremony)
    /\ Ends(p)
    /\ UNCHANGED <<accounts, logins>>

-----------------------------------------------------------------------------
(***************************************************************************)
(* Registration of a passkey, for an account or with a new account.        *)
(***************************************************************************)
BeginRegistration(p, u) ==
    /\ At(p, "idle") /\ RoomForCeremony
    /\ \/ u \in LiveUsers /\ UNCHANGED users
       \/ u = Len(users) + 1 /\ RoomForUser /\ users' = Append(users, User(NoName))
    /\ Starts(p, Work("register", 0, u, 0, 0))
    /\ UNCHANGED <<creds, orgs, sessions>>

RegistrationChallenge(p) ==
    /\ At(p, "register")
    /\ StoreCeremony("register", proc[p].user)
    /\ Ends(p)
    /\ UNCHANGED <<accounts, logins>>

\* The answer to ceremony c: the key k, new or not, which has counted nothing.
FinishRegistration(p, c, k) ==
    /\ At(p, "idle")
    /\ Stored(c) /\ ceremonies[c].kind = "register"
    /\ Starts(p, Work("verify", c, ceremonies[c].user, k, 0))
    /\ UNCHANGED <<accounts, sessions>>

RegistrationVerify(p) ==
    /\ At(p, "verify")
    /\ IF proc[p].user \in LiveUsers
       THEN Goes(p, "save") ELSE Closes(p)
    /\ UNCHANGED <<accounts, sessions>>

\* Mutant: without the foreign key.
InsertableAny(w) == ByKey(w.key) = {}

\* The unique index on the credential's id, and the foreign key.
Insertable(w) == ByKey(w.key) = {} /\ w.user \in LiveUsers

CreateCredential(p) ==
    /\ At(p, "save") /\ Insertable(proc[p])
    /\ creds' = Append(creds, Cred(proc[p].user, proc[p].key, proc[p].count))
    /\ Closes(p)
    /\ UNCHANGED <<users, orgs, sessions>>

-----------------------------------------------------------------------------
(***************************************************************************)
(* Login with a passkey: for a user that is named, or for whoever answers. *)
(***************************************************************************)
\* findUser takes the first of that name; any may be it.
BeginLogin(p, u) ==
    /\ At(p, "idle") /\ RoomForCeremony
    /\ u \in LiveUsers
    /\ Starts(p, Work("offer", 0, u, 0, 0))
    /\ UNCHANGED <<accounts, sessions>>

\* A challenge that is made up is stored nowhere.
LoginOffer(p) ==
    /\ At(p, "offer")
    /\ IF CredsOf(proc[p].user) = {} THEN UNCHANGED ceremonies
       ELSE StoreCeremony("login", proc[p].user)
    /\ Ends(p)
    /\ UNCHANGED <<accounts, logins>>

BeginDiscoverableLogin(p) ==
    /\ At(p, "idle") /\ RoomForCeremony
    /\ StoreCeremony("login", 0)
    /\ proc' = [q \in Procs |-> Disturbed(q)]
    /\ UNCHANGED <<accounts, logins>>

\* The answer to ceremony c by the key of row i, which has counted to n.  With
\* a user handle it names the owner itself.
FinishLogin(p, c, i, n, handle) ==
    /\ At(p, "idle") /\ Len(logins) + Cardinality(Busy) < MaxLogins
    /\ Stored(c) /\ ceremonies[c].kind = "login"
    /\ Starts(p, Work(IF handle THEN "identify" ELSE "validate", c,
                      IF handle THEN creds[i].user ELSE ceremonies[c].user,
                      creds[i].key, n))
    /\ Shares(c)
    /\ UNCHANGED <<accounts, logins>>

\* Mutant: the key is looked up among all.
ValidatesAny(w) == ByKey(w.key) # {}

Validates(w) == CredsOf(w.user) \cap ByKey(w.key) # {}

\* Mutant: the count is what the authenticator says.
UpdatedCounterAny(old, n) == n

\* A count that has not grown is a warning, which nobody heeds.
UpdatedCounter(old, n) == IF n > old THEN n ELSE old

\* The challenge is for whoever answers if the answer says who it is, and for
\* the user of the ceremony otherwise.  (The user and the credentials are read
\* one after the other; an account that has credentials is never removed.)
LoginValidate(p) ==
    LET w == proc[p]
        c == ceremonies[w.ceremony]
        valid == /\ Validates(w)
                 /\ (c.user = 0) = At(p, "identify")
    IN /\ At(p, "identify") \/ At(p, "validate")
       /\ \/ /\ valid
             /\ proc' = [proc EXCEPT ![p].pc = "count", ![p].count =
                            UpdatedCounter(creds[Min(ByKey(w.key))].count, w.count)]
          \/ ~valid /\ Closes(p)
       /\ UNCHANGED <<accounts, sessions>>

\* GetByCredentialID finds the row that was validated, of which nothing but
\* the count changes.  The error of saving it is dropped.
SaveCount(p) ==
    /\ At(p, "count")
    /\ LET i == Min(ByKey(proc[p].key)) IN
       /\ creds' = [creds EXCEPT ![i].count = proc[p].count] \/ UNCHANGED creds
       /\ proc' = [proc EXCEPT ![p].pc = "session", ![p].cred = i,
                               ![p].key = 0, ![p].count = 0]
    /\ UNCHANGED <<users, orgs, sessions>>

\* With the organizations, as in Tokens.
StoreLogin(p) ==
    /\ At(p, "session")
    /\ logins' = IF proc[p].ceremony = 0 THEN logins
                 ELSE Append(logins, LoginSession(proc[p].user, proc[p].ceremony, proc[p].cred))
    /\ Closes(p)
    /\ UNCHANGED <<accounts, ceremonies>>

-----------------------------------------------------------------------------
\* Login with the password that goes with the username.
PasswordLogin(p, u) ==
    /\ At(p, "idle")
    /\ u \in LiveUsers /\ users[u].name # NoName
    /\ Starts(p, Work("session", 0, u, 0, 0))
    /\ UNCHANGED <<accounts, sessions>>

-----------------------------------------------------------------------------
\* A statement fails, or the client hangs up: the ceremony is over.
Refused(p) ==
    /\ ~At(p, "idle") /\ ~At(p, "drop")
    /\ Closes(p)
    /\ UNCHANGED <<accounts, sessions>>

\* The server stops, or Redis cannot be reached.
Stopped(p) ==
    /\ ~At(p, "idle")
    /\ Ends(p)
    /\ ceremonies' = [c \in DOMAIN ceremonies |-> [ceremonies[c] EXCEPT !.spoilt =
                         @ \/ (c = proc[p].ceremony /\ ceremonies[c].kind = "login")]]
    /\ UNCHANGED <<accounts, logins>>

-----------------------------------------------------------------------------
Registration(p) ==
    \/ \E u \in 1 .. Len(users) + 1 : BeginRegistration(p, u)
    \/ RegistrationChallenge(p)

RegistrationEnd(p) ==
    \/ \E c \in DOMAIN ceremonies, k \in Keys : FinishRegistration(p, c, k)
    \/ RegistrationVerify(p) \/ CreateCredential(p)

LoginStart(p) ==
    \/ \E u \in LiveUsers : BeginLogin(p, u)
    \/ BeginDiscoverableLogin(p) \/ LoginOffer(p)

LoginEnd(p) ==
    \/ \E c \in DOMAIN ceremonies, i \in DOMAIN creds, n \in 0 .. MaxCount, h \in BOOLEAN :
          FinishLogin(p, c, i, n, h)
    \/ LoginValidate(p) \/ SaveCount(p) \/ StoreLogin(p)

LoginStep(p) ==
    \/ Registration(p) \/ RegistrationEnd(p) \/ LoginStart(p) \/ LoginEnd(p)
    \/ \E u \in LiveUsers : PasswordLogin(p, u)
    \/ DeleteCeremony(p) \/ Refused(p) \/ Stopped(p)
=============================================================================
