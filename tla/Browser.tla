------------------------------ MODULE Browser ------------------------------
(***************************************************************************)
(* The platform's pages in one browser tab (frontend/app: api/client.ts    *)
(* and stores/auth.ts) together with the token endpoints of Tokens.        *)
(*                                                                         *)
(* A process c of Procs is one API call of the page; the goroutine         *)
(* proc[c] of Tokens serves the token request the call may make on its     *)
(* way.  JavaScript runs each callback to its end, so an action is the     *)
(* handling of one response.  now counts what it counts in Tokens.         *)
(***************************************************************************)
EXTENDS Tokens

VARIABLES
    storage,     \* localStorage: the access and the refresh token, 0 for none
    signedIn,    \* isAuthenticated of the store: it shows the pages of a user
    refreshing,  \* isRefreshing of client.ts
    calls,       \* what each call waits for, and the token it was sent with
    post,        \* the refresh token on its way to the server, 0 for none
    twice        \* history: the logins whose session two calls exchanged at once

page == <<storage, signedIn, refreshing, calls, post, twice>>
server == <<bonds, joined, sessions, tokens, now, proc>>
others == <<bonds, joined, sessions, tokens, now>>

(***************************************************************************)
(* A call is "idle"; "login": it exchanges a login session; "sent";        *)
(* "driving": it got a 401 and refreshes the token; "queued": it got a 401 *)
(* and waits for the call that does; "resent".                             *)
(***************************************************************************)
Call(state, t) == [state |-> state, token |-> t]
Nothing == Call("idle", 0)
In(c, state) == calls[c].state = state
Moves(c, call) == calls' = [calls EXCEPT ![c] = call]

Stored(access, refresh) == [access |-> access, refresh |-> refresh]

BrowserInit ==
    /\ Init
    /\ bonds = Orgs \X Users
    /\ storage = Stored(0, 0)
    /\ signedIn = FALSE
    /\ refreshing = FALSE
    /\ calls = [c \in Procs |-> Nothing]
    /\ post = [c \in Procs |-> 0]
    /\ twice = {}

\* Bound: a call is made only if there is room for the token it may need.
Needy == {c \in Procs : In(c, "login") \/ In(c, "sent") \/ In(c, "driving")}
RoomForCall == Len(tokens) + Cardinality(Needy) < MaxTokens

-----------------------------------------------------------------------------
\* The user logs in and chooses an organization; only the login pages do that.
\* The list of Callback.vue takes a second click while the first is under way.
LogIn(u) == ~signedIn /\ SignIn(u) /\ UNCHANGED page

UnderWay(l) == \E d \in Procs : In(d, "login") /\ ~At(d, "answer") /\ proc[d].login = l

ChooseOrg(c, l, o) ==
    /\ ~signedIn
    /\ In(c, "idle")
    /\ RoomForCall
    /\ Exchange(c, l, o)
    /\ Moves(c, Call("login", 0))
    /\ twice' = IF UnderWay(l) THEN twice \cup {l} ELSE twice
    /\ UNCHANGED <<storage, signedIn, refreshing, post>>

\* completeLoginWithToken stores what it gets, whatever else is under way.
LoginAnswered(c) ==
    /\ In(c, "login")
    /\ Answer(c)
    /\ storage' = IF proc[c].row = 0 THEN storage ELSE Stored(proc[c].row, proc[c].row)
    /\ signedIn' = (signedIn \/ proc[c].row # 0)
    /\ Moves(c, Nothing)
    /\ UNCHANGED <<refreshing, post, twice>>

\* The user's own logout: the calls under way go on, and a refresh among them
\* will store its tokens again; the server is told nothing.
LogOut ==
    /\ signedIn
    /\ signedIn' = FALSE
    /\ storage' = Stored(0, 0)
    /\ UNCHANGED <<server, refreshing, calls, post, twice>>

\* The request interceptor adds the token.
Send(c) ==
    /\ In(c, "idle")
    /\ signedIn
    /\ RoomForCall
    /\ Moves(c, Call("sent", storage.access))
    /\ UNCHANGED <<server, storage, signedIn, refreshing, post, twice>>

\* The Auth middleware verifies the token's signature and expiry, no more.
Accepted(t) == t # 0 /\ now < tokens[t].at + AccessTTL

Succeeds(c) ==
    /\ In(c, "sent") \/ In(c, "resent")
    /\ Accepted(calls[c].token)
    /\ Moves(c, Nothing)
    /\ UNCHANGED <<server, storage, signedIn, refreshing, post, twice>>

-----------------------------------------------------------------------------
(***************************************************************************)
(* The response interceptor: the first 401 of a call.                      *)
(***************************************************************************)
Unauthorized(c) == In(c, "sent") /\ ~Accepted(calls[c].token)

SignedOutMeanwhile(c) ==
    /\ Unauthorized(c)
    /\ storage.refresh = 0
    /\ Moves(c, Nothing)
    /\ UNCHANGED <<server, storage, signedIn, refreshing, post, twice>>

Queue(c) ==
    /\ Unauthorized(c)
    /\ storage.refresh # 0
    /\ refreshing
    /\ Moves(c, Call("queued", 0))
    /\ UNCHANGED <<server, storage, signedIn, refreshing, post, twice>>

\* Mutant: the flag is not set.
BusyNot == FALSE

Busy == TRUE

Drive(c) ==
    /\ Unauthorized(c)
    /\ storage.refresh # 0
    /\ ~refreshing
    /\ refreshing' = Busy
    /\ post' = [post EXCEPT ![c] = storage.refresh]
    /\ Moves(c, Call("driving", storage.refresh))
    /\ UNCHANGED <<server, storage, signedIn, twice>>

\* A second 401 is the call's answer.
GivesUp(c) ==
    /\ In(c, "resent")
    /\ ~Accepted(calls[c].token)
    /\ Moves(c, Nothing)
    /\ UNCHANGED <<server, storage, signedIn, refreshing, post, twice>>

-----------------------------------------------------------------------------
(***************************************************************************)
(* The refresh: the request arrives, is served as in Tokens or refused,    *)
(* and its answer arrives; or one of the two is lost.                      *)
(***************************************************************************)
Arrives(c) ==
    /\ post[c] # 0
    /\ RefreshLoad(c, post[c])
    /\ post' = [post EXCEPT ![c] = 0]
    /\ UNCHANGED <<storage, signedIn, refreshing, calls, twice>>

Refused(c) ==
    /\ post[c] # 0
    /\ At(c, "idle")
    /\ ~Found(post[c]) \/ now > tokens[post[c]].at + RefreshTTL
    /\ Becomes(c, Answered(0))
    /\ post' = [post EXCEPT ![c] = 0]
    /\ UNCHANGED <<others, storage, signedIn, refreshing, calls, twice>>

\* Mutant: those that queued are forgotten when the refresh fails.
ResumeDriver(c, t) ==
    calls' = [d \in Procs |->
        IF d = c \/ (In(d, "queued") /\ t # 0)
        THEN (IF t = 0 THEN Nothing ELSE Call("resent", t)) ELSE calls[d]]

\* All that waited go on: with token t, or (0) with the error.
Resume(c, t) ==
    calls' = [d \in Procs |->
        IF d = c \/ In(d, "queued")
        THEN (IF t = 0 THEN Nothing ELSE Call("resent", t)) ELSE calls[d]]

\* Mutant: the new refresh token is not kept.
KeptAccess(t) == Stored(t, storage.refresh)

Kept(t) == Stored(t, t)

RefreshAnswered(c) ==
    /\ In(c, "driving")
    /\ proc[c].row # 0
    /\ Answer(c)
    /\ storage' = Kept(proc[c].row)
    /\ refreshing' = FALSE
    /\ Resume(c, proc[c].row)
    /\ UNCHANGED <<signedIn, post, twice>>

\* clearAndRedirect; the store forgets the user on the event.
SignOut(c) ==
    /\ storage' = Stored(0, 0)
    /\ signedIn' = FALSE
    /\ refreshing' = FALSE
    /\ Resume(c, 0)
    /\ UNCHANGED twice

RefreshFailed(c) ==
    /\ In(c, "driving")
    /\ proc[c].row = 0
    /\ Answer(c)
    /\ SignOut(c)
    /\ UNCHANGED post

\* The loss of a refusal is RefreshFailed too.
AnswerLost(c) ==
    /\ May("lost")
    /\ In(c, "driving")
    /\ proc[c].row # 0
    /\ Answer(c)
    /\ SignOut(c)
    /\ UNCHANGED post

RequestLost(c) ==
    /\ May("lost")
    /\ post[c] # 0
    /\ post' = [post EXCEPT ![c] = 0]
    /\ SignOut(c)
    /\ UNCHANGED server

-----------------------------------------------------------------------------
Page(c) ==
    \/ LoginAnswered(c) \/ Succeeds(c) \/ SignedOutMeanwhile(c) \/ Queue(c)
    \/ Drive(c) \/ GivesUp(c) \/ RefreshAnswered(c) \/ RefreshFailed(c)

Server(c) == Arrives(c) \/ Refused(c) \/ (Continue(c) /\ UNCHANGED page)

BrowserNext ==
    \/ \E u \in Users : LogIn(u)
    \/ \E c \in Procs :
          \/ \E l \in DOMAIN sessions, o \in Orgs : ChooseOrg(c, l, o)
          \/ Send(c) \/ Page(c) \/ Server(c) \/ AnswerLost(c) \/ RequestLost(c)
    \/ LogOut
    \/ Tick /\ UNCHANGED page

allVars == <<server, page>>

\* The browser handles the responses it gets and the server the requests.
BrowserSpec ==
    /\ BrowserInit /\ [][BrowserNext]_allVars
    /\ \A c \in Procs : WF_allVars(Page(c)) /\ WF_allVars(Server(c))
=============================================================================
