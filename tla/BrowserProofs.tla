---------------------------- MODULE BrowserProofs ----------------------------
(***************************************************************************)
(* Proofs about a page and the token endpoints together, for any number of *)
(* calls, users, logins and tokens, whatever the network loses and however *)
(* logins, logouts and refreshes overlap.                                  *)
(*                                                                         *)
(* What makes OneLiveGrant inductive is that the page has one refresh      *)
(* under way at most and that exchanges under way are of different login   *)
(* sessions (Apart), so that the server's goroutine for a call knows which *)
(* tokens of its login are left (LoggingIn, Driving), and that a login     *)
(* session that is still there has brought no token yet, but for the       *)
(* exchange that is about to delete it (Once).                             *)
(***************************************************************************)
EXTENDS BrowserInvariants, TLAPS

Works == {"rotate", "role", "store", "drop"}

Worker == [pc : Works, login : Nat, user : Users, org : Orgs,
           role : {"provider", "tenant"}, row : Nat]
          \cup [pc : {"idle", "answer"}, row : Nat]

States == {"idle", "login", "sent", "driving", "queued", "resent"}
Serving == {"login", "driving"}

SessionRow == [user : Users, orgs : SUBSET Orgs, at : Nat, live : BOOLEAN]

Types ==
    /\ now \in Nat
    /\ sessions \in Seq(SessionRow)
    /\ tokens \in Seq(TokenRow)
    /\ storage \in [access : Nat, refresh : Nat]
    /\ proc \in [Procs -> Worker]
    /\ calls \in [Procs -> [state : States, token : Nat]]
    /\ post \in [Procs -> Nat]

\* In the definitions below T, S, P and W stand for tokens, sessions, proc and
\* twice, n for now; k is a call, w the goroutine that serves it, sent what it
\* has on its way and r the refresh token that it presents.
Live(T, t) == t \in DOMAIN T /\ ~T[t].revoked
Expired(T, t, n) == n > T[t].at + RefreshTTL

LoggingIn(w, T, S, W) ==
    /\ w.pc \in {"role", "store", "drop", "answer"}
    /\ w.pc \in {"role", "store"} =>
          /\ w.row = 0 /\ w.login \in DOMAIN S
          /\ w.login \in W \/ \A t \in DOMAIN T : T[t].login # w.login
    /\ w.pc = "drop" => w.login \in DOMAIN S
    /\ w.pc \in {"drop", "answer"} => w.row = 0 \/ Live(T, w.row)

Driving(w, sent, r, T, W, n) ==
    /\ w.pc \in {"idle", "rotate", "role", "store", "answer"}
    /\ r \in DOMAIN T
    /\ sent # 0 <=> w.pc = "idle"
    /\ sent # 0 => sent = r /\ Live(T, r)
    /\ w.pc = "rotate" => w.row = r /\ Live(T, r) /\ w.login = T[r].login
    /\ w.pc \in {"role", "store"} =>
          /\ w.row = r /\ w.login = T[r].login
          /\ w.login \in W \/ \A t \in DOMAIN T : T[t].login = w.login => T[t].revoked
    /\ w.pc = "answer" => \/ Live(T, w.row)
                          \/ w.row = 0 /\ (May("failed") \/ Expired(T, r, n))

CallOK(k, w, sent, T, S, W, n) ==
    /\ k.state = "login" => sent = 0 /\ LoggingIn(w, T, S, W)
    /\ k.state = "driving" => Driving(w, sent, k.token, T, W, n)
    /\ k.state \notin Serving => sent = 0 /\ w.pc = "idle"

ServedOK ==
    \A c \in Procs : CallOK(calls[c], proc[c], post[c], tokens, sessions, twice, now)

Exchanging(k, w) == k.state = "login" /\ w.pc \in {"role", "store", "drop"}
Issued(w) == w.pc \in {"drop", "answer"} /\ w.row # 0

\* Calls that are served do not get in each other's way.
OneDriver ==
    /\ \A c, d \in Procs : calls[c].state = "driving" /\ calls[d].state = "driving" => c = d
    /\ \A c \in Procs : calls[c].state = "driving" => refreshing

OwnSessions ==
    \A c, d \in Procs :
       /\ c # d /\ Exchanging(calls[c], proc[c]) /\ Exchanging(calls[d], proc[d])
       /\ proc[c].login = proc[d].login
       => proc[c].login \in twice

OwnTokens ==
    /\ \A c, d \in Procs :
          c # d /\ Issued(proc[c]) /\ Issued(proc[d]) => proc[c].row # proc[d].row
    /\ \A c \in Procs : calls[c].state = "login" /\ Issued(proc[c]) =>
          /\ proc[c].row # storage.refresh
          /\ \A d \in Procs : calls[d].state = "driving" => calls[d].token # proc[c].row

Apart == OneDriver /\ OwnSessions /\ OwnTokens

StorageOK ==
    /\ storage.access = storage.refresh
    /\ storage.refresh = 0 \/ storage.refresh \in DOMAIN tokens
    /\ (\A c \in Procs : calls[c].state # "driving") =>
          storage.refresh = 0 \/ Live(tokens, storage.refresh)

Once(T, S, P, W) ==
    /\ \A t \in DOMAIN T :
          /\ T[t].login \in DOMAIN S
          /\ S[T[t].login].live =>
                \E c \in Procs : P[c].pc = "drop" /\ P[c].login = T[t].login
    /\ \A s, t \in DOMAIN T :
          /\ T[s].login = T[t].login /\ T[s].login \notin W
          /\ ~T[s].revoked /\ ~T[t].revoked
          => s = t

BInv == Types /\ Apart /\ StorageOK /\ ServedOK /\ Once(tokens, sessions, proc, twice)

-----------------------------------------------------------------------------
(***************************************************************************)
(* Types.                                                                  *)
(***************************************************************************)
LEMMA WorkFields ==
    ASSUME NEW label, NEW l, NEW u, NEW o, NEW role, NEW t
    PROVE  /\ Work(label, l, u, o, role, t).pc = label
           /\ Work(label, l, u, o, role, t).login = l
           /\ Work(label, l, u, o, role, t).user = u
           /\ Work(label, l, u, o, role, t).org = o
           /\ Work(label, l, u, o, role, t).role = role
           /\ Work(label, l, u, o, role, t).row = t
BY DEF Work

LEMMA WorkIsWorker ==
    ASSUME NEW label \in Works, NEW l \in Nat, NEW u \in Users, NEW o \in Orgs,
           NEW role \in {"provider", "tenant"}, NEW t \in Nat
    PROVE  Work(label, l, u, o, role, t) \in Worker
BY DEF Work, Worker

LEMMA AnswerIsWorker ==
    ASSUME NEW t \in Nat
    PROVE  /\ Answered(t) \in Worker /\ Answered(t).pc = "answer" /\ Answered(t).row = t
           /\ Idle \in Worker /\ Idle.pc = "idle"
BY DEF Answered, Idle, Worker

LEMMA WorkerTypes ==
    ASSUME Types, NEW c \in Procs
    PROVE  /\ proc[c] \in Worker
           /\ proc[c].row \in Nat
           /\ proc[c].pc \in Works \cup {"idle", "answer"}
           /\ proc[c].pc \in Works =>
                 /\ proc[c].login \in Nat /\ proc[c].user \in Users
                 /\ proc[c].org \in Orgs /\ proc[c].role \in {"provider", "tenant"}
<1>1. proc[c] \in Worker
  BY DEF Types
<1> QED
  BY <1>1 DEF Worker, Works

LEMMA CallTypes ==
    ASSUME Types, NEW c \in Procs
    PROVE  calls[c].state \in States /\ calls[c].token \in Nat /\ post[c] \in Nat
BY DEF Types

LEMMA TokenTypes ==
    ASSUME Types, NEW t \in DOMAIN tokens
    PROVE  /\ t \in Nat /\ t # 0
           /\ tokens[t] \in TokenRow
           /\ tokens[t].login \in Nat /\ tokens[t].user \in Users
           /\ tokens[t].org \in Orgs /\ tokens[t].at \in Nat
<1>1. t \in Nat /\ t # 0 /\ tokens[t] \in TokenRow
  BY DEF Types
<1> QED
  BY <1>1 DEF TokenRow

-----------------------------------------------------------------------------
(***************************************************************************)
(* A step of the server for one of the calls that are served.              *)
(***************************************************************************)
\* What is known of a call whose goroutine is at work.
LEMMA Served ==
    ASSUME BInv, NEW c \in Procs, proc[c].pc # "idle"
    PROVE  /\ post[c] = 0
           /\ \/ calls[c].state = "login" /\ LoggingIn(proc[c], tokens, sessions, twice)
              \/ /\ calls[c].state = "driving"
                 /\ Driving(proc[c], 0, calls[c].token, tokens, twice, now)
<1>1. CallOK(calls[c], proc[c], post[c], tokens, sessions, twice, now)
  BY DEF BInv, ServedOK
<1>2. CASE calls[c].state = "login"
  BY <1>1, <1>2 DEF CallOK
<1>3. CASE calls[c].state = "driving"
  <2>1. Driving(proc[c], post[c], calls[c].token, tokens, twice, now)
    BY <1>1, <1>3 DEF CallOK
  <2>2. post[c] = 0
    BY <2>1 DEF Driving
  <2> QED
    BY <1>3, <2>1, <2>2
<1>4. CASE calls[c].state \notin Serving
  BY <1>1, <1>4 DEF CallOK
<1> QED
  BY <1>2, <1>3, <1>4 DEF Serving

\* Only an exchange drops a session, and what has been issued is a token.
LEMMA WhoDrops ==
    ASSUME BInv, NEW c \in Procs
    PROVE  /\ proc[c].pc = "drop" => Exchanging(calls[c], proc[c])
           /\ Issued(proc[c]) => Live(tokens, proc[c].row)
           /\ calls[c].state = "driving" => calls[c].token \in DOMAIN tokens
<1>1. CallOK(calls[c], proc[c], post[c], tokens, sessions, twice, now)
  BY DEF BInv, ServedOK
<1>2. calls[c].state = "driving" => calls[c].token \in DOMAIN tokens
  BY <1>1 DEF CallOK, Driving
<1>3. proc[c].pc = "drop" => Exchanging(calls[c], proc[c])
  BY Served DEF Exchanging, Driving
<1>4. ASSUME Issued(proc[c])
      PROVE  Live(tokens, proc[c].row)
  BY <1>4, Served DEF Issued, LoggingIn, Driving
<1> QED
  BY <1>2, <1>3, <1>4

LEMMA ServerStep ==
    ASSUME BInv, NEW c \in Procs,
           UNCHANGED <<storage, refreshing, calls, now, twice>>,
           NEW w \in Worker, Becomes(c, w),
           post' \in [Procs -> Nat], \A d \in Procs : d # c => post'[d] = post[d],
           sessions' \in Seq(SessionRow), tokens' \in Seq(TokenRow),
           DOMAIN tokens \subseteq DOMAIN tokens',
           \A d \in Procs : d # c =>
              CallOK(calls[d], proc[d], post[d], tokens', sessions', twice, now),
           CallOK(calls[c], w, post'[c], tokens', sessions', twice, now),
           \/ \E d \in Procs : calls[d].state = "driving"
           \/ storage.refresh = 0 \/ Live(tokens', storage.refresh),
           Exchanging(calls[c], w) => /\ Exchanging(calls[c], proc[c])
                                      /\ w.login = proc[c].login,
           Issued(w) => \/ Issued(proc[c]) /\ w.row = proc[c].row
                        \/ w.row \notin DOMAIN tokens,
           Once(tokens', sessions', proc', twice)
    PROVE  BInv'
<1>1. /\ proc'[c] = w /\ proc' \in [Procs -> Worker]
      /\ \A d \in Procs : d # c => proc'[d] = proc[d]
  BY DEF BInv, Types, Becomes
<1>2. Types'
  BY <1>1 DEF BInv, Types
<1>3. OneDriver'
  BY DEF BInv, Apart, OneDriver
<1>4. OwnSessions'
  BY <1>1 DEF BInv, Apart, OwnSessions
<1>5. OwnTokens'
  <2>1. \A d \in Procs : Issued(proc[d]) => proc[d].row \in DOMAIN tokens
    BY WhoDrops DEF Live
  <2>2. /\ Issued(w) => w.row # 0
        /\ \A d \in Procs : calls[d].state = "driving" => calls[d].token \in DOMAIN tokens
        /\ storage.refresh = 0 \/ storage.refresh \in DOMAIN tokens
    BY WhoDrops DEF BInv, StorageOK, Issued
  <2>3. OwnTokens
    BY DEF BInv, Apart
  <2>4. ASSUME NEW a \in Procs, NEW d \in Procs, a # d, Issued(proc'[a]), Issued(proc'[d])
        PROVE  proc'[a].row # proc'[d].row
    BY <1>1, <2>1, <2>3, <2>4 DEF OwnTokens
  <2>5. ASSUME NEW a \in Procs, calls[a].state = "login", Issued(proc'[a])
        PROVE  /\ proc'[a].row # storage.refresh
               /\ \A d \in Procs : calls[d].state = "driving" => calls[d].token # proc'[a].row
    BY <1>1, <2>1, <2>2, <2>3, <2>5 DEF OwnTokens
  <2> QED
    BY <2>4, <2>5 DEF OwnTokens
<1>6. StorageOK'
  BY DEF BInv, StorageOK
<1>7. ServedOK'
  BY <1>1 DEF ServedOK
<1> QED
  BY <1>2, <1>3, <1>4, <1>5, <1>6, <1>7 DEF BInv, Apart

\* A step of a goroutine at work has nothing on its way, before or after; and
\* what the tokens and sessions are to the others is a matter of the step.
LEMMA ServerKeeps ==
    ASSUME BInv, NEW c \in Procs, proc[c].pc # "idle", UNCHANGED now, UNCHANGED page,
           NEW w \in Worker, Becomes(c, w),
           sessions' \in Seq(SessionRow), tokens' \in Seq(TokenRow),
           DOMAIN tokens \subseteq DOMAIN tokens',
           \A d \in Procs : d # c =>
              CallOK(calls[d], proc[d], post[d], tokens', sessions', twice, now),
           calls[c].state = "login" => LoggingIn(w, tokens', sessions', twice),
           calls[c].state = "driving" =>
              Driving(w, 0, calls[c].token, tokens', twice, now),
           \/ \E d \in Procs : calls[d].state = "driving"
           \/ storage.refresh = 0 \/ Live(tokens', storage.refresh),
           Exchanging(calls[c], w) => /\ Exchanging(calls[c], proc[c])
                                      /\ w.login = proc[c].login,
           Issued(w) => \/ Issued(proc[c]) /\ w.row = proc[c].row
                        \/ w.row \notin DOMAIN tokens,
           Once(tokens', sessions', proc', twice)
    PROVE  BInv'
<1>1. /\ post[c] = 0 /\ calls[c].state \in Serving
      /\ UNCHANGED <<storage, refreshing, calls, now, twice, post>>
  BY Served DEF page, Serving
<1>2. post' \in [Procs -> Nat] /\ \A d \in Procs : post'[d] = post[d]
  BY <1>1 DEF BInv, Types
<1>3. CallOK(calls[c], w, post'[c], tokens', sessions', twice, now)
  BY <1>1, <1>2 DEF CallOK, Serving
<1> QED
  BY <1>1, <1>2, <1>3, ServerStep

\* Somebody drives, or the token in localStorage is alive.
LEMMA StoredLives ==
    ASSUME BInv
    PROVE  \/ \E d \in Procs : calls[d].state = "driving"
           \/ storage.refresh = 0 \/ Live(tokens, storage.refresh)
BY DEF BInv, StorageOK

\* Nothing changes for the others if tokens and sessions stay.
LEMMA OthersStay ==
    ASSUME BInv, UNCHANGED <<tokens, sessions>>
    PROVE  /\ \A d \in Procs : CallOK(calls[d], proc[d], post[d], tokens', sessions', twice, now)
           /\ sessions' \in Seq(SessionRow) /\ tokens' \in Seq(TokenRow)
           /\ DOMAIN tokens \subseteq DOMAIN tokens'
BY DEF BInv, ServedOK, Types

\* Once stays, unless a goroutine has been about to delete a session.
LEMMA OnceStays ==
    ASSUME BInv, NEW c \in Procs, proc[c].pc # "drop",
           \A d \in Procs : d # c => proc'[d] = proc[d]
    PROVE  Once(tokens, sessions, proc', twice)
<1>1. ASSUME NEW t \in DOMAIN tokens, sessions[tokens[t].login].live
      PROVE  \E d \in Procs : proc'[d].pc = "drop" /\ proc'[d].login = tokens[t].login
  <2>1. PICK d \in Procs : proc[d].pc = "drop" /\ proc[d].login = tokens[t].login
    BY <1>1 DEF BInv, Once
  <2>2. proc'[d] = proc[d]
    BY <2>1
  <2> QED
    BY <2>1, <2>2
<1>2. Once(tokens, sessions, proc, twice)
  BY DEF BInv
<1> QED
  BY <1>1, <1>2 DEF Once

LEMMA Becoming ==
    ASSUME BInv, NEW c \in Procs, NEW w, Becomes(c, w)
    PROVE  proc'[c] = w /\ \A d \in Procs : d # c => proc'[d] = proc[d]
BY DEF BInv, Types, Becomes

LEMMA RotateKeeps ==
    ASSUME BInv, NEW c \in Procs, RefreshRotate(c), UNCHANGED page, "dropped" \notin Faults
    PROVE  BInv'
<1> DEFINE r == calls[c].token
           w == Work("role", proc[c].login, proc[c].user, proc[c].org, proc[c].role,
                     proc[c].row)
<1>1. /\ proc[c].pc = "rotate" /\ Becomes(c, w) /\ Revoke(proc[c].row)
      /\ UNCHANGED sessions /\ UNCHANGED now
  BY DEF RefreshRotate, At, GoTo, May
<1>2. /\ calls[c].state = "driving"
      /\ proc[c].row = r /\ Live(tokens, r) /\ proc[c].login = tokens[r].login
  BY <1>1, Served DEF LoggingIn, Driving
<1>3. /\ w \in Worker /\ w.pc = "role" /\ w.row = r /\ w.login = tokens[r].login
  BY <1>1, <1>2, WorkerTypes, WorkFields, WorkIsWorker DEF BInv, Works
<1> HIDE DEF w
<1>4. RevokedRow(tokens[r]) \in TokenRow
  <2>1. tokens[r] \in TokenRow
    BY <1>2 DEF BInv, Types, Live
  <2> HIDE DEF r
  <2> QED
    BY <2>1 DEF RevokedRow, TokenRow
<1>5. /\ RevokedRow(tokens[r]).login = tokens[r].login /\ RevokedRow(tokens[r]).revoked
      /\ RevokedRow(tokens[r]).at = tokens[r].at
  BY DEF RevokedRow
<1>6. /\ tokens' \in Seq(TokenRow) /\ DOMAIN tokens' = DOMAIN tokens
      /\ \A t \in DOMAIN tokens : /\ tokens'[t].login = tokens[t].login
                                  /\ tokens[t].revoked => tokens'[t].revoked
                                  /\ t # r => tokens'[t] = tokens[t]
      /\ tokens'[r].revoked
  BY <1>1, <1>2, <1>4, <1>5 DEF BInv, Types, Revoke, Live
<1>7. \/ tokens[r].login \in twice
      \/ \A t \in DOMAIN tokens : tokens[t].login = tokens[r].login => tokens'[t].revoked
  BY <1>2, <1>6 DEF BInv, Once, Live
<1>8. ASSUME NEW d \in Procs, d # c
      PROVE  CallOK(calls[d], proc[d], post[d], tokens', sessions', twice, now)
  <2>1. CallOK(calls[d], proc[d], post[d], tokens, sessions, twice, now)
    BY DEF BInv, ServedOK
  <2>2. calls[d].state # "driving"
    BY <1>2, <1>8 DEF BInv, Apart, OneDriver
  <2>3. calls[d].state = "login" /\ Issued(proc[d]) => proc[d].row # r
    BY <1>2 DEF BInv, Apart, OwnTokens
  <2> HIDE DEF r
  <2>4. ASSUME calls[d].state = "login", LoggingIn(proc[d], tokens, sessions, twice)
        PROVE  LoggingIn(proc[d], tokens', sessions, twice)
    BY <1>6, <2>3, <2>4 DEF LoggingIn, Live, Issued
  <2> QED
    BY <1>1, <2>1, <2>2, <2>4 DEF CallOK
<1> HIDE DEF r
<1>9. Driving(w, 0, r, tokens', twice, now)
  BY <1>2, <1>3, <1>6, <1>7 DEF Driving, Live
<1>10. Once(tokens', sessions', proc', twice)
  <2>1. Once(tokens, sessions, proc', twice)
    BY <1>1, Becoming, OnceStays
  <2> QED
    BY <1>1, <1>6, <2>1 DEF Once
<1> QED
  <2>1. /\ sessions' \in Seq(SessionRow) /\ proc[c].pc # "idle"
        /\ calls[c].state # "login" /\ ~Issued(w) /\ ~Exchanging(calls[c], w)
    BY <1>1, <1>2, <1>3 DEF BInv, Types, Issued, Exchanging
  <2> QED
    BY <1>1, <1>2, <1>3, <1>6, <1>8, <1>9, <1>10, <2>1, ServerKeeps DEF r

LEMMA ResolveKeeps ==
    ASSUME BInv, NEW c \in Procs, ResolveRole(c), UNCHANGED page
    PROVE  BInv'
<1>1. PICK role \in {"provider", "tenant"} :
         Becomes(c, Work("store", proc[c].login, proc[c].user, proc[c].org,
                         role, proc[c].row))
  BY DEF ResolveRole, RoleNow
<1> DEFINE w == Work("store", proc[c].login, proc[c].user, proc[c].org, role, proc[c].row)
<1>2. /\ proc[c].pc = "role" /\ Becomes(c, w)
      /\ UNCHANGED <<now, sessions, tokens>>
  BY <1>1 DEF ResolveRole, At
<1>3. w \in Worker /\ w.pc = "store" /\ w.row = proc[c].row /\ w.login = proc[c].login
  BY <1>2, WorkerTypes, WorkFields, WorkIsWorker DEF BInv, Works
<1> HIDE DEF w
<1>4. calls[c].state = "login" => LoggingIn(w, tokens, sessions, twice)
  BY <1>2, <1>3, Served DEF LoggingIn
<1>5. calls[c].state = "driving" => Driving(w, 0, calls[c].token, tokens, twice, now)
  BY <1>2, <1>3, Served DEF Driving
<1>6. Once(tokens', sessions', proc', twice)
  BY <1>2, Becoming, OnceStays
<1>7. /\ Exchanging(calls[c], w) => Exchanging(calls[c], proc[c])
      /\ ~Issued(w) /\ proc[c].pc # "idle"
  BY <1>2, <1>3 DEF Exchanging, Issued
<1> QED
  BY <1>2, <1>3, <1>4, <1>5, <1>6, <1>7, OthersStay, StoredLives, ServerKeeps

\* What becomes of a goroutine that has a token to answer with, or none.
LEMMA Finishes ==
    ASSUME BInv, NEW c \in Procs, At(c, "store"), NEW t \in Nat, Finish(c, t)
    PROVE  \E w \in Worker :
              /\ Becomes(c, w) /\ w.row = t
              /\ IF proc[c].row = 0 THEN w.pc = "drop" /\ w.login = proc[c].login
                                    ELSE w.pc = "answer"
<1>1. CASE proc[c].row = 0
  <2> DEFINE w == Work("drop", proc[c].login, proc[c].user, proc[c].org, proc[c].role, t)
  <2>1. Becomes(c, w)
    BY <1>1 DEF Finish
  <2>2. w \in Worker /\ w.row = t /\ w.pc = "drop" /\ w.login = proc[c].login
    BY WorkerTypes, WorkFields, WorkIsWorker DEF BInv, Works, At
  <2> HIDE DEF w
  <2> QED
    BY <1>1, <2>1, <2>2
<1>2. CASE proc[c].row # 0
  BY <1>2, AnswerIsWorker DEF Finish
<1> QED
  BY <1>1, <1>2

LEMMA StoreFailsKeeps ==
    ASSUME BInv, NEW c \in Procs, StoreFails(c), UNCHANGED page
    PROVE  BInv'
<1>1. /\ proc[c].pc = "store" /\ May("failed") /\ Finish(c, 0)
      /\ UNCHANGED <<now, sessions, tokens>>
  BY DEF StoreFails, At
<1>2. PICK w \in Worker :
         /\ Becomes(c, w) /\ w.row = 0
         /\ IF proc[c].row = 0 THEN w.pc = "drop" /\ w.login = proc[c].login
                               ELSE w.pc = "answer"
  BY <1>1, Finishes DEF At
<1>3. calls[c].state = "login" => LoggingIn(w, tokens, sessions, twice)
  BY <1>1, <1>2, Served DEF LoggingIn
<1>4. calls[c].state = "driving" => Driving(w, 0, calls[c].token, tokens, twice, now)
  <2> SUFFICES ASSUME calls[c].state = "driving"
               PROVE  Driving(w, 0, calls[c].token, tokens, twice, now)
    OBVIOUS
  <2>1. Driving(proc[c], 0, calls[c].token, tokens, twice, now)
    BY <1>1, Served
  <2>2. proc[c].row # 0
    BY <1>1, <2>1, TokenTypes DEF Driving, BInv
  <2> QED
    BY <1>1, <1>2, <2>1, <2>2 DEF Driving
<1>5. Once(tokens', sessions', proc', twice)
  BY <1>1, <1>2, Becoming, OnceStays
<1>6. /\ Exchanging(calls[c], w) => /\ Exchanging(calls[c], proc[c])
                                    /\ w.login = proc[c].login
      /\ ~Issued(w) /\ proc[c].pc # "idle"
  BY <1>1, <1>2 DEF Exchanging, Issued
<1> QED
  BY <1>1, <1>2, <1>3, <1>4, <1>5, <1>6, OthersStay, StoredLives, ServerKeeps

LEMMA StoreKeeps ==
    ASSUME BInv, NEW c \in Procs, StoreToken(c), UNCHANGED page
    PROVE  BInv'
<1> DEFINE n == Len(tokens) + 1
           new == NewToken(c)
<1>1. /\ proc[c].pc = "store" /\ Finish(c, n) /\ tokens' = Append(tokens, new)
      /\ UNCHANGED <<now, sessions>>
  BY DEF StoreToken, At
<1>2. tokens \in Seq(TokenRow) /\ sessions \in Seq(SessionRow) /\ now \in Nat
  BY DEF BInv, Types
<1>3. new \in TokenRow /\ new.login = proc[c].login /\ ~new.revoked
  BY <1>1, <1>2, WorkerTypes DEF BInv, Works, NewToken, TokenRow
<1> HIDE DEF new
<1>4. /\ n \in Nat /\ n # 0 /\ tokens' \in Seq(TokenRow)
      /\ n \notin DOMAIN tokens /\ DOMAIN tokens' = DOMAIN tokens \cup {n}
      /\ tokens'[n] = new /\ \A t \in DOMAIN tokens : tokens'[t] = tokens[t]
  BY <1>1, <1>2, <1>3
<1> HIDE DEF n
<1>5. PICK w \in Worker :
         /\ Becomes(c, w) /\ w.row = n
         /\ IF proc[c].row = 0 THEN w.pc = "drop" /\ w.login = proc[c].login
                               ELSE w.pc = "answer"
  BY <1>1, <1>4, Finishes DEF At
<1>6. Live(tokens', n) /\ \A t : Live(tokens, t) => Live(tokens', t)
  BY <1>3, <1>4 DEF Live
<1>7. /\ \/ /\ calls[c].state = "login" /\ proc[c].row = 0
            /\ new.login \in DOMAIN sessions
            /\ new.login \in twice \/ \A t \in DOMAIN tokens : tokens[t].login # new.login
         \/ /\ calls[c].state = "driving" /\ proc[c].row = calls[c].token
            /\ calls[c].token \in DOMAIN tokens
            /\ new.login = tokens[calls[c].token].login
            /\ \/ new.login \in twice
               \/ \A t \in DOMAIN tokens : tokens[t].login = new.login => tokens[t].revoked
  BY <1>1, <1>3, Served DEF LoggingIn, Driving
<1>8. calls[c].state = "login" => LoggingIn(w, tokens', sessions, twice)
  BY <1>5, <1>6, <1>3, <1>7 DEF LoggingIn
<1>9. calls[c].state = "driving" => Driving(w, 0, calls[c].token, tokens', twice, now)
  <2> SUFFICES ASSUME calls[c].state = "driving"
               PROVE  Driving(w, 0, calls[c].token, tokens', twice, now)
    OBVIOUS
  <2>1. calls[c].token \in DOMAIN tokens' /\ proc[c].row # 0
    BY <1>4, <1>7, TokenTypes DEF BInv
  <2> QED
    BY <1>5, <1>6, <2>1 DEF Driving
<1>10. ASSUME NEW d \in Procs, d # c
       PROVE  CallOK(calls[d], proc[d], post[d], tokens', sessions', twice, now)
  <2>1. CallOK(calls[d], proc[d], post[d], tokens, sessions, twice, now)
    BY DEF BInv, ServedOK
  <2>2. ASSUME calls[d].state = "login", LoggingIn(proc[d], tokens, sessions, twice)
        PROVE  LoggingIn(proc[d], tokens', sessions, twice)
    <3>1. ASSUME proc[d].pc \in {"role", "store"}, proc[d].login \notin twice
          PROVE  new.login # proc[d].login
      <4>1. calls[c].state = "login" => new.login # proc[d].login
        BY <1>1, <1>3, <1>10, <2>2, <3>1 DEF BInv, Apart, OwnSessions, Exchanging
      <4>2. calls[c].state = "driving" => new.login # proc[d].login
        BY <1>7, <2>2, <3>1 DEF LoggingIn
      <4> QED
        BY <1>7, <4>1, <4>2
    <3> QED
      BY <1>4, <1>6, <2>2, <3>1 DEF LoggingIn
  <2>3. ASSUME calls[d].state = "driving",
               Driving(proc[d], post[d], calls[d].token, tokens, twice, now)
        PROVE  Driving(proc[d], post[d], calls[d].token, tokens', twice, now)
    <3>1. calls[c].state = "login"
      BY <1>7, <1>10, <2>3 DEF BInv, Apart, OneDriver
    <3>2. /\ calls[d].token \in DOMAIN tokens /\ calls[d].token \in DOMAIN tokens'
          /\ tokens'[calls[d].token] = tokens[calls[d].token]
      BY <1>4, <2>3 DEF Driving
    <3>3. new.login \in twice \/ new.login # tokens[calls[d].token].login
      BY <1>7, <3>1, <3>2
    <3>4. ASSUME proc[d].pc \in {"role", "store"}, proc[d].login \notin twice,
                 NEW t \in DOMAIN tokens', tokens'[t].login = proc[d].login
          PROVE  tokens'[t].revoked
      BY <1>4, <2>3, <3>3, <3>4 DEF Driving
    <3>5. Expired(tokens, calls[d].token, now) => Expired(tokens', calls[d].token, now)
      BY <3>2 DEF Expired
    <3> QED
      BY <1>6, <2>3, <3>2, <3>4, <3>5 DEF Driving
  <2> QED
    BY <1>1, <2>1, <2>2, <2>3 DEF CallOK
<1>11. Once(tokens', sessions', proc', twice)
  <2>1. Once(tokens, sessions, proc', twice)
    BY <1>1, <1>5, Becoming, OnceStays
  <2>2. /\ new.login \in DOMAIN sessions
        /\ sessions[new.login].live =>
              \E d \in Procs : proc'[d].pc = "drop" /\ proc'[d].login = new.login
    <3>1. CASE calls[c].state = "login"
      <4>1. proc'[c] = w /\ w.pc = "drop" /\ w.login = new.login
        BY <1>3, <1>5, <1>7, <3>1, Becoming
      <4> QED
        BY <1>7, <3>1, <4>1
    <3>2. CASE calls[c].state = "driving"
      BY <1>7, <2>1, <3>2 DEF Once
    <3> QED
      BY <1>7, <3>1, <3>2
  <2>3. new.login \in twice \/
          \A t \in DOMAIN tokens : tokens[t].login = new.login => tokens[t].revoked
    BY <1>7
  <2> QED
    BY <1>1, <1>4, <2>1, <2>2, <2>3 DEF Once
<1> QED
  <2>1. /\ Exchanging(calls[c], w) => /\ Exchanging(calls[c], proc[c])
                                      /\ w.login = proc[c].login
        /\ w.row \notin DOMAIN tokens /\ proc[c].pc # "idle"
        /\ sessions' \in Seq(SessionRow) /\ DOMAIN tokens \subseteq DOMAIN tokens'
    BY <1>1, <1>2, <1>4, <1>5 DEF Exchanging
  <2>2. \/ \E d \in Procs : calls[d].state = "driving"
        \/ storage.refresh = 0 \/ Live(tokens', storage.refresh)
    BY <1>6, StoredLives
  <2> QED
    BY <1>1, <1>4, <1>5, <1>8, <1>9, <1>10, <1>11, <2>1, <2>2, ServerKeeps

LEMMA DropKeeps ==
    ASSUME BInv, NEW c \in Procs, DropSession(c), UNCHANGED page, "dropped" \notin Faults
    PROVE  BInv'
<1> DEFINE l == proc[c].login
           w == Answered(proc[c].row)
           gone == Deleted(sessions[l])
<1>1. /\ proc[c].pc = "drop" /\ Becomes(c, w)
      /\ sessions' = [sessions EXCEPT ![l] = gone]
      /\ UNCHANGED <<now, tokens>>
  BY DEF DropSession, At, May
<1>2. /\ calls[c].state = "login" /\ l \in DOMAIN sessions
      /\ proc[c].row = 0 \/ Live(tokens, proc[c].row)
  BY <1>1, Served DEF LoggingIn, Driving
<1>3. w \in Worker /\ w.pc = "answer" /\ w.row = proc[c].row
  BY WorkerTypes, AnswerIsWorker DEF BInv
<1>4. tokens \in Seq(TokenRow) /\ sessions \in Seq(SessionRow)
  BY DEF BInv, Types
<1>5. gone \in SessionRow /\ ~gone.live
  <2>1. sessions[l] \in SessionRow
    BY <1>2, <1>4
  <2> HIDE DEF l
  <2> QED
    BY <2>1 DEF Deleted, Session, SessionRow
<1> HIDE DEF gone, w
<1>6. /\ sessions' \in Seq(SessionRow) /\ DOMAIN sessions' = DOMAIN sessions
      /\ ~sessions'[l].live
      /\ \A k \in DOMAIN sessions : k # l => sessions'[k] = sessions[k]
  BY <1>1, <1>2, <1>4, <1>5
<1>7. LoggingIn(w, tokens, sessions', twice)
  BY <1>2, <1>3 DEF LoggingIn
<1>8. ASSUME NEW d \in Procs
      PROVE  CallOK(calls[d], proc[d], post[d], tokens', sessions', twice, now)
  <2>1. CallOK(calls[d], proc[d], post[d], tokens, sessions, twice, now)
    BY DEF BInv, ServedOK
  <2>2. LoggingIn(proc[d], tokens, sessions, twice) =>
           LoggingIn(proc[d], tokens, sessions', twice)
    BY <1>6 DEF LoggingIn
  <2> QED
    BY <1>1, <2>1, <2>2 DEF CallOK
<1>9. ASSUME NEW t \in DOMAIN tokens, sessions'[tokens[t].login].live
      PROVE  \E d \in Procs : proc'[d].pc = "drop" /\ proc'[d].login = tokens[t].login
  <2>1. tokens[t].login # l /\ tokens[t].login \in DOMAIN sessions
    BY <1>6, <1>9 DEF BInv, Once
  <2>2. sessions[tokens[t].login].live
    BY <1>6, <1>9, <2>1
  <2>3. PICK d \in Procs : proc[d].pc = "drop" /\ proc[d].login = tokens[t].login
    BY <2>2 DEF BInv, Once
  <2>4. proc'[d] = proc[d]
    BY <1>1, <2>1, <2>3, Becoming
  <2> QED
    BY <2>3, <2>4
<1>10. Once(tokens', sessions', proc', twice)
  BY <1>1, <1>6, <1>9 DEF BInv, Once
<1> QED
  <2>1. /\ ~Exchanging(calls[c], w) /\ proc[c].pc # "idle" /\ calls[c].state # "driving"
        /\ Issued(w) => Issued(proc[c])
    BY <1>1, <1>2, <1>3 DEF Exchanging, Issued
  <2> QED
    BY <1>1, <1>2, <1>3, <1>4, <1>6, <1>7, <1>8, <1>10, <2>1, StoredLives, ServerKeeps

LEMMA ContinueKeeps ==
    ASSUME BInv, NEW c \in Procs, Continue(c), UNCHANGED page, "dropped" \notin Faults
    PROVE  BInv'
<1>1. ~RevokeSave(c)
  BY WorkerTypes DEF RevokeSave, At, BInv, Works
<1> QED
  BY <1>1, RotateKeeps, ResolveKeeps, StoreKeeps, StoreFailsKeeps, DropKeeps DEF Continue

-----------------------------------------------------------------------------
(***************************************************************************)
(* The server takes a refresh, or refuses it.                              *)
(***************************************************************************)
-----------------------------------------------------------------------------
(***************************************************************************)
(* The server takes a refresh, or refuses it.                              *)
(***************************************************************************)
\* A refresh token on its way is one that its call presents, and it is alive.
LEMMA OnItsWay ==
    ASSUME BInv, NEW c \in Procs, post[c] # 0
    PROVE  /\ calls[c].state = "driving" /\ proc[c].pc = "idle"
           /\ post[c] = calls[c].token /\ Live(tokens, post[c])
<1>1. CallOK(calls[c], proc[c], post[c], tokens, sessions, twice, now)
  BY DEF BInv, ServedOK
<1>2. calls[c].state = "driving"
  BY <1>1 DEF CallOK, Serving
<1>3. Driving(proc[c], post[c], calls[c].token, tokens, twice, now)
  BY <1>1, <1>2 DEF CallOK
<1> QED
  BY <1>2, <1>3 DEF Driving

LEMMA TakenKeeps ==
    ASSUME BInv, NEW c \in Procs, post[c] # 0, post' = [post EXCEPT ![c] = 0],
           UNCHANGED <<storage, refreshing, calls, now, sessions, tokens, twice>>,
           NEW w \in Worker, Becomes(c, w), ~Issued(w),
           Driving(w, 0, calls[c].token, tokens, twice, now)
    PROVE  BInv'
<1>1. calls[c].state = "driving" /\ proc[c].pc = "idle"
  BY OnItsWay
<1>2. /\ post' \in [Procs -> Nat] /\ post'[c] = 0
      /\ \A d \in Procs : d # c => post'[d] = post[d]
  BY DEF BInv, Types
<1>3. CallOK(calls[c], w, post'[c], tokens', sessions', twice, now)
  BY <1>1, <1>2 DEF CallOK, Serving
<1>4. Once(tokens', sessions', proc', twice)
  BY <1>1, Becoming, OnceStays
<1>5. ~Exchanging(calls[c], w)
  BY <1>1 DEF Exchanging
<1> QED
  BY <1>1, <1>2, <1>3, <1>4, <1>5, OthersStay, StoredLives, ServerStep

LEMMA ArrivesKeeps ==
    ASSUME BInv, NEW c \in Procs, Arrives(c)
    PROVE  BInv'
<1> DEFINE t == post[c]
           w == Work("rotate", tokens[t].login, tokens[t].user, tokens[t].org, "tenant", t)
<1>1. /\ t # 0 /\ Becomes(c, w) /\ post' = [post EXCEPT ![c] = 0]
      /\ UNCHANGED <<storage, refreshing, calls, now, sessions, tokens, twice>>
  BY DEF Arrives, RefreshLoad
<1>2. t = calls[c].token /\ Live(tokens, t)
  BY <1>1, OnItsWay
<1>3. /\ t \in DOMAIN tokens /\ t \in Nat
      /\ tokens[t].login \in Nat /\ tokens[t].user \in Users /\ tokens[t].org \in Orgs
  BY <1>2, TokenTypes DEF BInv, Live
<1>4. /\ w \in Worker /\ w.pc = "rotate" /\ w.row = t /\ w.login = tokens[t].login
  BY <1>3, WorkFields, WorkIsWorker DEF Works
<1> HIDE DEF w
<1>5. Driving(w, 0, calls[c].token, tokens, twice, now) /\ ~Issued(w)
  BY <1>2, <1>3, <1>4 DEF Driving, Issued
<1> QED
  BY <1>1, <1>4, <1>5, TakenKeeps

LEMMA RefusedKeeps ==
    ASSUME BInv, NEW c \in Procs, Refused(c)
    PROVE  BInv'
<1> DEFINE t == post[c]
           w == Answered(0)
<1>1. /\ t # 0 /\ Becomes(c, w) /\ post' = [post EXCEPT ![c] = 0]
      /\ ~Found(t) \/ now > tokens[t].at + RefreshTTL
      /\ UNCHANGED <<storage, refreshing, calls, now, sessions, tokens, twice>>
  BY DEF Refused, others
<1>2. t = calls[c].token /\ Live(tokens, t)
  BY <1>1, OnItsWay
<1>3. Expired(tokens, calls[c].token, now) /\ calls[c].token \in DOMAIN tokens
  BY <1>1, <1>2 DEF Found, Live, Expired
<1>4. w \in Worker /\ w.pc = "answer" /\ w.row = 0
  BY AnswerIsWorker
<1> HIDE DEF w
<1>5. Driving(w, 0, calls[c].token, tokens, twice, now) /\ ~Issued(w)
  BY <1>3, <1>4 DEF Driving, Issued
<1> QED
  BY <1>1, <1>4, <1>5, TakenKeeps

-----------------------------------------------------------------------------
(***************************************************************************)
(* The page: a callback that has nothing to do with a refresh.             *)
(***************************************************************************)
LEMMA StorageTypes ==
    ASSUME BInv
    PROVE  /\ storage.access \in Nat /\ storage.refresh \in Nat
           /\ storage.access = storage.refresh
BY DEF BInv, Types, StorageOK

LEMMA PageStep ==
    ASSUME BInv, UNCHANGED <<server, storage, refreshing, post, twice>>,
           NEW c \in Procs, calls[c].state \notin Serving,
           NEW state \in States \ Serving, NEW t \in Nat, Moves(c, Call(state, t))
    PROVE  BInv'
<1>1. /\ calls' \in [Procs -> [state : States, token : Nat]]
      /\ calls'[c].state = state
      /\ \A d \in Procs : d # c => calls'[d] = calls[d]
  BY DEF BInv, Types, Moves, Call
<1>2. UNCHANGED <<sessions, tokens, now, proc, storage, refreshing, post, twice>>
  BY DEF server
<1>3. \A d \in Procs : \/ calls'[d] = calls[d]
                       \/ calls'[d].state \notin Serving /\ calls[d].state \notin Serving
  BY <1>1
<1>4. \A d \in Procs : calls'[d].state \in Serving => calls'[d] = calls[d]
  BY <1>3
<1>5. Types'
  BY <1>1, <1>2 DEF BInv, Types
<1>6. OneDriver'
  BY <1>2, <1>4 DEF BInv, Apart, OneDriver, Serving
<1>7. OwnSessions'
  BY <1>2, <1>4 DEF BInv, Apart, OwnSessions, Exchanging, Serving
<1>8. OwnTokens'
  BY <1>2, <1>4 DEF BInv, Apart, OwnTokens, Serving
<1>9. StorageOK'
  BY <1>2, <1>3 DEF BInv, StorageOK, Serving
<1>10. ServedOK'
  <2> SUFFICES ASSUME NEW d \in Procs
               PROVE  CallOK(calls'[d], proc[d], post[d], tokens, sessions, twice, now)
    BY <1>2 DEF ServedOK
  <2>1. CallOK(calls[d], proc[d], post[d], tokens, sessions, twice, now)
    BY DEF BInv, ServedOK
  <2>2. CASE calls'[d] = calls[d]
    BY <2>1, <2>2
  <2>3. CASE calls'[d].state \notin Serving /\ calls[d].state \notin Serving
    BY <2>1, <2>3 DEF CallOK, Serving
  <2> QED
    BY <1>3, <2>2, <2>3
<1>11. Once(tokens', sessions', proc', twice')
  BY <1>2 DEF BInv
<1> QED
  BY <1>5, <1>6, <1>7, <1>8, <1>9, <1>10, <1>11 DEF BInv, Apart

LEMMA SendKeeps ==
    ASSUME BInv, NEW c \in Procs, Send(c)
    PROVE  BInv'
<1>1. /\ calls[c].state = "idle"
      /\ UNCHANGED <<server, storage, refreshing, post, twice>>
      /\ Moves(c, Call("sent", storage.access))
  BY DEF Send, In
<1> QED
  BY <1>1, StorageTypes, PageStep DEF Serving, States

LEMMA RestsKeep ==
    ASSUME BInv, NEW c \in Procs,
           Succeeds(c) \/ SignedOutMeanwhile(c) \/ Queue(c) \/ GivesUp(c)
    PROVE  BInv'
<1>1. PICK state \in {"idle", "queued"} : Moves(c, Call(state, 0))
  BY DEF Succeeds, SignedOutMeanwhile, Queue, GivesUp, Nothing
<1>2. /\ calls[c].state \in {"sent", "resent"}
      /\ UNCHANGED <<server, storage, refreshing, post, twice>>
  BY DEF Succeeds, SignedOutMeanwhile, Queue, GivesUp, In, Unauthorized
<1> QED
  BY <1>1, <1>2, PageStep DEF Serving, States

-----------------------------------------------------------------------------
(***************************************************************************)
(* The page: a refresh from its start to its end.                          *)
(***************************************************************************)
LEMMA DriveKeeps ==
    ASSUME BInv, NEW c \in Procs, Drive(c)
    PROVE  BInv'
<1> DEFINE r == storage.refresh
<1>1. /\ calls[c].state = "sent" /\ r # 0 /\ ~refreshing /\ refreshing'
      /\ post' = [post EXCEPT ![c] = r] /\ Moves(c, Call("driving", r))
      /\ UNCHANGED <<sessions, tokens, now, proc, storage, twice>>
  BY DEF Drive, Unauthorized, In, Busy, server
<1>2. r \in Nat
  BY StorageTypes
<1>3. \A d \in Procs : calls[d].state # "driving"
  BY <1>1 DEF BInv, Apart, OneDriver
<1>4. Live(tokens, r)
  BY <1>1, <1>3 DEF BInv, StorageOK
<1>5. proc[c].pc = "idle"
  BY <1>1 DEF BInv, ServedOK, CallOK, Serving
<1> HIDE DEF r
<1>6. /\ calls' \in [Procs -> [state : States, token : Nat]]
      /\ calls'[c].state = "driving" /\ calls'[c].token = r
      /\ \A d \in Procs : d # c => calls'[d] = calls[d]
  BY <1>1, <1>2 DEF BInv, Types, Moves, Call, States
<1>7. /\ post' \in [Procs -> Nat] /\ post'[c] = r
      /\ \A d \in Procs : d # c => post'[d] = post[d]
  BY <1>1, <1>2 DEF BInv, Types
<1>8. Types'
  BY <1>1, <1>6, <1>7 DEF BInv, Types
<1>9. OneDriver'
  BY <1>1, <1>3, <1>6 DEF OneDriver
<1>10. OwnSessions'
  BY <1>1, <1>6 DEF BInv, Apart, OwnSessions, Exchanging
<1>11. OwnTokens'
  BY <1>1, <1>3, <1>6 DEF BInv, Apart, OwnTokens, r
<1>12. StorageOK'
  BY <1>1, <1>6 DEF BInv, StorageOK
<1>13. ServedOK'
  <2>1. Driving(proc[c], post'[c], r, tokens, twice, now)
    BY <1>1, <1>4, <1>5, <1>7 DEF Driving, Live
  <2>2. CallOK(calls'[c], proc[c], post'[c], tokens, sessions, twice, now)
    BY <1>6, <2>1 DEF CallOK, Serving
  <2>3. \A d \in Procs : CallOK(calls'[d], proc[d], post'[d], tokens, sessions, twice, now)
    BY <1>6, <1>7, <2>2 DEF BInv, ServedOK
  <2> QED
    BY <1>1, <2>3 DEF ServedOK
<1>14. Once(tokens', sessions', proc', twice')
  BY <1>1 DEF BInv
<1> QED
  BY <1>8, <1>9, <1>10, <1>11, <1>12, <1>13, <1>14 DEF BInv, Apart

\* All that waited for the refresh go on.
LEMMA Resumed ==
    ASSUME BInv, NEW c \in Procs, NEW t \in Nat, Resume(c, t)
    PROVE  /\ calls' \in [Procs -> [state : States, token : Nat]]
           /\ calls'[c].state \notin Serving
           /\ \A d \in Procs : \/ calls'[d] = calls[d]
                               \/ d = c /\ calls'[d].state \notin Serving
                               \/ /\ calls'[d].state \notin Serving
                                  /\ calls[d].state \notin Serving
<1>1. /\ Nothing \in [state : States, token : Nat] /\ Nothing.state \notin Serving
      /\ Call("resent", t) \in [state : States, token : Nat]
      /\ Call("resent", t).state \notin Serving
  BY DEF Nothing, Call, States, Serving
<1>2. ASSUME NEW d \in Procs
      PROVE  /\ calls'[d] \in [state : States, token : Nat]
             /\ d = c => calls'[d].state \notin Serving
             /\ \/ calls'[d] = calls[d]
                \/ calls'[d].state \notin Serving /\ (d = c \/ calls[d].state = "queued")
  <2>1. /\ calls'[d] \in {Nothing, Call("resent", t), calls[d]}
        /\ d = c => calls'[d] \in {Nothing, Call("resent", t)}
        /\ d = c \/ calls[d].state = "queued" \/ calls'[d] = calls[d]
    BY DEF Resume, In
  <2>2. calls[d] \in [state : States, token : Nat]
    BY DEF BInv, Types
  <2> QED
    BY <1>1, <2>1, <2>2
<1>3. calls' = [d \in Procs |-> calls'[d]]
  BY DEF Resume
<1>4. calls' \in [Procs -> [state : States, token : Nat]]
  BY <1>2, <1>3
<1> QED
  BY <1>2, <1>4 DEF Serving

\* A refresh is over: localStorage holds a token that no other call holds, or
\* none, and nobody drives any more.
LEMMA DriverRests ==
    ASSUME BInv, NEW c \in Procs, calls[c].state = "driving",
           UNCHANGED <<sessions, tokens, now, twice>>, NEW v \in Worker, v.pc = "idle",
           Becomes(c, v), post' = [post EXCEPT ![c] = 0],
           NEW t \in Nat, t = 0 \/ Live(tokens, t), storage' = Stored(t, t), Resume(c, t),
           \A d \in Procs : d # c /\ Issued(proc[d]) => proc[d].row # t
    PROVE  BInv'
<1>1. /\ calls' \in [Procs -> [state : States, token : Nat]]
      /\ calls'[c].state \notin Serving
      /\ \A d \in Procs : \/ calls'[d] = calls[d]
                          \/ d = c /\ calls'[d].state \notin Serving
                          \/ /\ calls'[d].state \notin Serving
                             /\ calls[d].state \notin Serving
  BY Resumed
<1>2. \A d \in Procs : calls'[d].state \in Serving => d # c /\ calls'[d] = calls[d]
  BY <1>1
<1>3. \A d \in Procs : calls'[d].state # "driving"
  BY <1>2 DEF BInv, Apart, OneDriver, Serving
<1>4. /\ proc'[c] = v /\ proc' \in [Procs -> Worker] /\ ~Issued(v)
      /\ \A d \in Procs : d # c => proc'[d] = proc[d]
  BY DEF BInv, Types, Becomes, Issued
<1>5. /\ post' \in [Procs -> Nat] /\ post'[c] = 0
      /\ \A d \in Procs : d # c => post'[d] = post[d]
  BY DEF BInv, Types
<1>6. storage'.access = t /\ storage'.refresh = t
      /\ storage' \in [access : Nat, refresh : Nat]
  BY DEF Stored
<1>7. Types'
  BY <1>1, <1>4, <1>5, <1>6 DEF BInv, Types
<1>8. OneDriver'
  BY <1>3 DEF OneDriver
<1>9. OwnSessions'
  BY <1>2, <1>4 DEF BInv, Apart, OwnSessions, Exchanging, Serving
<1>10. OwnTokens'
  BY <1>2, <1>3, <1>4, <1>6 DEF BInv, Apart, OwnTokens
<1>11. StorageOK'
  BY <1>6 DEF StorageOK, Live
<1>12. ServedOK'
  <2> SUFFICES ASSUME NEW d \in Procs
               PROVE  CallOK(calls'[d], proc'[d], post'[d], tokens, sessions, twice, now)
    BY DEF ServedOK
  <2>1. CASE d = c
    BY <1>1, <1>4, <1>5, <2>1 DEF CallOK, Serving
  <2>2. CASE d # c
    <3>1. CallOK(calls[d], proc'[d], post'[d], tokens, sessions, twice, now)
      BY <1>4, <1>5, <2>2 DEF BInv, ServedOK
    <3>2. CASE calls'[d] = calls[d]
      BY <3>1, <3>2
    <3>3. CASE calls'[d].state \notin Serving /\ calls[d].state \notin Serving
      BY <3>1, <3>3 DEF CallOK, Serving
    <3> QED
      BY <1>1, <2>2, <3>2, <3>3
  <2> QED
    BY <2>1, <2>2
<1>13. proc[c].pc # "drop"
  BY WhoDrops DEF Exchanging
<1>14. Once(tokens', sessions', proc', twice')
  BY <1>4, <1>13, OnceStays
<1> QED
  BY <1>7, <1>8, <1>9, <1>10, <1>11, <1>12, <1>14 DEF BInv, Apart

LEMMA RefreshAnswerKeeps ==
    ASSUME BInv, NEW c \in Procs, calls[c].state = "driving", Answer(c), UNCHANGED post,
           UNCHANGED twice, NEW t \in Nat, t = 0 \/ t = proc[c].row,
           storage' = Stored(t, t), Resume(c, t)
    PROVE  BInv'
<1>1. /\ proc[c].pc = "answer" /\ Becomes(c, Idle)
      /\ UNCHANGED <<sessions, tokens, now>>
  BY DEF Answer, At
<1>2. post' = [post EXCEPT ![c] = 0]
  BY <1>1, Served DEF BInv, Types
<1>3. /\ t = 0 \/ Live(tokens, t)
      /\ \A d \in Procs : d # c /\ Issued(proc[d]) => proc[d].row # t
  <2>1. CASE t = 0
    BY <2>1 DEF Issued
  <2>2. CASE t # 0
    <3>1. Issued(proc[c]) /\ t = proc[c].row
      BY <1>1, <2>2 DEF Issued
    <3> QED
      BY <3>1, WhoDrops DEF BInv, Apart, OwnTokens
  <2> QED
    BY <2>1, <2>2
<1>4. Idle \in Worker /\ Idle.pc = "idle"
  BY AnswerIsWorker
<1> HIDE DEF Idle
<1> QED
  BY <1>1, <1>2, <1>3, <1>4, DriverRests

LEMMA RefreshAnsweredKeeps ==
    ASSUME BInv, NEW c \in Procs, RefreshAnswered(c)
    PROVE  BInv'
<1>1. /\ calls[c].state = "driving" /\ Answer(c) /\ UNCHANGED <<post, twice>>
      /\ storage' = Stored(proc[c].row, proc[c].row) /\ Resume(c, proc[c].row)
  BY DEF RefreshAnswered, In, Kept
<1>2. proc[c].row \in Nat
  BY WorkerTypes DEF BInv
<1> QED
  BY <1>1, <1>2, RefreshAnswerKeeps

LEMMA SignOutKeeps ==
    ASSUME BInv, NEW c \in Procs, RefreshFailed(c) \/ AnswerLost(c)
    PROVE  BInv'
<1>1. /\ calls[c].state = "driving" /\ Answer(c) /\ UNCHANGED <<post, twice>>
      /\ storage' = Stored(0, 0) /\ Resume(c, 0)
  BY DEF RefreshFailed, AnswerLost, SignOut, In
<1> QED
  BY <1>1, RefreshAnswerKeeps

LEMMA RequestLostKeeps ==
    ASSUME BInv, NEW c \in Procs, RequestLost(c)
    PROVE  BInv'
<1>1. /\ post[c] # 0 /\ post' = [post EXCEPT ![c] = 0]
      /\ storage' = Stored(0, 0) /\ Resume(c, 0)
      /\ UNCHANGED <<sessions, tokens, now, proc, twice>>
  BY DEF RequestLost, SignOut, server
<1>2. calls[c].state = "driving" /\ proc[c].pc = "idle"
  BY <1>1, OnItsWay
<1>3. proc[c] \in Worker /\ Becomes(c, proc[c])
  BY <1>1 DEF BInv, Types, Becomes
<1>4. \A d \in Procs : Issued(proc[d]) => proc[d].row # 0
  BY DEF Issued
<1> QED
  BY <1>1, <1>2, <1>3, <1>4, DriverRests

-----------------------------------------------------------------------------
(***************************************************************************)
(* Logins, logouts, and time.                                              *)
(***************************************************************************)
LEMMA LoginAnsweredKeeps ==
    ASSUME BInv, NEW c \in Procs, LoginAnswered(c)
    PROVE  BInv'
<1> DEFINE t == IF proc[c].row = 0 THEN storage.refresh ELSE proc[c].row
<1>1. /\ calls[c].state = "login" /\ proc[c].pc = "answer" /\ Becomes(c, Idle)
      /\ Moves(c, Call("idle", 0))
      /\ UNCHANGED <<sessions, tokens, now, post, refreshing, twice>>
  BY DEF LoginAnswered, In, Answer, At, Nothing
<1>2. storage' = Stored(t, t)
  BY StorageTypes DEF LoginAnswered, Stored, BInv, Types
<1>3. proc[c].row # 0 => Issued(proc[c])
  BY <1>1 DEF Issued
<1>4. /\ t \in Nat
      /\ proc[c].row # 0 => Live(tokens, t)
      /\ t = 0 \/ t \in DOMAIN tokens
  BY <1>3, WorkerTypes, StorageTypes, WhoDrops DEF BInv, StorageOK, Live
<1>5. \A d \in Procs : d # c /\ calls[d].state = "login" /\ Issued(proc[d]) =>
         proc[d].row # t
  BY <1>3 DEF BInv, Apart, OwnTokens
<1>6. (\A d \in Procs : calls[d].state # "driving") => t = 0 \/ Live(tokens, t)
  BY <1>4 DEF BInv, StorageOK
<1> HIDE DEF t
<1>7. /\ calls' \in [Procs -> [state : States, token : Nat]]
      /\ calls'[c].state = "idle"
      /\ \A d \in Procs : d # c => calls'[d] = calls[d]
  BY <1>1 DEF BInv, Types, Moves, Call, States
<1>8. /\ proc'[c].pc = "idle" /\ proc' \in [Procs -> Worker] /\ ~Issued(proc'[c])
      /\ \A d \in Procs : d # c => proc'[d] = proc[d]
  <2>1. Idle \in Worker /\ Idle.pc = "idle"
    BY AnswerIsWorker
  <2> HIDE DEF Idle
  <2> QED
    BY <1>1, <2>1 DEF BInv, Types, Becomes, Issued
<1>9. storage'.access = t /\ storage'.refresh = t
      /\ storage' \in [access : Nat, refresh : Nat]
  BY <1>2, <1>4 DEF Stored
<1>10. Types'
  BY <1>1, <1>7, <1>8, <1>9 DEF BInv, Types
<1>11. OneDriver'
  BY <1>1, <1>7 DEF BInv, Apart, OneDriver
<1>12. OwnSessions'
  BY <1>1, <1>7, <1>8 DEF BInv, Apart, OwnSessions, Exchanging
<1>13. OwnTokens'
  BY <1>5, <1>7, <1>8, <1>9 DEF BInv, Apart, OwnTokens
<1>14. StorageOK'
  BY <1>1, <1>4, <1>6, <1>7, <1>9 DEF StorageOK
<1>15. ServedOK'
  <2>1. CallOK(calls'[c], proc'[c], post[c], tokens, sessions, twice, now)
    BY <1>1, <1>7, <1>8, Served DEF CallOK, Serving
  <2> QED
    BY <1>1, <1>7, <1>8, <2>1 DEF BInv, ServedOK
<1>16. Once(tokens', sessions', proc', twice')
  BY <1>1, <1>8, OnceStays
<1> QED
  BY <1>10, <1>11, <1>12, <1>13, <1>14, <1>15, <1>16 DEF BInv, Apart

LEMMA LogOutKeeps ==
    ASSUME BInv, LogOut
    PROVE  BInv'
<1>1. /\ UNCHANGED <<sessions, tokens, now, proc, refreshing, calls, post, twice>>
      /\ storage' = Stored(0, 0)
  BY DEF LogOut, server
<1>2. storage'.access = 0 /\ storage'.refresh = 0
      /\ storage' \in [access : Nat, refresh : Nat]
  BY <1>1 DEF Stored
<1>3. Types' /\ ServedOK' /\ Once(tokens', sessions', proc', twice')
  BY <1>1, <1>2 DEF BInv, Types, ServedOK
<1>4. OneDriver' /\ OwnSessions'
  BY <1>1 DEF BInv, Apart, OneDriver, OwnSessions
<1>5. OwnTokens'
  BY <1>1, <1>2 DEF BInv, Apart, OwnTokens, Issued
<1>6. StorageOK'
  BY <1>2 DEF StorageOK
<1> QED
  BY <1>3, <1>4, <1>5, <1>6 DEF BInv, Apart

LEMMA LogInKeeps ==
    ASSUME BInv, NEW u \in Users, LogIn(u)
    PROVE  BInv'
<1> DEFINE s == Session(u, AvailableOrgs(u), now, TRUE)
<1>1. /\ sessions' = Append(sessions, s)
      /\ UNCHANGED <<storage, refreshing, calls, post, twice, tokens, now, proc>>
  BY DEF LogIn, SignIn, page
<1>2. s \in SessionRow
  BY DEF Session, SessionRow, AvailableOrgs, BInv, Types
<1> HIDE DEF s
<1>3. /\ sessions' \in Seq(SessionRow) /\ DOMAIN sessions \subseteq DOMAIN sessions'
      /\ \A l \in DOMAIN sessions : sessions'[l] = sessions[l]
  BY <1>1, <1>2 DEF BInv, Types
<1>4. Types'
  BY <1>1, <1>3 DEF BInv, Types
<1>5. Apart' /\ StorageOK'
  BY <1>1 DEF BInv, Apart, OneDriver, OwnSessions, OwnTokens, StorageOK
<1>6. ASSUME NEW c \in Procs
      PROVE  CallOK(calls[c], proc[c], post[c], tokens, sessions', twice, now)
  <2>1. CallOK(calls[c], proc[c], post[c], tokens, sessions, twice, now)
    BY DEF BInv, ServedOK
  <2>2. LoggingIn(proc[c], tokens, sessions, twice) =>
           LoggingIn(proc[c], tokens, sessions', twice)
    BY <1>3 DEF LoggingIn
  <2> QED
    BY <2>1, <2>2 DEF CallOK
<1>7. ServedOK'
  BY <1>1, <1>6 DEF ServedOK
<1>8. Once(tokens', sessions', proc', twice')
  BY <1>1, <1>3 DEF BInv, Once
<1> QED
  BY <1>4, <1>5, <1>7, <1>8 DEF BInv

LEMMA ChooseOrgKeeps ==
    ASSUME BInv, NEW c \in Procs, NEW l \in DOMAIN sessions, NEW o \in Orgs,
           ChooseOrg(c, l, o)
    PROVE  BInv'
<1> DEFINE w == Work("role", l, sessions[l].user, o, "tenant", 0)
<1>1. /\ calls[c].state = "idle" /\ sessions[l].live /\ Becomes(c, w)
      /\ Moves(c, Call("login", 0))
      /\ UNCHANGED <<storage, refreshing, post, sessions, tokens, now>>
  BY DEF ChooseOrg, In, Exchange, SessionLives
<1>2. /\ \A k : k \in twice => k \in twice'
      /\ UnderWay(l) => l \in twice'
  BY DEF ChooseOrg
<1>3. /\ w \in Worker /\ w.pc = "role" /\ w.row = 0 /\ w.login = l
  <2>1. l \in Nat /\ sessions[l] \in SessionRow
    BY DEF BInv, Types
  <2>2. sessions[l].user \in Users
    BY <2>1 DEF SessionRow
  <2> QED
    BY <2>1, <2>2, WorkFields, WorkIsWorker DEF Works
<1> HIDE DEF w
<1>4. ASSUME NEW d \in Procs, Exchanging(calls[d], proc[d]), proc[d].login = l
      PROVE  l \in twice'
  BY <1>2, <1>4 DEF UnderWay, Exchanging, In, At
<1>5. l \in twice' \/ \A t \in DOMAIN tokens : tokens[t].login # l
  BY <1>1, <1>4, WhoDrops DEF BInv, Once
<1>6. proc[c].pc = "idle" /\ post[c] = 0
  BY <1>1 DEF BInv, ServedOK, CallOK, Serving
<1>7. /\ proc' \in [Procs -> Worker] /\ proc'[c] = w
      /\ \A d \in Procs : d # c => proc'[d] = proc[d]
  BY <1>1, <1>3 DEF BInv, Types, Becomes
<1>8. /\ calls' \in [Procs -> [state : States, token : Nat]]
      /\ calls'[c].state = "login"
      /\ \A d \in Procs : d # c => calls'[d] = calls[d]
  BY <1>1 DEF BInv, Types, Moves, Call, States
<1>9. Types'
  BY <1>1, <1>7, <1>8 DEF BInv, Types
<1>10. OneDriver'
  BY <1>1, <1>8 DEF BInv, Apart, OneDriver
<1>11. OwnSessions'
  BY <1>2, <1>3, <1>4, <1>7, <1>8 DEF BInv, Apart, OwnSessions
<1>12. OwnTokens'
  BY <1>1, <1>3, <1>7, <1>8 DEF BInv, Apart, OwnTokens, Issued
<1>13. StorageOK'
  BY <1>1, <1>8 DEF BInv, StorageOK
<1>14. ServedOK'
  <2>1. CallOK(calls'[c], w, post[c], tokens, sessions, twice', now)
    BY <1>3, <1>5, <1>6, <1>8 DEF CallOK, LoggingIn, Serving
  <2>2. ASSUME NEW d \in Procs
        PROVE  CallOK(calls[d], proc[d], post[d], tokens, sessions, twice', now)
    <3>1. CallOK(calls[d], proc[d], post[d], tokens, sessions, twice, now)
      BY DEF BInv, ServedOK
    <3>2. LoggingIn(proc[d], tokens, sessions, twice) =>
             LoggingIn(proc[d], tokens, sessions, twice')
      BY <1>2 DEF LoggingIn
    <3>3. Driving(proc[d], post[d], calls[d].token, tokens, twice, now) =>
             Driving(proc[d], post[d], calls[d].token, tokens, twice', now)
      BY <1>2 DEF Driving
    <3> QED
      BY <3>1, <3>2, <3>3 DEF CallOK
  <2> QED
    BY <1>1, <1>7, <1>8, <2>1, <2>2 DEF ServedOK
<1>15. Once(tokens', sessions', proc', twice')
  <2>1. Once(tokens, sessions, proc', twice)
    BY <1>6, <1>7, OnceStays
  <2> QED
    BY <1>1, <1>2, <2>1 DEF Once
<1> QED
  BY <1>9, <1>10, <1>11, <1>12, <1>13, <1>14, <1>15 DEF BInv, Apart

LEMMA TickKeeps ==
    ASSUME BInv, Tick, UNCHANGED page
    PROVE  BInv'
<1>1. /\ now' = now + 1
      /\ UNCHANGED <<storage, refreshing, calls, post, twice, sessions, tokens, proc>>
  BY DEF Tick, page
<1>2. Types'
  BY <1>1 DEF BInv, Types
<1>3. Apart' /\ StorageOK'
  BY <1>1 DEF BInv, Apart, OneDriver, OwnSessions, OwnTokens, StorageOK
<1>4. ASSUME NEW t \in DOMAIN tokens, Expired(tokens, t, now)
      PROVE  Expired(tokens, t, now')
  <2> DEFINE e == tokens[t].at
  <2>1. e \in Nat
    BY TokenTypes DEF BInv
  <2>2. now \in Nat
    BY DEF BInv, Types
  <2>3. now > e + RefreshTTL
    BY <1>4 DEF Expired
  <2> HIDE DEF e
  <2>4. now' > e + RefreshTTL
    BY <1>1, <2>1, <2>2, <2>3, Lifetimes
  <2> QED
    BY <2>4 DEF Expired, e
<1>5. ASSUME NEW c \in Procs
      PROVE  CallOK(calls[c], proc[c], post[c], tokens, sessions, twice, now')
  <2>1. CallOK(calls[c], proc[c], post[c], tokens, sessions, twice, now)
    BY DEF BInv, ServedOK
  <2>2. Driving(proc[c], post[c], calls[c].token, tokens, twice, now) =>
           Driving(proc[c], post[c], calls[c].token, tokens, twice, now')
    BY <1>4 DEF Driving
  <2> QED
    BY <2>1, <2>2 DEF CallOK
<1>6. ServedOK'
  BY <1>1, <1>5 DEF ServedOK
<1>7. Once(tokens', sessions', proc', twice')
  BY <1>1 DEF BInv
<1> QED
  BY <1>2, <1>3, <1>6, <1>7 DEF BInv

-----------------------------------------------------------------------------
LEMMA InitHolds ==
    ASSUME BrowserInit
    PROVE  BInv
<1>1. /\ now = 0 /\ sessions = <<>> /\ tokens = <<>>
      /\ storage = Stored(0, 0) /\ refreshing = FALSE
      /\ proc = [c \in Procs |-> Idle] /\ calls = [c \in Procs |-> Nothing]
      /\ post = [c \in Procs |-> 0]
  BY DEF BrowserInit, Init
<1>2. \A c \in Procs : /\ proc[c] = Idle /\ Idle \in Worker /\ Idle.pc = "idle"
                       /\ calls[c].state = "idle" /\ post[c] = 0
  BY <1>1, AnswerIsWorker DEF Nothing, Call
<1>3. Types
  <2>1. Nothing \in [state : States, token : Nat] /\ Stored(0, 0) \in [access : Nat, refresh : Nat]
    BY DEF Nothing, Call, States, Stored
  <2> QED
    BY <1>1, <1>2, <2>1 DEF Types
<1>4. Apart
  BY <1>2 DEF Apart, OneDriver, OwnSessions, OwnTokens, Exchanging, Issued
<1>5. StorageOK
  BY <1>1, <1>2 DEF StorageOK, Stored
<1>6. ServedOK
  BY <1>2 DEF ServedOK, CallOK, Serving
<1>7. Once(tokens, sessions, proc, twice)
  BY <1>1 DEF Once
<1> QED
  BY <1>3, <1>4, <1>5, <1>6, <1>7 DEF BInv

LEMMA StutterKeeps ==
    ASSUME BInv, UNCHANGED allVars
    PROVE  BInv'
<1>1. UNCHANGED <<sessions, tokens, now, proc, storage, refreshing, calls, post, twice>>
  BY DEF allVars, server, page
<1>2. Types' /\ StorageOK'
  BY <1>1 DEF BInv, Types, StorageOK
<1>3. Apart'
  BY <1>1 DEF BInv, Apart, OneDriver, OwnSessions, OwnTokens
<1>4. ServedOK' /\ Once(tokens', sessions', proc', twice')
  BY <1>1 DEF BInv, ServedOK
<1> QED
  BY <1>2, <1>3, <1>4 DEF BInv

LEMMA StepKeeps ==
    ASSUME BInv, [BrowserNext]_allVars, "dropped" \notin Faults
    PROVE  BInv'
<1>1. CASE \E u \in Users : LogIn(u)
  BY <1>1, LogInKeeps
<1>2. ASSUME NEW c \in Procs, NEW l \in DOMAIN sessions, NEW o \in Orgs,
             ChooseOrg(c, l, o)
      PROVE  BInv'
  BY <1>2, ChooseOrgKeeps
<1>3. ASSUME NEW c \in Procs, Send(c)
      PROVE  BInv'
  BY <1>3, SendKeeps
<1>4. ASSUME NEW c \in Procs, Page(c)
      PROVE  BInv'
  BY <1>4, LoginAnsweredKeeps, RestsKeep, DriveKeeps, RefreshAnsweredKeeps, SignOutKeeps
     DEF Page
<1>5. ASSUME NEW c \in Procs, Server(c)
      PROVE  BInv'
  BY <1>5, ArrivesKeeps, RefusedKeeps, ContinueKeeps DEF Server
<1>6. ASSUME NEW c \in Procs, AnswerLost(c) \/ RequestLost(c)
      PROVE  BInv'
  BY <1>6, SignOutKeeps, RequestLostKeeps
<1>7. CASE LogOut
  BY <1>7, LogOutKeeps
<1>8. CASE Tick /\ UNCHANGED page
  BY <1>8, TickKeeps
<1>9. CASE UNCHANGED allVars
  BY <1>9, StutterKeeps
<1> QED
  BY <1>1, <1>2, <1>3, <1>4, <1>5, <1>6, <1>7, <1>8, <1>9 DEF BrowserNext

-----------------------------------------------------------------------------
(***************************************************************************)
(* The invariant holds always, as long as no call fails whose error the    *)
(* code drops: a revocation that is lost leaves the old token alive.       *)
(***************************************************************************)
LEMMA BrowserInductive ==
    ASSUME "dropped" \notin Faults
    PROVE  BrowserSpec => []BInv
<1>1. BrowserInit => BInv
  BY InitHolds
<1>2. BInv /\ [BrowserNext]_allVars => BInv'
  BY StepKeeps
<1> QED
  BY <1>1, <1>2, PTL DEF BrowserSpec

\* At most one refresh token per login is usable, whatever the interleaving of
\* calls, logins, logouts, refreshes and answers that are lost, if its session
\* was exchanged once: RefreshToken revokes before it issues, and the page has
\* one refresh under way (client.ts).
THEOREM OneGrantLives ==
    ASSUME "dropped" \notin Faults
    PROVE  BrowserSpec => []OneLiveGrant
<1>1. BInv => OneLiveGrant
  BY DEF BInv, Once, OneLiveGrant, Usable
<1> QED
  BY <1>1, BrowserInductive, PTL

\* While no refresh is under way, the refresh token in localStorage is not a
\* revoked one: every refresh ends with the new token stored or with none, also
\* one that ends after a logout or beside another login.
THEOREM StoredTokenLives ==
    ASSUME "dropped" \notin Faults
    PROVE  BrowserSpec => []StoredTokenIsLive
<1>1. BInv => StoredTokenIsLive
  BY DEF BInv, StorageOK, StoredTokenIsLive, In, Live
<1> QED
  BY <1>1, BrowserInductive, PTL

\* If statements do not fail, the page signs its user out only because they log
\* out, the network loses a refresh, or the refresh token presented has expired:
\* the refusal it reacts to is never of its own making (client.ts).
THEOREM StaysSignedIn ==
    ASSUME "dropped" \notin Faults, "failed" \notin Faults
    PROVE  BrowserSpec => SignedInStays
<1> DEFINE Stays == signedIn /\ ~signedIn' =>
              \/ LogOut
              \/ \E c \in Procs :
                    \/ AnswerLost(c) \/ RequestLost(c)
                    \/ RefreshFailed(c) /\ now > tokens[calls[c].token].at + RefreshTTL
<1>1. ASSUME BInv, BrowserNext, signedIn, ~signedIn'
      PROVE  Stays
  <2>1. CASE LogOut
    BY <2>1
  <2>2. CASE \E c \in Procs : AnswerLost(c) \/ RequestLost(c)
    BY <2>2
  <2>3. CASE \E c \in Procs : RefreshFailed(c)
    <3>1. PICK c \in Procs : RefreshFailed(c)
      BY <2>3
    <3>2. /\ calls[c].state = "driving" /\ proc[c].row = 0 /\ proc[c].pc = "answer"
      BY <3>1 DEF RefreshFailed, In, Answer, At
    <3>3. Driving(proc[c], 0, calls[c].token, tokens, twice, now)
      BY <1>1, <3>2, Served
    <3>4. ~Live(tokens, 0)
      BY <1>1 DEF BInv, Types, Live
    <3>5. Expired(tokens, calls[c].token, now)
      BY <3>2, <3>3, <3>4 DEF Driving, May
    <3> QED
      BY <3>1, <3>5 DEF Expired
  <2>4. \/ LogOut
        \/ \E c \in Procs : AnswerLost(c) \/ RequestLost(c) \/ RefreshFailed(c)
    BY <1>1 DEF BrowserNext, LogIn, ChooseOrg, Send, Page, Server, Succeeds,
       SignedOutMeanwhile, Queue, Drive, GivesUp, Arrives, Refused, LoginAnswered,
       RefreshAnswered, page
  <2> QED
    BY <2>1, <2>2, <2>3, <2>4
<1>2. BInv /\ [BrowserNext]_allVars => [Stays]_allVars
  BY <1>1
<1>3. BrowserSpec => [][Stays]_allVars
  <2> HIDE DEF Stays
  <2> QED
    BY <1>2, BrowserInductive, PTL DEF BrowserSpec
<1> QED
  BY <1>3 DEF SignedInStays
=============================================================================
