----------------------------- MODULE TokenProofs -----------------------------
(***************************************************************************)
(* Proofs about Tokens for any number of users, organizations, goroutines, *)
(* logins and tokens, whatever fails.                                      *)
(*                                                                         *)
(* What makes GrantsFromBonds inductive is what goroutines in flight hold: *)
(* whoever will store a token goes back to a login that offered its        *)
(* organization (InFlight), and what a login offers was once a bond        *)
(* (Offers).  Sessions are only ever added to and marked, so neither       *)
(* changes afterwards.  The second part shows that tokens implement        *)
(* GrantLife.                                                              *)
(***************************************************************************)
EXTENDS TokenInvariants, FiniteSetTheorems, TLAPS

\* Program counters of goroutines that hold a grant.
Holds == {"rotate", "role", "store"}

Held(p) ==
    /\ proc[p].pc \in Holds =>
          FromLogin(proc[p].login, proc[p].user, proc[p].org)
    /\ proc[p].pc = "store" /\ proc[p].role = "provider" =>
          <<Provider, proc[p].user>> \in joined
    /\ proc[p].pc = "drop" => proc[p].login \in DOMAIN sessions
    /\ proc[p].pc \in {"rotate", "revoke"} => proc[p].row \in DOMAIN tokens

Offers ==
    /\ bonds \subseteq joined
    /\ \A l \in DOMAIN sessions : \A o \in sessions[l].orgs :
          <<o, sessions[l].user>> \in joined

InFlight == \A p \in Procs : Held(p)

IInv == TypeOK /\ Offers /\ GrantsFromBonds /\ InFlight

-----------------------------------------------------------------------------
(***************************************************************************)
(* Nothing that has been said of a login becomes untrue.                   *)
(***************************************************************************)
Grows ==
    /\ joined \subseteq joined'
    /\ DOMAIN sessions \subseteq DOMAIN sessions'
    /\ \A l \in DOMAIN sessions : /\ sessions'[l].user = sessions[l].user
                                  /\ sessions'[l].orgs = sessions[l].orgs
    /\ DOMAIN tokens \subseteq DOMAIN tokens'
    /\ \A t \in DOMAIN tokens : /\ tokens'[t].user = tokens[t].user
                                /\ tokens'[t].org = tokens[t].org
                                /\ tokens'[t].role = tokens[t].role
                                /\ tokens'[t].login = tokens[t].login

LEMMA GrantsStay ==
    ASSUME Grows, NEW l, NEW u, NEW o, FromLogin(l, u, o)
    PROVE  FromLogin(l, u, o)'
BY DEF Grows, FromLogin

\* One token says what GrantsFromBonds says of all.
Granted(t) ==
    /\ FromLogin(tokens[t].login, tokens[t].user, tokens[t].org)
    /\ <<tokens[t].org, tokens[t].user>> \in joined
    /\ tokens[t].role = "provider" => <<Provider, tokens[t].user>> \in joined

LEMMA TokensStay ==
    ASSUME Grows, NEW t \in DOMAIN tokens, Granted(t)
    PROVE  Granted(t)'
<1>1. FromLogin(tokens[t].login, tokens[t].user, tokens[t].org)'
  <2>1. FromLogin(tokens[t].login, tokens[t].user, tokens[t].org)
    BY DEF Granted
  <2> QED
    BY <2>1 DEF Grows, FromLogin
<1>2. <<tokens'[t].org, tokens'[t].user>> \in joined'
  BY DEF Granted, Grows
<1>3. tokens'[t].role = "provider" => <<Provider, tokens'[t].user>> \in joined'
  BY DEF Granted, Grows
<1> QED
  BY <1>1, <1>2, <1>3 DEF Granted

LEMMA HeldStays ==
    ASSUME Grows, NEW p \in Procs, Held(p), proc'[p] = proc[p]
    PROVE  Held(p)'
BY DEF Held, Grows, FromLogin

\* A step of one goroutine, or of none, keeps all but the types.
LEMMA StepKeeps ==
    ASSUME IInv, Grows, Offers',
           NEW p, \A q \in Procs \ {p} : proc'[q] = proc[q],
           p \in Procs => Held(p)',
           \A t \in DOMAIN tokens' : t \in DOMAIN tokens \/ Granted(t)'
    PROVE  Offers' /\ GrantsFromBonds' /\ InFlight'
<1>1. \A t \in DOMAIN tokens : Granted(t)
  BY DEF IInv, GrantsFromBonds, Granted
<1>2. \A t \in DOMAIN tokens' : Granted(t)'
  BY <1>1, TokensStay
<1>3. GrantsFromBonds'
  BY <1>2 DEF GrantsFromBonds, Granted
<1>4. \A q \in Procs : Held(q)'
  BY HeldStays DEF IInv, InFlight
<1> QED
  BY <1>3, <1>4 DEF InFlight

-----------------------------------------------------------------------------
(***************************************************************************)
(* A step that leaves sessions, tokens and bonds alone and moves one       *)
(* goroutine.                                                              *)
(***************************************************************************)
LEMMA Moves ==
    ASSUME TypeOK, NEW p \in Procs, NEW w \in WorkType \cup AnswerType, Becomes(p, w)
    PROVE  /\ proc' \in [Procs -> WorkType \cup AnswerType]
           /\ proc'[p] = w
           /\ \A q \in Procs \ {p} : proc'[q] = proc[q]
BY DEF TypeOK, Becomes

LEMMA LocalStep ==
    ASSUME IInv, NEW p \in Procs, NEW w \in WorkType \cup AnswerType, Becomes(p, w),
           bonds' = bonds, joined' = joined, sessions' = sessions, tokens' = tokens,
           now' = now,
           w.pc \in Holds => FromLogin(w.login, w.user, w.org),
           w.pc = "store" /\ w.role = "provider" => <<Provider, w.user>> \in joined,
           w.pc = "drop" => w.login \in DOMAIN sessions,
           w.pc \in {"rotate", "revoke"} => w.row \in DOMAIN tokens
    PROVE  IInv'
<1>0. TypeOK /\ Offers
  BY DEF IInv
<1>1. /\ proc' \in [Procs -> WorkType \cup AnswerType]
      /\ proc'[p] = w
      /\ \A q \in Procs \ {p} : proc'[q] = proc[q]
  BY <1>0, Moves
<1>2. TypeOK'
  BY <1>0, <1>1 DEF TypeOK
<1>3. Grows
  BY DEF Grows
<1>4. Offers'
  BY <1>0 DEF Offers
<1>5. Held(p)'
  BY <1>1 DEF Held, FromLogin
<1>6. Offers' /\ GrantsFromBonds' /\ InFlight'
  BY <1>1, <1>3, <1>4, <1>5, StepKeeps
<1> QED
  BY <1>2, <1>6 DEF IInv

\* What a goroutine holds that is at one of the labels of Work.
LEMMA Works ==
    ASSUME TypeOK, NEW p \in Procs, proc[p].pc \in {"rotate", "role", "store", "drop", "revoke"}
    PROVE  proc[p] \in WorkType
<1>1. proc[p] \in WorkType \cup AnswerType
  BY DEF TypeOK
<1>2. proc[p] \notin AnswerType
  BY DEF AnswerType
<1> QED
  BY <1>1, <1>2

LEMMA WorkTyped ==
    ASSUME NEW label \in {"rotate", "role", "store", "drop", "revoke"}, NEW l \in Nat,
           NEW u \in Users, NEW o \in Orgs, NEW role \in Roles, NEW t \in Nat
    PROVE  Work(label, l, u, o, role, t) \in WorkType \cup AnswerType
BY DEF Work, WorkType

LEMMA SessionTyped ==
    ASSUME TypeOK, NEW l \in DOMAIN sessions
    PROVE  sessions[l] \in SessionRow /\ l \in Nat
BY DEF TypeOK

LEMMA TokenTyped ==
    ASSUME TypeOK, NEW t \in DOMAIN tokens
    PROVE  tokens[t] \in TokenRow /\ t \in Nat
BY DEF TypeOK

-----------------------------------------------------------------------------
(***************************************************************************)
(* One step per action.                                                    *)
(***************************************************************************)
\* When no goroutine moves.
LEMMA Environment ==
    ASSUME IInv, TypeOK', Grows, Offers', proc' = proc, tokens' = tokens
    PROVE  IInv'
<1>1. \A q \in Procs : Held(q)'
  BY HeldStays DEF IInv, InFlight
<1>2. GrantsFromBonds' /\ InFlight'
  <2>1. \A t \in DOMAIN tokens : Granted(t)
    BY DEF IInv, GrantsFromBonds, Granted
  <2>2. \A t \in DOMAIN tokens' : Granted(t)'
    BY <2>1, TokensStay
  <2> QED
    BY <1>1, <2>2 DEF GrantsFromBonds, Granted, InFlight
<1> QED
  BY <1>2 DEF IInv

LEMMA EnvironmentStep ==
    ASSUME IInv,
           \/ \E o \in Orgs, u \in Users : Join(o, u) \/ Leave(o, u)
           \/ \E u \in Users : SignIn(u)
           \/ Tick
    PROVE  IInv'
<1>0. TypeOK /\ Offers
  BY DEF IInv
<1>1. CASE \E o \in Orgs, u \in Users : Join(o, u) \/ Leave(o, u)
  <2>1. proc' = proc /\ tokens' = tokens /\ sessions' = sessions /\ now' = now
    BY <1>1 DEF Join, Leave
  <2>2. TypeOK'
    BY <1>0, <1>1 DEF TypeOK, Join, Leave
  <2>3. Grows
    BY <1>1 DEF Grows, Join, Leave
  <2>4. Offers'
    BY <1>0, <1>1 DEF Offers, Join, Leave
  <2> QED
    BY <2>1, <2>2, <2>3, <2>4, Environment
<1>2. CASE \E u \in Users : SignIn(u)
  <2>1. PICK u \in Users : SignIn(u)
    BY <1>2
  <2> DEFINE s == Session(u, AvailableOrgs(u), now, TRUE)
  <2>2. s \in SessionRow /\ s.user = u /\ \A o \in s.orgs : <<o, u>> \in joined
    BY <1>0 DEF Session, SessionRow, AvailableOrgs, TypeOK, Offers
  <2>3. sessions' = Append(sessions, s)
    BY <2>1 DEF SignIn
  <2>4. proc' = proc /\ tokens' = tokens /\ bonds' = bonds /\ joined' = joined /\ now' = now
    BY <2>1 DEF SignIn
  <2> HIDE DEF s
  <2>5. sessions \in Seq(SessionRow)
    BY <1>0 DEF TypeOK
  <2>6. /\ sessions' \in Seq(SessionRow)
        /\ DOMAIN sessions' = DOMAIN sessions \cup {Len(sessions) + 1}
        /\ sessions'[Len(sessions) + 1] = s
        /\ \A l \in DOMAIN sessions : sessions'[l] = sessions[l]
    BY <2>2, <2>3, <2>5
  <2>7. TypeOK'
    BY <1>0, <2>4, <2>6 DEF TypeOK
  <2>8. Grows
    BY <2>4, <2>6 DEF Grows
  <2>9. Offers'
    BY <1>0, <2>2, <2>4, <2>6 DEF Offers
  <2> QED
    BY <2>4, <2>7, <2>8, <2>9, Environment
<1>3. CASE Tick
  <2>1. TypeOK' /\ Grows /\ Offers'
    BY <1>0, <1>3 DEF TypeOK, Grows, Offers, Tick
  <2> QED
    BY <1>3, <2>1, Environment DEF Tick
<1> QED
  BY <1>1, <1>2, <1>3

LEMMA ExchangeStep ==
    ASSUME IInv, NEW p \in Procs, NEW l \in DOMAIN sessions, NEW o \in Orgs,
           Exchange(p, l, o) \/ ExchangeElsewhere(p, l, o)
    PROVE  IInv'
<1>1. TypeOK /\ sessions[l] \in SessionRow /\ l \in Nat
  BY SessionTyped DEF IInv
<1>2. sessions[l].user \in Users
  BY <1>1 DEF SessionRow
<1>3. CASE Exchange(p, l, o)
  <2> DEFINE w == Work("role", l, sessions[l].user, o, "tenant", 0)
  <2>1. w \in WorkType \cup AnswerType
    BY <1>1, <1>2, WorkTyped DEF Roles
  <2>2. Becomes(p, w) /\ UNCHANGED <<bonds, joined, sessions, tokens, now>>
    BY <1>3 DEF Exchange
  <2>3. FromLogin(w.login, w.user, w.org)
    BY <1>3 DEF Exchange, Offered, FromLogin, Work
  <2>4. w.pc = "role"
    BY DEF Work
  <2> HIDE DEF w
  <2> QED
    BY <2>1, <2>2, <2>3, <2>4, LocalStep
<1>4. CASE ExchangeElsewhere(p, l, o)
  <2> DEFINE w == Work("drop", l, sessions[l].user, o, "tenant", 0)
  <2>1. w \in WorkType \cup AnswerType
    BY <1>1, <1>2, WorkTyped DEF Roles
  <2>2. Becomes(p, w) /\ UNCHANGED <<bonds, joined, sessions, tokens, now>>
    BY <1>4 DEF ExchangeElsewhere
  <2>3. w.pc = "drop" /\ w.login = l
    BY DEF Work
  <2> HIDE DEF w
  <2> QED
    BY <2>1, <2>2, <2>3, LocalStep DEF Holds
<1> QED
  BY <1>3, <1>4

LEMMA LoadStep ==
    ASSUME IInv, NEW p \in Procs, NEW t \in DOMAIN tokens, RefreshLoad(p, t) \/ RevokeLoad(p, t)
    PROVE  IInv'
<1>1. TypeOK /\ tokens[t] \in TokenRow /\ t \in Nat
  BY TokenTyped DEF IInv
<1>2. tokens[t].login \in Nat /\ tokens[t].user \in Users /\ tokens[t].org \in Orgs
  BY <1>1 DEF TokenRow
<1>3. CASE RefreshLoad(p, t)
  <2> DEFINE w == Work("rotate", tokens[t].login, tokens[t].user, tokens[t].org, "tenant", t)
  <2>1. w \in WorkType \cup AnswerType
    BY <1>1, <1>2, WorkTyped DEF Roles
  <2>2. Becomes(p, w) /\ UNCHANGED <<bonds, joined, sessions, tokens, now>>
    BY <1>3 DEF RefreshLoad
  <2>3. FromLogin(w.login, w.user, w.org)
    BY DEF IInv, GrantsFromBonds, Work
  <2>4. w.pc = "rotate" /\ w.row = t
    BY DEF Work
  <2> HIDE DEF w
  <2> QED
    BY <2>1, <2>2, <2>3, <2>4, LocalStep
<1>4. CASE RevokeLoad(p, t)
  <2> DEFINE w == Work("revoke", tokens[t].login, tokens[t].user, tokens[t].org, "tenant", t)
  <2>1. w \in WorkType \cup AnswerType
    BY <1>1, <1>2, WorkTyped DEF Roles
  <2>2. Becomes(p, w) /\ UNCHANGED <<bonds, joined, sessions, tokens, now>>
    BY <1>4 DEF RevokeLoad
  <2>3. w.pc = "revoke" /\ w.row = t
    BY DEF Work
  <2> HIDE DEF w
  <2> QED
    BY <2>1, <2>2, <2>3, LocalStep DEF Holds
<1> QED
  BY <1>3, <1>4

LEMMA RoleStep ==
    ASSUME IInv, NEW p \in Procs, ResolveRole(p)
    PROVE  IInv'
<1>1. proc[p].pc = "role"
  BY DEF ResolveRole, At
<1>2. TypeOK /\ proc[p] \in WorkType
  BY <1>1, Works DEF IInv
<1>3. FromLogin(proc[p].login, proc[p].user, proc[p].org)
  BY <1>1 DEF IInv, InFlight, Held, Holds
<1>4. <<proc[p].org, proc[p].user>> \in joined
  BY <1>3 DEF IInv, Offers, FromLogin
<1>5. PICK role \in {RoleNow(proc[p].user, proc[p].org)} \cup
                   (IF May("failed") /\ proc[p].org # Provider THEN {"tenant"} ELSE {}) :
          Becomes(p, Work("store", proc[p].login, proc[p].user, proc[p].org,
                          role, proc[p].row))
  BY DEF ResolveRole
<1> DEFINE w == Work("store", proc[p].login, proc[p].user, proc[p].org, role, proc[p].row)
<1>6. role \in Roles /\ (role = "provider" => <<Provider, proc[p].user>> \in joined)
  BY <1>4, <1>5 DEF RoleNow, Roles, IInv, Offers
<1>7. w \in WorkType \cup AnswerType
  <2>1. /\ proc[p].login \in Nat /\ proc[p].user \in Users /\ proc[p].org \in Orgs
        /\ proc[p].row \in Nat
    BY <1>2 DEF WorkType
  <2> QED
    BY <2>1, <1>6, WorkTyped
<1>8. /\ w.pc = "store" /\ w.login = proc[p].login /\ w.user = proc[p].user
      /\ w.org = proc[p].org /\ w.role = role
  BY DEF Work
<1>9. Becomes(p, w) /\ UNCHANGED <<bonds, joined, sessions, tokens, now>>
  BY <1>5 DEF ResolveRole
<1> HIDE DEF w
<1> QED
  BY <1>3, <1>6, <1>7, <1>8, <1>9, LocalStep

LEMMA EndStep ==
    ASSUME IInv, NEW p \in Procs, Answer(p) \/ Gone(p)
    PROVE  IInv'
<1>1. Idle \in WorkType \cup AnswerType /\ Idle.pc = "idle"
  BY DEF Idle, AnswerType
<1>2. Becomes(p, Idle) /\ UNCHANGED <<bonds, joined, sessions, tokens, now>>
  BY DEF Answer, Gone
<1> HIDE DEF Idle
<1> QED
  BY <1>1, <1>2, LocalStep DEF Holds

\* A revoked row says the same of its grant.
LEMMA Revokes ==
    ASSUME TypeOK, NEW t \in DOMAIN tokens, Revoke(t) \/ tokens' = tokens
    PROVE  /\ tokens' \in Seq(TokenRow)
           /\ DOMAIN tokens' = DOMAIN tokens
           /\ \A s \in DOMAIN tokens : /\ tokens'[s].user = tokens[s].user
                                       /\ tokens'[s].org = tokens[s].org
                                       /\ tokens'[s].role = tokens[s].role
                                       /\ tokens'[s].login = tokens[s].login
<1>1. tokens \in Seq(TokenRow)
  BY DEF TypeOK
<1>2. CASE Revoke(t)
  <2> DEFINE r == RevokedRow(tokens[t])
  <2>1. /\ r \in TokenRow
        /\ r.user = tokens[t].user /\ r.org = tokens[t].org
        /\ r.role = tokens[t].role /\ r.login = tokens[t].login
    BY TokenTyped DEF RevokedRow, TokenRow
  <2>2. tokens' = [tokens EXCEPT ![t] = r]
    BY <1>2 DEF Revoke
  <2> HIDE DEF r
  <2> QED
    BY <1>1, <2>1, <2>2
<1> QED
  BY <1>1, <1>2

LEMMA RevokeStep ==
    ASSUME IInv, NEW p \in Procs, RefreshRotate(p) \/ RevokeSave(p)
    PROVE  IInv'
<1>0. TypeOK /\ Offers /\ InFlight
  BY DEF IInv
<1>1. proc[p].pc \in {"rotate", "revoke"}
  BY DEF RefreshRotate, RevokeSave, At
<1>2. proc[p] \in WorkType /\ proc[p].row \in DOMAIN tokens
  BY <1>0, <1>1, Works DEF InFlight, Held
<1>3. /\ bonds' = bonds /\ joined' = joined /\ sessions' = sessions /\ now' = now
      /\ Revoke(proc[p].row) \/ tokens' = tokens
  BY DEF RefreshRotate, RevokeSave
<1>4. /\ tokens' \in Seq(TokenRow)
      /\ Grows
      /\ DOMAIN tokens' = DOMAIN tokens
  BY <1>0, <1>2, <1>3, Revokes DEF Grows
<1>5. PICK w \in WorkType \cup AnswerType :
         /\ Becomes(p, w)
         /\ \/ w.pc = "answer"
            \/ /\ w.pc = "role" /\ proc[p].pc = "rotate"
               /\ w.login = proc[p].login /\ w.user = proc[p].user /\ w.org = proc[p].org
  <2>1. CASE RefreshRotate(p)
    <3> DEFINE w == Work("role", proc[p].login, proc[p].user, proc[p].org,
                         proc[p].role, proc[p].row)
    <3>1. /\ proc[p].login \in Nat /\ proc[p].user \in Users /\ proc[p].org \in Orgs
          /\ proc[p].role \in Roles /\ proc[p].row \in Nat
      BY <1>2 DEF WorkType
    <3>2. w \in WorkType \cup AnswerType
      BY <3>1, WorkTyped
    <3>3. /\ w.pc = "role" /\ w.login = proc[p].login /\ w.user = proc[p].user
          /\ w.org = proc[p].org
      BY DEF Work
    <3>4. Becomes(p, w) /\ proc[p].pc = "rotate"
      BY <2>1 DEF RefreshRotate, GoTo, At
    <3> HIDE DEF w
    <3> QED
      BY <3>2, <3>3, <3>4
  <2>2. CASE RevokeSave(p)
    <3>1. Answered(0) \in WorkType \cup AnswerType /\ Answered(0).pc = "answer"
      BY DEF Answered, AnswerType
    <3>2. Becomes(p, Answered(0))
      BY <2>2 DEF RevokeSave
    <3> QED
      BY <3>1, <3>2
  <2> QED
    BY <2>1, <2>2
<1>6. /\ proc' \in [Procs -> WorkType \cup AnswerType]
      /\ proc'[p] = w
      /\ \A q \in Procs \ {p} : proc'[q] = proc[q]
  BY <1>0, <1>5, Moves
<1>7. TypeOK' /\ Offers'
  BY <1>0, <1>3, <1>4, <1>6 DEF TypeOK, Offers
<1>8. Held(p)'
  <2>1. CASE w.pc = "answer"
    BY <1>6, <2>1 DEF Held, Holds
  <2>2. CASE w.pc = "role" /\ proc[p].pc = "rotate"
    <3>1. FromLogin(proc[p].login, proc[p].user, proc[p].org)
      BY <1>0, <2>2 DEF InFlight, Held, Holds
    <3>2. FromLogin(w.login, w.user, w.org)'
      BY <3>1, <1>3, <1>5, <2>2 DEF FromLogin
    <3> QED
      BY <1>6, <2>2, <3>2 DEF Held, FromLogin
  <2> QED
    BY <1>5, <2>1, <2>2
<1>9. Offers' /\ GrantsFromBonds' /\ InFlight'
  BY <1>4, <1>6, <1>7, <1>8, StepKeeps
<1> QED
  BY <1>7, <1>9 DEF IInv

LEMMA DropStep ==
    ASSUME IInv, NEW p \in Procs, DropSession(p)
    PROVE  IInv'
<1>0. TypeOK /\ Offers /\ InFlight
  BY DEF IInv
<1>1. proc[p].pc = "drop"
  BY DEF DropSession, At
<1>2. proc[p] \in WorkType /\ proc[p].login \in DOMAIN sessions
  BY <1>0, <1>1, Works DEF InFlight, Held
<1>3. Answered(proc[p].row) \in WorkType \cup AnswerType /\ Answered(proc[p].row).pc = "answer"
  BY <1>2 DEF Answered, AnswerType, WorkType
<1>4. /\ proc' \in [Procs -> WorkType \cup AnswerType]
      /\ proc'[p].pc = "answer"
      /\ \A q \in Procs \ {p} : proc'[q] = proc[q]
  BY <1>0, <1>3, Moves DEF DropSession
<1>5. bonds' = bonds /\ joined' = joined /\ tokens' = tokens /\ now' = now
  BY DEF DropSession
<1>6. /\ sessions' \in Seq(SessionRow)
      /\ DOMAIN sessions' = DOMAIN sessions
      /\ \A l \in DOMAIN sessions : /\ sessions'[l].user = sessions[l].user
                                    /\ sessions'[l].orgs = sessions[l].orgs
  <2> DEFINE l == proc[p].login
             s == Deleted(sessions[l])
  <2>1. s \in SessionRow /\ s.user = sessions[l].user /\ s.orgs = sessions[l].orgs
    BY <1>0, <1>2, SessionTyped DEF Deleted, Session, SessionRow
  <2>2. sessions' = [sessions EXCEPT ![l] = s] \/ sessions' = sessions
    BY DEF DropSession
  <2>3. sessions \in Seq(SessionRow) /\ l \in DOMAIN sessions
    BY <1>0, <1>2 DEF TypeOK
  <2> HIDE DEF s, l
  <2> QED
    BY <2>1, <2>2, <2>3
<1>7. Grows
  BY <1>5, <1>6 DEF Grows
<1>8. TypeOK' /\ Offers'
  BY <1>0, <1>4, <1>5, <1>6 DEF TypeOK, Offers
<1>9. Held(p)'
  BY <1>4 DEF Held, Holds
<1>10. Offers' /\ GrantsFromBonds' /\ InFlight'
  BY <1>4, <1>5, <1>7, <1>8, <1>9, StepKeeps
<1> QED
  BY <1>8, <1>10 DEF IInv

\* Where a goroutine goes when its token is stored, or not.
LEMMA Finishes ==
    ASSUME TypeOK, NEW p \in Procs, proc[p].pc = "store", NEW t \in Nat, Finish(p, t)
    PROVE  \E w \in WorkType \cup AnswerType :
              /\ Becomes(p, w)
              /\ w.pc = "answer" \/ (w.pc = "drop" /\ w.login = proc[p].login)
<1>1. /\ proc[p].login \in Nat /\ proc[p].user \in Users /\ proc[p].org \in Orgs
      /\ proc[p].role \in Roles /\ proc[p].row \in Nat
  BY Works DEF WorkType
<1>2. CASE proc[p].row = 0
  <2> DEFINE w == Work("drop", proc[p].login, proc[p].user, proc[p].org, proc[p].role, t)
  <2>1. w \in WorkType \cup AnswerType
    BY <1>1, WorkTyped
  <2>2. w.pc = "drop" /\ w.login = proc[p].login
    BY DEF Work
  <2>3. Becomes(p, w)
    BY <1>2 DEF Finish
  <2> HIDE DEF w
  <2> QED
    BY <2>1, <2>2, <2>3
<1>3. CASE proc[p].row # 0
  <2>1. Answered(t) \in WorkType \cup AnswerType /\ Answered(t).pc = "answer"
    BY DEF Answered, AnswerType
  <2>2. Becomes(p, Answered(t))
    BY <1>3 DEF Finish
  <2> QED
    BY <2>1, <2>2
<1> QED
  BY <1>2, <1>3

LEMMA StoreStep ==
    ASSUME IInv, NEW p \in Procs, StoreToken(p) \/ StoreFails(p)
    PROVE  IInv'
<1>0. TypeOK /\ Offers /\ InFlight
  BY DEF IInv
<1>1. proc[p].pc = "store"
  BY DEF StoreToken, StoreFails, At
<1>2. proc[p] \in WorkType
  BY <1>0, <1>1, Works
<1>3. /\ FromLogin(proc[p].login, proc[p].user, proc[p].org)
      /\ proc[p].role = "provider" => <<Provider, proc[p].user>> \in joined
  BY <1>0, <1>1 DEF InFlight, Held, Holds
<1>4. tokens \in Seq(TokenRow) /\ Len(tokens) \in Nat
  BY <1>0 DEF TypeOK
<1>5. Finish(p, Len(tokens) + 1) \/ Finish(p, 0)
  BY DEF StoreToken, StoreFails
<1>6. PICK w \in WorkType \cup AnswerType :
         /\ Becomes(p, w)
         /\ w.pc = "answer" \/ (w.pc = "drop" /\ w.login = proc[p].login)
  <2>1. CASE Finish(p, Len(tokens) + 1)
    <3>1. Len(tokens) + 1 \in Nat
      BY <1>4
    <3> QED
      BY <1>0, <1>1, <2>1, <3>1, Finishes
  <2>2. CASE Finish(p, 0)
    BY <1>0, <1>1, <2>2, Finishes
  <2> QED
    BY <1>5, <2>1, <2>2
<1>7. /\ proc' \in [Procs -> WorkType \cup AnswerType]
      /\ proc'[p] = w
      /\ \A q \in Procs \ {p} : proc'[q] = proc[q]
  BY <1>0, <1>6, Moves
<1>8. bonds' = bonds /\ joined' = joined /\ sessions' = sessions /\ now' = now
  BY DEF StoreToken, StoreFails
<1>9. Held(p)'
  BY <1>3, <1>6, <1>7, <1>8 DEF Held, Holds, FromLogin
<1>10. /\ tokens' \in Seq(TokenRow)
       /\ Grows
       /\ \A t \in DOMAIN tokens' : t \in DOMAIN tokens \/ Granted(t)'
  <2>1. CASE StoreFails(p)
    BY <1>4, <1>8, <2>1 DEF StoreFails, Grows
  <2>2. CASE StoreToken(p)
    <3> DEFINE r == NewToken(p)
    <3>1. /\ r \in TokenRow
          /\ r.user = proc[p].user /\ r.org = proc[p].org
          /\ r.role = proc[p].role /\ r.login = proc[p].login
      BY <1>0, <1>2 DEF NewToken, TokenRow, WorkType, Roles, TypeOK
    <3>2. tokens' = Append(tokens, r)
      BY <2>2 DEF StoreToken
    <3> HIDE DEF r
    <3>3. /\ tokens' \in Seq(TokenRow)
          /\ DOMAIN tokens' = DOMAIN tokens \cup {Len(tokens) + 1}
          /\ tokens'[Len(tokens) + 1] = r
          /\ \A t \in DOMAIN tokens : tokens'[t] = tokens[t]
      BY <1>4, <3>1, <3>2
    <3>4. Grows
      BY <1>8, <3>3 DEF Grows
    <3>5. <<proc[p].org, proc[p].user>> \in joined
      BY <1>0, <1>3 DEF Offers, FromLogin
    <3>6. PICK n : n = Len(tokens) + 1
      OBVIOUS
    <3>7. Granted(n)'
      BY <1>3, <1>8, <3>1, <3>3, <3>5, <3>6 DEF Granted, FromLogin
    <3> QED
      BY <3>3, <3>4, <3>6, <3>7
  <2> QED
    BY <2>1, <2>2
<1>11. TypeOK' /\ Offers'
  BY <1>0, <1>7, <1>8, <1>10 DEF TypeOK, Offers
<1>12. Offers' /\ GrantsFromBonds' /\ InFlight'
  BY <1>7, <1>9, <1>10, <1>11, StepKeeps
<1> QED
  BY <1>11, <1>12 DEF IInv

-----------------------------------------------------------------------------
LEMMA InvInit ==
    ASSUME Init
    PROVE  IInv
<1>1. Idle \in AnswerType /\ Idle.pc = "idle"
  BY DEF Idle, AnswerType
<1>2. TypeOK
  BY <1>1 DEF TypeOK, Init
<1>3. Offers /\ GrantsFromBonds
  BY DEF Init, Offers, GrantsFromBonds
<1>4. InFlight
  BY <1>1 DEF Init, InFlight, Held, Holds
<1> QED
  BY <1>2, <1>3, <1>4 DEF IInv

LEMMA InvStep ==
    ASSUME IInv, [Next]_vars
    PROVE  IInv'
<1>1. CASE \E o \in Orgs, u \in Users : Join(o, u) \/ Leave(o, u)
  BY <1>1, EnvironmentStep
<1>2. CASE \E u \in Users : SignIn(u)
  BY <1>2, EnvironmentStep
<1>3. CASE \E p \in Procs : Request(p)
  BY <1>3, ExchangeStep, LoadStep DEF Request
<1>4. CASE \E p \in Procs : Continue(p)
  BY <1>4, RevokeStep, RoleStep, StoreStep, DropStep DEF Continue
<1>5. CASE \E p \in Procs : Answer(p) \/ Gone(p)
  BY <1>5, EndStep
<1>6. CASE Tick
  BY <1>6, EnvironmentStep
<1>7. CASE UNCHANGED vars
  <2>1. /\ bonds' = bonds /\ joined' = joined /\ sessions' = sessions
        /\ tokens' = tokens /\ now' = now /\ proc' = proc
    BY <1>7 DEF vars
  <2>2. TypeOK' /\ Grows /\ Offers'
    BY <2>1 DEF IInv, TypeOK, Grows, Offers
  <2> QED
    BY <2>1, <2>2, Environment
<1> QED
  BY <1>1, <1>2, <1>3, <1>4, <1>5, <1>6, <1>7 DEF Next

\* Sessions, tokens and goroutines are always of their types.
THEOREM TypeCorrect == Spec => []TypeOK
<1>1. Spec => []IInv
  BY InvInit, InvStep, PTL DEF Spec
<1>2. IInv => TypeOK
  BY DEF IInv
<1> QED
  BY <1>1, <1>2, PTL

\* Every token, for any number of logins, refreshes, revocations and requests
\* in flight, goes back to a login of its user that offered its organization,
\* and to a bond (ExchangeLoginSession, RefreshToken).
THEOREM TokensAreGranted == Spec => []GrantsFromBonds
<1>1. Spec => []IInv
  BY InvInit, InvStep, PTL DEF Spec
<1>2. IInv => GrantsFromBonds
  BY DEF IInv
<1> QED
  BY <1>1, <1>2, PTL

-----------------------------------------------------------------------------
(***************************************************************************)
(* The refinement: the table of tokens implements the life of a grant.     *)
(*                                                                         *)
(* A step that stores no session and no token can only end logins: then    *)
(* nothing that is open afterwards was not open before.  Signing in and    *)
(* storing a token open and count exactly one.                             *)
(***************************************************************************)
Counted == Len(sessions) <= MaxLogins

GInv == IInv /\ Counted

OpenOnes == {l \in DOMAIN sessions : Open(l)}
EndedOnes == {l \in DOMAIN sessions : ~Open(l)}
IssuedOnes == [l \in 1 .. MaxLogins |-> Issued(l)]

\* What Next of GrantLife is, in terms of these.
LEMMA LifeSteps ==
    /\ Grants!Next <=>
         \/ \E l \in 1 .. MaxLogins :
              \/ /\ l \notin OpenOnes \cup EndedOnes
                 /\ OpenOnes' = OpenOnes \cup {l}
                 /\ EndedOnes' = EndedOnes /\ IssuedOnes' = IssuedOnes
              \/ /\ l \in OpenOnes
                 /\ IssuedOnes' = [IssuedOnes EXCEPT ![l] = IssuedOnes[l] + 1]
                 /\ OpenOnes' = OpenOnes /\ EndedOnes' = EndedOnes
         \/ \E L \in SUBSET (1 .. MaxLogins) :
              /\ L \subseteq OpenOnes
              /\ OpenOnes' = OpenOnes \ L
              /\ EndedOnes' = EndedOnes \cup L
              /\ IssuedOnes' = IssuedOnes
BY DEF Grants!Next, Grants!SignIn, Grants!Issue, Grants!End, OpenOnes, EndedOnes, IssuedOnes

LEMMA LoginsCounted ==
    ASSUME GInv
    PROVE  DOMAIN sessions \subseteq 1 .. MaxLogins
BY LoginsBound DEF GInv, Counted, IInv, TypeOK

LEMMA IssuedStays ==
    ASSUME DOMAIN tokens' = DOMAIN tokens,
           \A t \in DOMAIN tokens : tokens'[t].login = tokens[t].login
    PROVE  IssuedOnes' = IssuedOnes
<1>1. \A l : {t \in DOMAIN tokens' : tokens'[t].login = l}
                = {t \in DOMAIN tokens : tokens[t].login = l}
  OBVIOUS
<1>2. \A l : Issued(l)' = Issued(l)
  BY <1>1 DEF Issued
<1> QED
  BY <1>2 DEF IssuedOnes

\* A step that only ends logins.
LEMMA Ends ==
    ASSUME GInv, DOMAIN sessions' = DOMAIN sessions,
           \A l \in DOMAIN sessions : Open(l)' => Open(l),
           DOMAIN tokens' = DOMAIN tokens,
           \A t \in DOMAIN tokens : tokens'[t].login = tokens[t].login
    PROVE  Grants!Next
<1> DEFINE L == {l \in DOMAIN sessions : Open(l) /\ ~Open(l)'}
<1>1. L \in SUBSET (1 .. MaxLogins) /\ L \subseteq OpenOnes
  BY LoginsCounted DEF OpenOnes
<1>2. OpenOnes' = OpenOnes \ L
  BY DEF OpenOnes
<1>3. EndedOnes' = EndedOnes \cup L
  BY DEF EndedOnes
<1>4. IssuedOnes' = IssuedOnes
  BY IssuedStays
<1> HIDE DEF L
<1> QED
  BY <1>1, <1>2, <1>3, <1>4, LifeSteps

\* One goroutine moves and nothing else; if it will issue a token, for a login
\* that is open.
LEMMA MoveEnds ==
    ASSUME GInv, NEW p, \A q \in Procs \ {p} : proc'[q] = proc[q],
           sessions' = sessions, tokens' = tokens, now' = now,
           p \in Issuing' => Open(proc'[p].login)
    PROVE  Grants!Next
<1>1. ASSUME NEW l \in DOMAIN sessions, Open(l)' PROVE Open(l)
  <2>1. CASE SessionLives(l)'
    BY <2>1 DEF SessionLives, Open
  <2>2. CASE \E t \in DOMAIN tokens' : tokens'[t].login = l /\ Usable(t)'
    BY <2>2 DEF Usable, Open
  <2>3. CASE \E q \in Issuing' : proc'[q].login = l
    BY <2>3 DEF Issuing, Open
  <2> QED
    BY <1>1, <2>1, <2>2, <2>3 DEF Open
<1> QED
  BY <1>1, Ends

\* Of actions that move one goroutine.
LEMMA RequestEnds ==
    ASSUME GInv, NEW p \in Procs,
           Request(p) \/ ResolveRole(p) \/ StoreFails(p) \/ Answer(p) \/ Gone(p)
    PROVE  Grants!Next
<1>1. TypeOK
  BY DEF GInv, IInv
<1>2. sessions' = sessions /\ tokens' = tokens /\ now' = now
  BY DEF Request, Exchange, ExchangeElsewhere, RefreshLoad, RevokeLoad, ResolveRole,
         StoreFails, Answer, Gone
<1>3. PICK w : Becomes(p, w) /\ (w.pc \in Holds => Open(w.login))
  <2>1. ASSUME NEW l \in DOMAIN sessions, NEW o \in Orgs, Exchange(p, l, o)
        PROVE  \E w : Becomes(p, w) /\ (w.pc \in Holds => Open(w.login))
    <3>1. Open(l)
      BY <2>1 DEF Exchange, Open
    <3>2. PICK w : w = Work("role", l, sessions[l].user, o, "tenant", 0)
      OBVIOUS
    <3>3. w.login = l
      BY <3>2 DEF Work
    <3> QED
      BY <2>1, <3>1, <3>2, <3>3 DEF Exchange
  <2>2. ASSUME NEW l \in DOMAIN sessions, NEW o \in Orgs, ExchangeElsewhere(p, l, o)
        PROVE  \E w : Becomes(p, w) /\ (w.pc \in Holds => Open(w.login))
    <3>1. PICK w : w = Work("drop", l, sessions[l].user, o, "tenant", 0)
      OBVIOUS
    <3>2. w.pc \notin Holds
      BY <3>1 DEF Work, Holds
    <3> QED
      BY <2>2, <3>1, <3>2 DEF ExchangeElsewhere
  <2>3. ASSUME NEW t \in DOMAIN tokens, RefreshLoad(p, t)
        PROVE  \E w : Becomes(p, w) /\ (w.pc \in Holds => Open(w.login))
    <3>1. Open(tokens[t].login)
      BY <2>3 DEF RefreshLoad, Found, Usable, Open
    <3>2. PICK w : w = Work("rotate", tokens[t].login, tokens[t].user, tokens[t].org, "tenant", t)
      OBVIOUS
    <3>3. w.login = tokens[t].login
      BY <3>2 DEF Work
    <3> QED
      BY <2>3, <3>1, <3>2, <3>3 DEF RefreshLoad
  <2>4. ASSUME NEW t \in DOMAIN tokens, RevokeLoad(p, t)
        PROVE  \E w : Becomes(p, w) /\ (w.pc \in Holds => Open(w.login))
    <3>1. PICK w : w = Work("revoke", tokens[t].login, tokens[t].user, tokens[t].org, "tenant", t)
      OBVIOUS
    <3>2. w.pc \notin Holds
      BY <3>1 DEF Work, Holds
    <3> QED
      BY <2>4, <3>1, <3>2 DEF RevokeLoad
  <2>5. ASSUME ResolveRole(p)
        PROVE  \E w : Becomes(p, w) /\ (w.pc \in Holds => Open(w.login))
    <3>1. Open(proc[p].login)
      BY <2>5 DEF ResolveRole, At, Issuing, Open
    <3>2. PICK role : Becomes(p, Work("store", proc[p].login, proc[p].user, proc[p].org,
                                      role, proc[p].row))
      BY <2>5 DEF ResolveRole
    <3>3. PICK w : w = Work("store", proc[p].login, proc[p].user, proc[p].org, role, proc[p].row)
      OBVIOUS
    <3>4. w.login = proc[p].login
      BY <3>3 DEF Work
    <3> QED
      BY <3>1, <3>2, <3>3, <3>4
  <2>6. ASSUME StoreFails(p)
        PROVE  \E w : Becomes(p, w) /\ (w.pc \in Holds => Open(w.login))
    <3>1. proc[p].pc = "store" /\ Finish(p, 0)
      BY <2>6 DEF StoreFails, At
    <3>2. PICK w : Becomes(p, w) /\ (w.pc = "answer" \/ w.pc = "drop")
      BY <1>1, <3>1, Finishes
    <3> QED
      BY <3>2 DEF Holds
  <2>7. ASSUME Answer(p) \/ Gone(p)
        PROVE  \E w : Becomes(p, w) /\ (w.pc \in Holds => Open(w.login))
    <3>1. Idle.pc = "idle"
      BY DEF Idle
    <3> QED
      BY <2>7, <3>1 DEF Answer, Gone, Holds
  <2> QED
    BY <2>1, <2>2, <2>3, <2>4, <2>5, <2>6, <2>7 DEF Request
<1>4. proc'[p] = w /\ \A q \in Procs \ {p} : proc'[q] = proc[q]
  BY <1>1, <1>3 DEF TypeOK, Becomes
<1>5. p \in Issuing' => Open(proc'[p].login)
  BY <1>3, <1>4 DEF Issuing, Holds
<1> QED
  BY <1>2, <1>4, <1>5, MoveEnds

\* A row is revoked, or not, and its goroutine goes on for the same login.
LEMMA RevokeEnds ==
    ASSUME GInv, NEW p \in Procs, RefreshRotate(p) \/ RevokeSave(p)
    PROVE  Grants!Next
<1>1. TypeOK /\ proc[p].row \in DOMAIN tokens
  BY DEF GInv, IInv, InFlight, Held, RefreshRotate, RevokeSave, At
<1>2. sessions' = sessions /\ now' = now /\ (Revoke(proc[p].row) \/ tokens' = tokens)
  BY DEF RefreshRotate, RevokeSave
<1>3. /\ DOMAIN tokens' = DOMAIN tokens
      /\ \A t \in DOMAIN tokens : tokens'[t].login = tokens[t].login
  BY <1>1, <1>2, Revokes
<1>4. \A t \in DOMAIN tokens : Usable(t)' => Usable(t)
  <2>1. PICK r : r = proc[p].row
    OBVIOUS
  <2>2. CASE tokens' = tokens
    BY <1>2, <2>2 DEF Usable
  <2>3. CASE Revoke(r)
    <3>1. PICK s : s = RevokedRow(tokens[r])
      OBVIOUS
    <3>2. s.revoked
      BY <3>1 DEF RevokedRow
    <3>3. tokens' = [tokens EXCEPT ![r] = s]
      BY <2>3, <3>1 DEF Revoke
    <3>4. tokens'[r] = s /\ \A t \in DOMAIN tokens : t # r => tokens'[t] = tokens[t]
      BY <1>1, <2>1, <3>3
    <3> QED
      BY <1>2, <3>2, <3>4 DEF Usable
  <2> QED
    BY <1>2, <2>1, <2>2, <2>3
<1>5. PICK w : Becomes(p, w) /\ (w.pc \in Holds => p \in Issuing /\ w.login = proc[p].login)
  <2>1. CASE RefreshRotate(p)
    <3>1. PICK w : w = Work("role", proc[p].login, proc[p].user, proc[p].org,
                            proc[p].role, proc[p].row)
      OBVIOUS
    <3>2. w.login = proc[p].login
      BY <3>1 DEF Work
    <3>3. p \in Issuing
      BY <2>1 DEF RefreshRotate, At, Issuing
    <3> QED
      BY <2>1, <3>1, <3>2, <3>3 DEF RefreshRotate, GoTo
  <2>2. CASE RevokeSave(p)
    BY <2>2 DEF RevokeSave, Answered, Holds
  <2> QED
    BY <2>1, <2>2
<1>6. proc'[p] = w /\ \A q \in Procs \ {p} : proc'[q] = proc[q]
  BY <1>1, <1>5 DEF TypeOK, Becomes
<1>7. ASSUME NEW l \in DOMAIN sessions, Open(l)' PROVE Open(l)
  <2>1. CASE SessionLives(l)'
    BY <1>2, <2>1 DEF SessionLives, Open
  <2>2. CASE \E t \in DOMAIN tokens' : tokens'[t].login = l /\ Usable(t)'
    BY <1>3, <1>4, <2>2 DEF Open
  <2>3. CASE \E q \in Issuing' : proc'[q].login = l
    BY <1>5, <1>6, <2>3 DEF Issuing, Open, Holds
  <2> QED
    BY <1>7, <2>1, <2>2, <2>3 DEF Open
<1> QED
  BY <1>2, <1>3, <1>7, Ends

\* A session is used up, or not.
LEMMA DropEnds ==
    ASSUME GInv, NEW p \in Procs, DropSession(p)
    PROVE  Grants!Next
<1>1. TypeOK /\ proc[p].login \in DOMAIN sessions
  BY DEF GInv, IInv, InFlight, Held, DropSession, At
<1>2. tokens' = tokens /\ now' = now /\ Becomes(p, Answered(proc[p].row))
  BY DEF DropSession
<1>3. Answered(proc[p].row).pc = "answer"
  BY DEF Answered
<1>4. proc'[p].pc = "answer" /\ \A q \in Procs \ {p} : proc'[q] = proc[q]
  BY <1>1, <1>2, <1>3 DEF TypeOK, Becomes
<1>5. /\ DOMAIN sessions' = DOMAIN sessions
      /\ \A l \in DOMAIN sessions : SessionLives(l)' => SessionLives(l)
  <2>1. PICK k : k = proc[p].login
    OBVIOUS
  <2>2. PICK s : s = Deleted(sessions[k])
    OBVIOUS
  <2>3. ~s.live
    BY <2>2 DEF Deleted, Session
  <2>4. sessions' = [sessions EXCEPT ![k] = s] \/ sessions' = sessions
    BY <2>1, <2>2 DEF DropSession
  <2>5. CASE sessions' = [sessions EXCEPT ![k] = s]
    <3>1. /\ DOMAIN sessions' = DOMAIN sessions /\ sessions'[k] = s
          /\ \A l \in DOMAIN sessions : l # k => sessions'[l] = sessions[l]
      BY <1>1, <2>1, <2>5
    <3> QED
      BY <1>2, <2>3, <3>1 DEF SessionLives
  <2> QED
    BY <1>2, <2>4, <2>5 DEF SessionLives
<1>6. ASSUME NEW l \in DOMAIN sessions, Open(l)' PROVE Open(l)
  <2>1. CASE SessionLives(l)'
    BY <1>5, <2>1 DEF Open
  <2>2. CASE \E t \in DOMAIN tokens' : tokens'[t].login = l /\ Usable(t)'
    BY <1>2, <2>2 DEF Usable, Open
  <2>3. CASE \E q \in Issuing' : proc'[q].login = l
    BY <1>4, <2>3 DEF Issuing, Open
  <2> QED
    BY <1>6, <2>1, <2>2, <2>3 DEF Open
<1> QED
  BY <1>2, <1>5, <1>6, Ends

LEMMA TimeEnds ==
    ASSUME GInv, Tick
    PROVE  Grants!Next
<1>1. sessions' = sessions /\ tokens' = tokens /\ proc' = proc /\ now' = now + 1 /\ now \in Nat
  BY DEF Tick, GInv, IInv, TypeOK
<1>2. \A l \in DOMAIN sessions : sessions[l].at \in Nat
  BY SessionTyped DEF GInv, IInv, SessionRow
<1>3. \A t \in DOMAIN tokens : tokens[t].at \in Nat
  BY TokenTyped DEF GInv, IInv, TokenRow
<1>4. \A l \in DOMAIN sessions : SessionLives(l)' => SessionLives(l)
  BY <1>1, <1>2, Lifetimes DEF SessionLives
<1>5. \A t \in DOMAIN tokens : Usable(t)' => Usable(t)
  BY <1>1, <1>3, Lifetimes DEF Usable
<1>6. \A l \in DOMAIN sessions : Open(l)' => Open(l)
  BY <1>1, <1>4, <1>5 DEF Open, Issuing
<1> QED
  BY <1>1, <1>6, Ends

-----------------------------------------------------------------------------
\* Where nothing of sessions, tokens, goroutines and the clock changes.
LEMMA NothingEnds ==
    ASSUME sessions' = sessions, tokens' = tokens, now' = now, proc' = proc
    PROVE  OpenOnes' = OpenOnes /\ EndedOnes' = EndedOnes /\ IssuedOnes' = IssuedOnes
<1>1. \A l : Open(l)' <=> Open(l)
  BY DEF Open, SessionLives, Usable, Issuing
<1>2. IssuedOnes' = IssuedOnes
  BY IssuedStays
<1> QED
  BY <1>1, <1>2 DEF OpenOnes, EndedOnes

\* A login is opened, and no other login changes.
LEMMA SignInOpens ==
    ASSUME GInv, NEW u \in Users, SignIn(u)
    PROVE  Grants!Next /\ Counted'
<1>0. TypeOK
  BY DEF GInv, IInv
<1>1. /\ tokens' = tokens /\ proc' = proc /\ now' = now
      /\ Len(sessions) < MaxLogins
  BY DEF SignIn
<1>2. PICK s : s = Session(u, AvailableOrgs(u), now, TRUE)
  OBVIOUS
<1>3. s.live /\ s.at = now
  BY <1>2 DEF Session
<1>4. sessions \in Seq(SessionRow) /\ now \in Nat
  BY <1>0 DEF TypeOK
<1>5. sessions' = Append(sessions, s)
  BY <1>2 DEF SignIn
<1>6. PICK l : l = Len(sessions) + 1
  OBVIOUS
<1>7. /\ DOMAIN sessions' = DOMAIN sessions \cup {l} /\ l \notin DOMAIN sessions
      /\ sessions'[l] = s
      /\ \A k \in DOMAIN sessions : sessions'[k] = sessions[k]
      /\ Len(sessions') = l
  <2>1. PICK S : S = SessionRow \cup {s}
    OBVIOUS
  <2>2. sessions \in Seq(S) /\ s \in S
    BY <1>4, <2>1
  <2> QED
    BY <1>5, <1>6, <2>2
<1>8. l \in 1 .. MaxLogins /\ Counted'
  BY <1>1, <1>4, <1>6, <1>7, LoginsBound DEF Counted
<1>9. Open(l)'
  BY <1>1, <1>3, <1>4, <1>7, Lifetimes DEF Open, SessionLives
<1>10. \A k \in DOMAIN sessions : Open(k)' <=> Open(k)
  BY <1>1, <1>7 DEF Open, SessionLives, Usable, Issuing
<1>11. l \notin OpenOnes \cup EndedOnes
  BY <1>7 DEF OpenOnes, EndedOnes
<1>12. OpenOnes' = OpenOnes \cup {l} /\ EndedOnes' = EndedOnes
  BY <1>7, <1>9, <1>10 DEF OpenOnes, EndedOnes
<1>13. IssuedOnes' = IssuedOnes
  BY <1>1, IssuedStays
<1>14. Grants!Next
  BY <1>8, <1>11, <1>12, <1>13, LifeSteps
<1> QED
  BY <1>8, <1>14

\* The set of the rows of a login is finite, and a row more is one more.
LEMMA OneMoreIssued ==
    ASSUME TypeOK, NEW n, n = Len(tokens) + 1, DOMAIN tokens' = DOMAIN tokens \cup {n},
           \A t \in DOMAIN tokens : tokens'[t] = tokens[t]
    PROVE  \A l : Issued(l)' = IF tokens'[n].login = l THEN Issued(l) + 1 ELSE Issued(l)
<1> SUFFICES ASSUME NEW l
             PROVE  Issued(l)' = IF tokens'[n].login = l THEN Issued(l) + 1 ELSE Issued(l)
  OBVIOUS
<1> DEFINE R == {t \in DOMAIN tokens : tokens[t].login = l}
           Q == {t \in DOMAIN tokens' : tokens'[t].login = l}
<1>1. Len(tokens) \in Nat /\ DOMAIN tokens = 1 .. Len(tokens)
  BY DEF TypeOK
<1>2. IsFiniteSet(DOMAIN tokens)
  <2>1. IsFiniteSet(1 .. Len(tokens))
    <3>1. PICK k : k = Len(tokens)
      OBVIOUS
    <3>2. k \in Int /\ 1 \in Int
      BY <1>1, <3>1
    <3>3. IsFiniteSet(1 .. k)
      BY <3>2, FS_Interval
    <3> QED
      BY <3>1, <3>3
  <2> QED
    BY <1>1, <2>1
<1>3. IsFiniteSet(R)
  BY <1>2, FS_Subset
<1>4. n \notin R
  BY <1>1
<1>5. Issued(l) = Cardinality(R) /\ Issued(l)' = Cardinality(Q)
  BY DEF Issued
<1>6. CASE tokens'[n].login = l
  <2>1. Q = R \cup {n}
    BY <1>6
  <2> HIDE DEF R, Q
  <2>2. Cardinality(R \cup {n}) = Cardinality(R) + 1
    BY <1>3, <1>4, FS_AddElement
  <2> QED
    BY <1>5, <1>6, <2>1, <2>2
<1>7. CASE tokens'[n].login # l
  <2>1. Q = R
    BY <1>7
  <2> QED
    BY <1>5, <1>7, <2>1
<1> QED
  BY <1>6, <1>7

\* A token is issued for a login that was open and stays so: its goroutine had
\* it, and now the token does.
LEMMA StoreIssues ==
    ASSUME GInv, NEW p \in Procs, StoreToken(p)
    PROVE  Grants!Next
<1>0. TypeOK
  BY DEF GInv, IInv
<1>1. /\ proc[p].pc = "store" /\ sessions' = sessions /\ now' = now
      /\ Finish(p, Len(tokens) + 1)
  BY DEF StoreToken, At
<1>2. PICK l : l = proc[p].login
  OBVIOUS
<1>3. l \in DOMAIN sessions
  BY <1>1, <1>2 DEF GInv, IInv, InFlight, Held, Holds, FromLogin
<1>4. tokens \in Seq(TokenRow) /\ Len(tokens) \in Nat /\ now \in Nat
  BY <1>0 DEF TypeOK
<1>5. PICK w : Becomes(p, w) /\ (w.pc = "answer" \/ w.pc = "drop")
  <2>1. Len(tokens) + 1 \in Nat
    BY <1>4
  <2> QED
    BY <1>0, <1>1, <2>1, Finishes
<1>6. proc'[p] = w /\ \A q \in Procs \ {p} : proc'[q] = proc[q]
  BY <1>0, <1>5 DEF TypeOK, Becomes
<1>7. PICK n : n = Len(tokens) + 1
  OBVIOUS
<1>8. PICK r : r = NewToken(p)
  OBVIOUS
<1>9. r.login = l /\ r.at = now /\ ~r.revoked
  BY <1>2, <1>8 DEF NewToken
<1>10. /\ DOMAIN tokens' = DOMAIN tokens \cup {n}
       /\ tokens'[n] = r
       /\ \A t \in DOMAIN tokens : tokens'[t] = tokens[t]
  <2>1. tokens' = Append(tokens, r)
    BY <1>8 DEF StoreToken
  <2>2. PICK S : S = TokenRow \cup {r}
    OBVIOUS
  <2>3. tokens \in Seq(S) /\ r \in S
    BY <1>4, <2>2
  <2> QED
    BY <1>7, <2>1, <2>3
<1>11. Open(l)
  BY <1>1, <1>2 DEF Open, Issuing
<1>12. Open(l)'
  BY <1>1, <1>4, <1>9, <1>10, Lifetimes DEF Open, Usable
<1>13. \A k \in DOMAIN sessions : k # l => (Open(k)' <=> Open(k))
  <2> SUFFICES ASSUME NEW k \in DOMAIN sessions, k # l
               PROVE  Open(k)' <=> Open(k)
    OBVIOUS
  <2>1. SessionLives(k)' <=> SessionLives(k)
    BY <1>1 DEF SessionLives
  <2>2. (\E t \in DOMAIN tokens' : tokens'[t].login = k /\ Usable(t)') <=>
           (\E t \in DOMAIN tokens : tokens[t].login = k /\ Usable(t))
    BY <1>1, <1>9, <1>10 DEF Usable
  <2>3. (\E q \in Issuing' : proc'[q].login = k) <=> (\E q \in Issuing : proc[q].login = k)
    BY <1>2, <1>5, <1>6 DEF Issuing
  <2> QED
    BY <2>1, <2>2, <2>3 DEF Open
<1>14. OpenOnes' = OpenOnes /\ EndedOnes' = EndedOnes /\ l \in OpenOnes
  BY <1>1, <1>3, <1>11, <1>12, <1>13 DEF OpenOnes, EndedOnes
<1>15. \A k : Issued(k)' = IF l = k THEN Issued(k) + 1 ELSE Issued(k)
  BY <1>0, <1>7, <1>9, <1>10, OneMoreIssued
<1>16. l \in 1 .. MaxLogins
  BY <1>3, LoginsCounted
<1>17. IssuedOnes' = [IssuedOnes EXCEPT ![l] = IssuedOnes[l] + 1]
  BY <1>15, <1>16 DEF IssuedOnes
<1> QED
  BY <1>14, <1>16, <1>17, LifeSteps

LEMMA GrantsStutter ==
    ASSUME OpenOnes' = OpenOnes, EndedOnes' = EndedOnes, IssuedOnes' = IssuedOnes
    PROVE  [Grants!Next]_(Grants!grants)
BY DEF Grants!grants, OpenOnes, EndedOnes, IssuedOnes

LEMMA GrantsInit ==
    ASSUME Init
    PROVE  Counted /\ Grants!Init
<1>1. sessions = <<>> /\ tokens = <<>>
  BY DEF Init
<1>2. Counted
  BY <1>1, LoginsBound DEF Counted
<1>3. \A l : Issued(l) = 0
  <2>1. \A l : {t \in DOMAIN tokens : tokens[t].login = l} = {}
    BY <1>1
  <2> QED
    BY <2>1, FS_EmptySet DEF Issued
<1> QED
  BY <1>1, <1>2, <1>3 DEF Grants!Init

LEMMA GrantsStep ==
    ASSUME GInv, [Next]_vars
    PROVE  Counted' /\ [Grants!Next]_(Grants!grants)
<1>1. CASE \E o \in Orgs, u \in Users : Join(o, u) \/ Leave(o, u)
  <2>1. sessions' = sessions /\ tokens' = tokens /\ now' = now /\ proc' = proc
    BY <1>1 DEF Join, Leave
  <2> QED
    BY <2>1, NothingEnds, GrantsStutter DEF GInv, Counted
<1>2. CASE \E u \in Users : SignIn(u)
  BY <1>2, SignInOpens
<1>3. CASE \E p \in Procs : Request(p) \/ Answer(p) \/ Gone(p)
  <2>1. PICK p \in Procs : Request(p) \/ Answer(p) \/ Gone(p)
    BY <1>3
  <2>2. Grants!Next
    BY <2>1, RequestEnds
  <2>3. sessions' = sessions
    BY <2>1 DEF Request, Exchange, ExchangeElsewhere, RefreshLoad, RevokeLoad, Answer, Gone
  <2> QED
    BY <2>2, <2>3 DEF GInv, Counted
<1>4. CASE \E p \in Procs : Continue(p)
  <2>1. PICK p \in Procs : Continue(p)
    BY <1>4
  <2>2. Grants!Next
    BY <2>1, RequestEnds, RevokeEnds, DropEnds, StoreIssues DEF Continue
  <2>3. Len(sessions') = Len(sessions)
    <3>1. CASE DropSession(p)
      <4>1. sessions \in Seq(SessionRow)
        BY DEF GInv, IInv, TypeOK
      <4>2. \E k, s : sessions' = [sessions EXCEPT ![k] = s] \/ sessions' = sessions
        BY <3>1 DEF DropSession
      <4> QED
        BY <4>1, <4>2
    <3>2. CASE ~DropSession(p)
      BY <2>1, <3>2 DEF Continue, RefreshRotate, RevokeSave, ResolveRole, StoreToken, StoreFails
    <3> QED
      BY <3>1, <3>2
  <2> QED
    BY <2>2, <2>3 DEF GInv, Counted
<1>5. CASE Tick
  <2>1. Grants!Next
    BY <1>5, TimeEnds
  <2> QED
    BY <1>5, <2>1 DEF GInv, Counted, Tick
<1>6. CASE UNCHANGED vars
  <2>1. sessions' = sessions /\ tokens' = tokens /\ now' = now /\ proc' = proc
    BY <1>6 DEF vars
  <2> QED
    BY <2>1, NothingEnds, GrantsStutter DEF GInv, Counted
<1> QED
  BY <1>1, <1>2, <1>3, <1>4, <1>5, <1>6 DEF Next

\* The token endpoints implement the life of a grant, for any number of users,
\* logins, tokens and requests in flight and whatever fails: once the session
\* is used up or expired, the tokens are revoked or expired, and no request
\* that found them valid is in flight, nobody gets a token on account of that
\* login any more (ExchangeLoginSession, RefreshToken, issueTokens).
THEOREM GrantsDoEnd == Spec => GrantsEnd
<1>1. Init => GInv /\ Grants!Init
  BY InvInit, GrantsInit DEF GInv
<1>2. GInv /\ [Next]_vars => GInv'
  BY InvStep, GrantsStep DEF GInv
<1>3. GInv /\ [Next]_vars => [Grants!Next]_(Grants!grants)
  BY GrantsStep
<1> QED
  BY <1>1, <1>2, <1>3, PTL DEF Spec, GrantsEnd, Grants!Spec
=============================================================================
