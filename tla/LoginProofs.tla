---------------------------- MODULE LoginProofs ----------------------------
(***************************************************************************)
(* Proofs about logins and the first setup, for any number of goroutines,  *)
(* accounts, passkeys, ceremonies and logins, whatever overlaps and fails. *)
(*                                                                         *)
(* What makes SessionsEarned inductive is what a goroutine holds of a      *)
(* ceremony and of a passkey (Sound), and that nothing takes it back:      *)
(* challenges are only marked, and a passkey keeps its owner and stays for *)
(* as long as there is one (Grows), the cleaning up of a setup included.   *)
(* What an undisturbed request relies on is in Undisturbed, and what a     *)
(* challenge can still lead to in Single.                                  *)
(***************************************************************************)
EXTENDS LoginInvariants, TLAPS

Setups == {"passkeys", "cleanBonds", "cleanUsers", "cleanOrgs", "create"}
Answers == {"identify", "validate", "count"}
Labels == Setups \cup Answers \cup {"register", "verify", "save", "offer", "session", "drop"}

WorkRow == [pc : Labels, ceremony : Nat, user : Nat, key : Keys \cup {0},
            count : 0 .. MaxCount, cred : Nat, name : Names \cup {NoName},
            alone : BOOLEAN]
LoginRow == [user : Nat, ceremony : Nat, cred : Nat]

\* Challenge c was for user u, or for whoever answers.
AskedOf(c, u) == c \in DOMAIN ceremonies /\ ceremonies[c].user \in {0, u}

\* Of a login, or of a goroutine that is about to store one.
Earned(s) ==
    /\ s.user \in DOMAIN users
    /\ s.ceremony # 0 =>
          /\ s.cred \in DOMAIN creds
          /\ creds[s.cred].user = s.user
          /\ AskedOf(s.ceremony, s.user)

Sound(w) ==
    /\ w.pc \in Answers => w.ceremony \in DOMAIN ceremonies
    /\ w.pc = "validate" => w.user = ceremonies[w.ceremony].user
    /\ w.pc = "count" =>
          /\ AskedOf(w.ceremony, w.user)
          /\ \E i \in ByKey(w.key) : creds[i].user = w.user
    /\ w.pc = "session" => Earned(w)
    /\ w.pc \in {"verify", "save"} => w.key \in Keys
    /\ w.pc \in Setups => w.name \in Names

Held(p) == proc[p] = Idle \/ (proc[p] \in WorkRow /\ Sound(proc[p]))

TablesOK ==
    /\ users \in Seq(UserRow) /\ creds \in Seq(CredRow) /\ orgs \in Seq(OrgRow)
    /\ ceremonies \in Seq(CeremonyRow)
    /\ \A i \in DOMAIN creds : creds[i].live => creds[i].user \in LiveUsers
    /\ \A i, j \in DOMAIN creds :
          i # j /\ creds[i].live /\ creds[j].live => creds[i].key # creds[j].key
    /\ \A o \in DOMAIN orgs : orgs[o].members \subseteq LiveUsers
    /\ \A u, v \in LiveUsers : u # v => users[u].name = NoName \/ users[u].name # users[v].name

LoginsOK == logins \in Seq(LoginRow) /\ \A l \in DOMAIN logins : Earned(logins[l])

LocalsOK == proc = [p \in Procs |-> proc[p]] /\ \A p \in Procs : Held(p)

IInv == TablesOK /\ LoginsOK /\ LocalsOK

-----------------------------------------------------------------------------
(***************************************************************************)
(* Sequences.                                                              *)
(***************************************************************************)
LEMMA IsSeq ==
    ASSUME NEW S, NEW s, DOMAIN s = 1 .. Len(s), Len(s) \in Nat,
           s = [i \in DOMAIN s |-> s[i]], \A i \in DOMAIN s : s[i] \in S
    PROVE  s \in Seq(S)
OBVIOUS

LEMMA SeqFacts ==
    ASSUME NEW S, NEW s \in Seq(S)
    PROVE  /\ Len(s) \in Nat /\ DOMAIN s = 1 .. Len(s)
           /\ \A i \in DOMAIN s : s[i] \in S
OBVIOUS

LEMMA Appended ==
    ASSUME NEW S, NEW s \in Seq(S), NEW e \in S
    PROVE  /\ Append(s, e) \in Seq(S)
           /\ DOMAIN Append(s, e) = DOMAIN s \cup {Len(s) + 1}
           /\ Append(s, e)[Len(s) + 1] = e
           /\ \A i \in DOMAIN s : Append(s, e)[i] = s[i] /\ i # Len(s) + 1
OBVIOUS

\* One row is replaced, or each by one of its own.
LEMMA Replaced ==
    ASSUME NEW S, NEW s \in Seq(S), NEW i \in DOMAIN s, NEW e \in S
    PROVE  /\ [s EXCEPT ![i] = e] \in Seq(S)
           /\ DOMAIN [s EXCEPT ![i] = e] = DOMAIN s
           /\ [s EXCEPT ![i] = e][i] = e
           /\ \A j \in DOMAIN s : j # i => [s EXCEPT ![i] = e][j] = s[j]
OBVIOUS

LEMMA Rewritten ==
    ASSUME NEW S, NEW s \in Seq(S), NEW t, t = [i \in DOMAIN s |-> t[i]],
           \A i \in DOMAIN s : t[i] \in S
    PROVE  t \in Seq(S) /\ DOMAIN t = DOMAIN s
<1>1. Len(s) \in Nat /\ DOMAIN s = 1 .. Len(s)
  OBVIOUS
<1>2. t \in [1 .. Len(s) -> S]
  BY <1>1
<1>3. t \in Seq(S)
  BY <1>1, <1>2
<1> QED
  BY <1>3

-----------------------------------------------------------------------------
(***************************************************************************)
(* What no step takes back.                                                *)
(***************************************************************************)
Grows ==
    /\ DOMAIN users \subseteq DOMAIN users'
    /\ DOMAIN creds \subseteq DOMAIN creds'
    /\ \A i \in DOMAIN creds : /\ creds'[i].user = creds[i].user
                               /\ creds'[i].key = creds[i].key
                               /\ creds[i].live => creds'[i].live
    /\ DOMAIN ceremonies \subseteq DOMAIN ceremonies'
    /\ \A c \in DOMAIN ceremonies : ceremonies'[c].user = ceremonies[c].user

LEMMA EarnedStays ==
    ASSUME Grows, NEW s, Earned(s)
    PROVE  Earned(s)'
BY DEF Grows, Earned, AskedOf

LEMMA SoundStays ==
    ASSUME Grows, NEW w, Sound(w)
    PROVE  Sound(w)'
<1>1. w.pc = "session" => Earned(w)'
  BY EarnedStays DEF Sound
<1>2. w.pc = "count" => \E i \in ByKey(w.key)' : creds'[i].user = w.user
  BY DEF Sound, Grows, ByKey
<1> QED
  BY <1>1, <1>2 DEF Sound, Grows, AskedOf, Answers

\* What Sound says, it says of all fields but one.
LEMMA SoundApart ==
    ASSUME NEW w \in WorkRow, NEW b \in BOOLEAN
    PROVE  /\ [w EXCEPT !.alone = b] \in WorkRow
           /\ Sound(w) => Sound([w EXCEPT !.alone = b])
<1> DEFINE v == [w EXCEPT !.alone = b]
<1>1. /\ v \in WorkRow
      /\ v.pc = w.pc /\ v.ceremony = w.ceremony /\ v.user = w.user /\ v.key = w.key
      /\ v.cred = w.cred /\ v.name = w.name
  BY DEF WorkRow
<1>2. Sound(w) => Sound(v)
  <2> HIDE DEF v
  <2> QED
    BY <1>1 DEF Sound, Earned
<1> QED
  BY <1>1, <1>2

LEMMA IdleIsNoWork == Idle.pc = "idle" /\ \A w \in WorkRow : w.pc # "idle"
BY DEF Idle, WorkRow, Labels, Setups, Answers

LEMMA LocalsStay ==
    ASSUME LocalsOK, Grows, proc' = [q \in Procs |-> proc'[q]],
           \A q \in Procs : proc'[q] = proc[q] \/ proc'[q] = Disturbed(q) \/ Held(q)'
    PROVE  LocalsOK'
<1> SUFFICES ASSUME NEW q \in Procs PROVE Held(q)'
  BY DEF LocalsOK
<1>1. PICK w : w = proc[q]
  OBVIOUS
<1>2. w = Idle \/ (w \in WorkRow /\ Sound(w))
  BY <1>1 DEF LocalsOK, Held
<1>3. w = Idle \/ (w \in WorkRow /\ Sound(w)')
  BY <1>2, SoundStays
<1>4. CASE proc'[q] = proc[q]
  BY <1>1, <1>3, <1>4 DEF Held
<1>5. CASE proc'[q] = Disturbed(q)
  <2>1. CASE w = Idle
    BY <1>1, <1>5, <2>1, IdleIsNoWork DEF Disturbed, At, Held
  <2>2. CASE w \in WorkRow /\ Sound(w)'
    <3>1. PICK v : v = [w EXCEPT !.alone = FALSE]
      OBVIOUS
    <3>2. proc'[q] = v
      BY <1>1, <1>5, <2>2, <3>1, IdleIsNoWork DEF Disturbed, At
    <3>3. v \in WorkRow /\ Sound(v)'
      <4>1. v \in WorkRow /\ (Sound(w) => Sound(v))
        BY <2>2, <3>1, SoundApart
      <4>2. Sound(w)
        BY <1>2, <2>2, IdleIsNoWork
      <4> QED
        BY <4>1, <4>2, SoundStays
    <3> QED
      BY <3>2, <3>3 DEF Held
  <2> QED
    BY <1>3, <2>1, <2>2
<1> QED
  BY <1>4, <1>5

\* A goroutine that begins, and one that goes on.
LEMMA Begins ==
    ASSUME LocalsOK, Grows, NEW p \in Procs, NEW w \in WorkRow, Starts(p, w), Sound(w)'
    PROVE  LocalsOK'
<1>1. PICK b \in BOOLEAN : b = (w.alone /\ Busy = {})
  OBVIOUS
<1>0. PICK v : v = [w EXCEPT !.alone = b]
  OBVIOUS
<1>2. v \in WorkRow /\ Sound(v)'
  <2>3. /\ v \in WorkRow
        /\ v.pc = w.pc /\ v.ceremony = w.ceremony /\ v.user = w.user /\ v.key = w.key
        /\ v.cred = w.cred /\ v.name = w.name
    BY <1>0 DEF WorkRow
  <2> QED
    BY <2>3 DEF Sound, Earned
<1>3. proc' = [q \in Procs |-> IF q = p THEN v ELSE Disturbed(q)]
  BY <1>0, <1>1 DEF Starts
<1>4. proc'[p] = v /\ \A q \in Procs \ {p} : proc'[q] = Disturbed(q)
  BY <1>3
<1>5. Held(p)'
  BY <1>2, <1>4 DEF Held
<1>6. proc' = [q \in Procs |-> proc'[q]]
  BY <1>3
<1> QED
  BY <1>4, <1>5, <1>6, LocalsStay

LEMMA GoesOn ==
    ASSUME LocalsOK, Grows, NEW p \in Procs, NEW w,
           w = Idle \/ (w \in WorkRow /\ Sound(w)'), proc' = [proc EXCEPT ![p] = w]
    PROVE  LocalsOK'
<1>1. proc = [q \in Procs |-> proc[q]]
  BY DEF LocalsOK
<1>2. proc' = [q \in Procs |-> IF q = p THEN w ELSE proc[q]]
  BY <1>1
<1>3. proc'[p] = w /\ \A q \in Procs \ {p} : proc'[q] = proc[q]
  BY <1>2
<1>4. Held(p)'
  BY <1>3 DEF Held
<1>5. proc' = [q \in Procs |-> proc'[q]]
  BY <1>2
<1> QED
  BY <1>3, <1>4, <1>5, LocalsStay

-----------------------------------------------------------------------------
(***************************************************************************)
(* What a goroutine is, and how it goes on.                                *)
(***************************************************************************)
LEMMA AtWork ==
    ASSUME LocalsOK, NEW p \in Procs, ~At(p, "idle")
    PROVE  proc[p] \in WorkRow /\ Sound(proc[p])
BY IdleIsNoWork DEF LocalsOK, Held, At

LEMMA WorkIs ==
    ASSUME NEW l \in Labels, NEW c \in Nat, NEW u \in Nat, NEW k \in Keys \cup {0},
           NEW n \in 0 .. MaxCount
    PROVE  /\ Work(l, c, u, k, n) \in WorkRow
           /\ Work(l, c, u, k, n).pc = l
           /\ Work(l, c, u, k, n).ceremony = c
           /\ Work(l, c, u, k, n).user = u
           /\ Work(l, c, u, k, n).key = k
           /\ Work(l, c, u, k, n).cred = 0
BY DEF Work, WorkRow

LEMMA Zeros == 0 \in Nat /\ 0 \in Keys \cup {0} /\ 0 \in 0 .. MaxCount
BY CountsAssumption

LEMMA Ended ==
    ASSUME LocalsOK, Grows, NEW p \in Procs, Ends(p)
    PROVE  LocalsOK'
BY GoesOn DEF Ends

LEMMA Closed ==
    ASSUME LocalsOK, Grows, NEW p \in Procs, ~At(p, "idle"), Closes(p)
    PROVE  LocalsOK'
<1>1. CASE proc[p].ceremony = 0
  BY <1>1, Ended DEF Closes
<1>2. CASE proc[p].ceremony # 0
  <2>1. PICK c : c = proc[p].ceremony
    OBVIOUS
  <2>2. c \in Nat
    BY <2>1, AtWork DEF WorkRow
  <2>3. PICK w : w = Work("drop", c, 0, 0, 0)
    OBVIOUS
  <2>4. w \in WorkRow /\ w.pc = "drop"
    <3>1. "drop" \in Labels
      BY DEF Labels
    <3> QED
      BY <2>2, <2>3, <3>1, Zeros, WorkIs
  <2>5. PICK v : v = [w EXCEPT !.alone = FALSE]
    OBVIOUS
  <2>6. v \in WorkRow /\ v.pc = "drop"
    BY <2>4, <2>5 DEF WorkRow
  <2>7. Sound(v)'
    BY <2>6 DEF Sound, Answers, Setups
  <2>8. proc' = [proc EXCEPT ![p] = v]
    <3>1. proc' = [proc EXCEPT ![p] =
                      [Work("drop", proc[p].ceremony, 0, 0, 0) EXCEPT !.alone = FALSE]]
      BY <1>2 DEF Closes
    <3> QED
      BY <2>1, <2>3, <2>5, <3>1
  <2> QED
    BY <2>6, <2>7, <2>8, GoesOn
<1> QED
  BY <1>1, <1>2

\* With another label, and maybe not alone any more.
Moved(w, v, l) ==
    /\ v \in WorkRow /\ v.pc = l
    /\ v.ceremony = w.ceremony /\ v.user = w.user /\ v.key = w.key
    /\ v.cred = w.cred /\ v.name = w.name

LEMMA Goes1 ==
    ASSUME LocalsOK, NEW p \in Procs, NEW l \in Labels, ~At(p, "idle"), Goes(p, l)
    PROVE  \E v : Moved(proc[p], v, l) /\ proc' = [proc EXCEPT ![p] = v]
<1>1. PICK w : w = proc[p]
  OBVIOUS
<1>2. w \in WorkRow
  BY <1>1, AtWork
<1>3. PICK v : v = [w EXCEPT !.pc = l]
  OBVIOUS
<1>4. Moved(w, v, l)
  BY <1>2, <1>3 DEF WorkRow, Moved
<1>5. proc' = [proc EXCEPT ![p] = v]
  BY <1>1, <1>3, Zenon DEF Goes
<1> QED
  BY <1>1, <1>4, <1>5

LEMMA Fails1 ==
    ASSUME LocalsOK, NEW p \in Procs, NEW l \in Labels, ~At(p, "idle"), Fails(p, l)
    PROVE  \E v : Moved(proc[p], v, l) /\ proc' = [proc EXCEPT ![p] = v]
<1>1. PICK w : w = proc[p]
  OBVIOUS
<1>2. w \in WorkRow
  BY <1>1, AtWork
<1>3. PICK v : v = [w EXCEPT !.pc = l, !.alone = FALSE]
  OBVIOUS
<1>4. Moved(w, v, l)
  BY <1>2, <1>3 DEF WorkRow, Moved
<1>5. proc' = [proc EXCEPT ![p] = v]
  <2>1. proc = [q \in Procs |-> proc[q]]
    BY DEF LocalsOK
  <2>2. proc' = [proc EXCEPT ![p].pc = l, ![p].alone = FALSE]
    BY DEF Fails
  <2> QED
    BY <1>1, <1>3, <2>1, <2>2
<1> QED
  BY <1>1, <1>4, <1>5

\* A first setup goes on from one of its labels to another.
LEMMA SetupGoes ==
    ASSUME LocalsOK, Grows, NEW p \in Procs, NEW l \in Setups, proc[p].pc \in Setups,
           Goes(p, l) \/ Fails(p, l)
    PROVE  LocalsOK'
<1>1. ~At(p, "idle") /\ l \in Labels
  BY DEF At, Setups, Labels
<1>2. PICK v : Moved(proc[p], v, l) /\ proc' = [proc EXCEPT ![p] = v]
  BY <1>1, Goes1, Fails1
<1>3. v.name \in Names /\ v \in WorkRow /\ v.pc \in Setups
  BY <1>1, <1>2, AtWork DEF Moved, Sound
<1>4. Sound(v)'
  BY <1>3 DEF Sound, Setups, Answers
<1> QED
  BY <1>2, <1>3, <1>4, GoesOn

-----------------------------------------------------------------------------
(***************************************************************************)
(* What an account keeps that somebody can log in to.                      *)
(***************************************************************************)
Spares ==
    \A u \in LiveUsers :
       users[u].name # NoName \/ CredsOf(u) # {} =>
          /\ u \in LiveUsers'
          /\ users'[u].name = users[u].name
          /\ \A o \in DOMAIN orgs :
                orgs[o].live /\ u \in orgs[o].members
                   => orgs'[o].live /\ u \in orgs'[o].members

\* Only the ceremonies change.
LEMMA OnlyCeremonies ==
    ASSUME IInv, UNCHANGED accounts, ceremonies' \in Seq(CeremonyRow),
           DOMAIN ceremonies \subseteq DOMAIN ceremonies',
           \A c \in DOMAIN ceremonies : ceremonies'[c].user = ceremonies[c].user
    PROVE  Grows /\ TablesOK' /\ Spares
<1>1. users' = users /\ creds' = creds /\ orgs' = orgs
  BY DEF accounts
<1>2. Grows
  BY <1>1 DEF Grows
<1>3. TablesOK'
  BY <1>1 DEF IInv, TablesOK, LiveUsers
<1>4. Spares
  BY <1>1 DEF Spares, LiveUsers
<1> QED
  BY <1>2, <1>3, <1>4

LEMMA OnlyGoroutines ==
    ASSUME IInv, UNCHANGED accounts, UNCHANGED ceremonies
    PROVE  Grows /\ TablesOK' /\ Spares
BY OnlyCeremonies DEF IInv, TablesOK

LEMMA LoginsStay ==
    ASSUME IInv, Grows, UNCHANGED logins
    PROVE  LoginsOK'
BY EarnedStays DEF IInv, LoginsOK

LEMMA CeremonyStored ==
    ASSUME IInv, UNCHANGED accounts, NEW k \in {"register", "login"}, NEW u \in Nat,
           StoreCeremony(k, u)
    PROVE  Grows /\ TablesOK' /\ Spares
<1>1. ceremonies \in Seq(CeremonyRow)
  BY DEF IInv, TablesOK
<1>2. Ceremony(k, u) \in CeremonyRow
  BY DEF Ceremony, CeremonyRow
<1>3. ceremonies' = Append(ceremonies, Ceremony(k, u))
  BY DEF StoreCeremony
<1>4. /\ ceremonies' \in Seq(CeremonyRow)
      /\ DOMAIN ceremonies \subseteq DOMAIN ceremonies'
      /\ \A c \in DOMAIN ceremonies : ceremonies'[c] = ceremonies[c]
  BY <1>1, <1>2, <1>3, Appended
<1> QED
  BY <1>4, OnlyCeremonies

-----------------------------------------------------------------------------
(***************************************************************************)
(* Registration and login, one action after the other.                     *)
(***************************************************************************)
Good == IInv' /\ Grows /\ Spares

LEMMA InBounds ==
    ASSUME TablesOK
    PROVE  /\ \A u \in DOMAIN users : u \in Nat
           /\ \A i \in DOMAIN creds : creds[i].user \in Nat /\ creds[i].key \in Keys
                                      /\ creds[i].count \in 0 .. MaxCount
           /\ \A c \in DOMAIN ceremonies : c \in Nat \ {0} /\ ceremonies[c].user \in Nat
<1>1. /\ users \in Seq(UserRow) /\ creds \in Seq(CredRow)
      /\ ceremonies \in Seq(CeremonyRow)
  BY DEF TablesOK
<1>2. \A u \in DOMAIN users : u \in Nat
  BY <1>1
<1>3. \A i \in DOMAIN creds : creds[i] \in CredRow
  BY <1>1
<1>4. \A c \in DOMAIN ceremonies : c \in Nat \ {0} /\ ceremonies[c] \in CeremonyRow
  BY <1>1
<1> QED
  BY <1>2, <1>3, <1>4 DEF CredRow, CeremonyRow

LEMMA FinishRegistrationKeeps ==
    ASSUME IInv, NEW p \in Procs, NEW c \in DOMAIN ceremonies, NEW k \in Keys,
           FinishRegistration(p, c, k)
    PROVE  Good
<1>1. Grows /\ TablesOK' /\ Spares
  BY OnlyGoroutines DEF FinishRegistration, sessions
<1>2. LoginsOK'
  BY <1>1, LoginsStay DEF FinishRegistration, sessions
<1>3. PICK u : u = ceremonies[c].user
  OBVIOUS
<1>4. PICK w : w = Work("verify", c, u, k, 0)
  OBVIOUS
<1>5. /\ w \in WorkRow /\ w.pc = "verify" /\ w.key = k
  <2>1. "verify" \in Labels
    BY DEF Labels
  <2>2. c \in Nat /\ u \in Nat
    BY <1>3, InBounds DEF IInv
  <2> QED
    BY <1>4, <2>1, <2>2, Zeros, WorkIs
<1>6. Sound(w)'
  BY <1>5 DEF Sound, Answers, Setups
<1>7. Starts(p, w)
  BY <1>3, <1>4 DEF FinishRegistration
<1>8. LocalsOK'
  BY <1>1, <1>5, <1>6, <1>7, Begins DEF IInv
<1> QED
  BY <1>1, <1>2, <1>8 DEF Good, IInv

LEMMA RegistrationVerifyKeeps ==
    ASSUME IInv, NEW p \in Procs, RegistrationVerify(p)
    PROVE  Good
<1>1. Grows /\ TablesOK' /\ Spares
  BY OnlyGoroutines DEF RegistrationVerify, sessions
<1>2. LoginsOK'
  BY <1>1, LoginsStay DEF RegistrationVerify, sessions
<1>3. LocalsOK /\ ~At(p, "idle") /\ proc[p].pc = "verify"
  BY DEF IInv, RegistrationVerify, At
<1>4. ASSUME Goes(p, "save") PROVE LocalsOK'
  <2>1. "save" \in Labels
    BY DEF Labels
  <2>2. PICK v : Moved(proc[p], v, "save") /\ proc' = [proc EXCEPT ![p] = v]
    BY <1>3, <1>4, <2>1, Goes1
  <2>3. v \in WorkRow /\ v.pc = "save" /\ v.key \in Keys
    BY <1>3, <2>2, AtWork DEF Moved, Sound
  <2>4. Sound(v)'
    BY <2>3 DEF Sound, Answers, Setups
  <2> QED
    BY <1>1, <1>3, <2>2, <2>3, <2>4, GoesOn
<1>5. ASSUME Closes(p) PROVE LocalsOK'
  BY <1>1, <1>3, <1>5, Closed
<1>6. LocalsOK'
  BY <1>4, <1>5 DEF RegistrationVerify
<1> QED
  BY <1>1, <1>2, <1>6 DEF Good, IInv

LEMMA BeginLoginKeeps ==
    ASSUME IInv, NEW p \in Procs, NEW u, BeginLogin(p, u)
    PROVE  Good
<1>1. Grows /\ TablesOK' /\ Spares
  BY OnlyGoroutines DEF BeginLogin, sessions
<1>2. LoginsOK'
  BY <1>1, LoginsStay DEF BeginLogin, sessions
<1>3. PICK w : w = Work("offer", 0, u, 0, 0)
  OBVIOUS
<1>4. w \in WorkRow /\ w.pc = "offer"
  <2>1. "offer" \in Labels
    BY DEF Labels
  <2>2. u \in Nat
    BY InBounds DEF IInv, BeginLogin, LiveUsers
  <2> QED
    BY <1>3, <2>1, <2>2, Zeros, WorkIs
<1>5. Sound(w)'
  BY <1>4 DEF Sound, Answers, Setups
<1>6. Starts(p, w)
  BY <1>3 DEF BeginLogin
<1>7. LocalsOK'
  BY <1>1, <1>4, <1>5, <1>6, Begins DEF IInv
<1> QED
  BY <1>1, <1>2, <1>7 DEF Good, IInv

LEMMA PasswordLoginKeeps ==
    ASSUME IInv, NEW p \in Procs, NEW u, PasswordLogin(p, u)
    PROVE  Good
<1>1. Grows /\ TablesOK' /\ Spares
  BY OnlyGoroutines DEF PasswordLogin, sessions
<1>2. LoginsOK'
  BY <1>1, LoginsStay DEF PasswordLogin, sessions
<1>3. PICK w : w = Work("session", 0, u, 0, 0)
  OBVIOUS
<1>4. u \in DOMAIN users /\ u \in Nat
  BY InBounds DEF IInv, PasswordLogin, LiveUsers
<1>5. w \in WorkRow /\ w.pc = "session" /\ w.user = u /\ w.ceremony = 0
  <2>1. "session" \in Labels
    BY DEF Labels
  <2> QED
    BY <1>3, <1>4, <2>1, Zeros, WorkIs
<1>6. Earned(w)
  BY <1>4, <1>5 DEF Earned
<1>7. Sound(w)
  BY <1>5, <1>6 DEF Sound, Answers, Setups
<1>8. Starts(p, w)
  BY <1>3 DEF PasswordLogin
<1>9. LocalsOK'
  BY <1>1, <1>5, <1>7, <1>8, SoundStays, Begins DEF IInv
<1> QED
  BY <1>1, <1>2, <1>9 DEF Good, IInv

LEMMA RefusedKeeps ==
    ASSUME IInv, NEW p \in Procs, Refused(p)
    PROVE  Good
<1>1. Grows /\ TablesOK' /\ Spares
  BY OnlyGoroutines DEF Refused, sessions
<1>2. LoginsOK'
  BY <1>1, LoginsStay DEF Refused, sessions
<1>3. LocalsOK'
  BY <1>1, Closed DEF IInv, Refused
<1> QED
  BY <1>1, <1>2, <1>3 DEF Good, IInv

LEMMA RegistrationChallengeKeeps ==
    ASSUME IInv, NEW p \in Procs, RegistrationChallenge(p)
    PROVE  Good
<1>1. PICK u : u = proc[p].user
  OBVIOUS
<1>2. u \in Nat
  BY <1>1, AtWork DEF IInv, RegistrationChallenge, At, WorkRow
<1>3. StoreCeremony("register", u) /\ UNCHANGED accounts
  BY <1>1 DEF RegistrationChallenge
<1>4. Grows /\ TablesOK' /\ Spares
  BY <1>2, <1>3, CeremonyStored
<1>5. LoginsOK'
  BY <1>4, LoginsStay DEF RegistrationChallenge
<1>6. LocalsOK'
  BY <1>4, Ended DEF IInv, RegistrationChallenge
<1> QED
  BY <1>4, <1>5, <1>6 DEF Good, IInv

LEMMA LoginOfferKeeps ==
    ASSUME IInv, NEW p \in Procs, LoginOffer(p)
    PROVE  Good
<1>1. PICK u : u = proc[p].user
  OBVIOUS
<1>2. u \in Nat
  BY <1>1, AtWork DEF IInv, LoginOffer, At, WorkRow
<1>3. /\ StoreCeremony("login", u) \/ UNCHANGED ceremonies
      /\ UNCHANGED accounts
  BY <1>1 DEF LoginOffer
<1>4. Grows /\ TablesOK' /\ Spares
  BY <1>2, <1>3, CeremonyStored, OnlyGoroutines
<1>5. LoginsOK'
  BY <1>4, LoginsStay DEF LoginOffer
<1>6. LocalsOK'
  BY <1>4, Ended DEF IInv, LoginOffer
<1> QED
  BY <1>4, <1>5, <1>6 DEF Good, IInv

LEMMA BeginDiscoverableLoginKeeps ==
    ASSUME IInv, NEW p \in Procs, BeginDiscoverableLogin(p)
    PROVE  Good
<1>1. Grows /\ TablesOK' /\ Spares
  BY CeremonyStored DEF BeginDiscoverableLogin
<1>2. LoginsOK'
  BY <1>1, LoginsStay DEF BeginDiscoverableLogin
<1>3. proc' = [q \in Procs |-> Disturbed(q)]
  BY DEF BeginDiscoverableLogin
<1>4. LocalsOK'
  BY <1>1, <1>3, LocalsStay DEF IInv
<1> QED
  BY <1>1, <1>2, <1>4 DEF Good, IInv

\* A passkey is in one live row.
LEMMA OneRow ==
    ASSUME TablesOK, NEW k, NEW i \in ByKey(k)
    PROVE  /\ i \in DOMAIN creds /\ creds[i].live /\ creds[i].key = k
           /\ Min(ByKey(k)) = i
<1>1. i \in DOMAIN creds /\ creds[i].live /\ creds[i].key = k
  BY DEF ByKey
<1>2. \A j \in ByKey(k) : j = i
  BY <1>1 DEF TablesOK, ByKey
<1>3. i \in Nat
  BY <1>1 DEF TablesOK
<1>4. \A j \in ByKey(k) : i =< j
  BY <1>2, <1>3
<1> QED
  BY <1>1, <1>2, <1>4 DEF Min

LEMMA DeleteCeremonyKeeps ==
    ASSUME IInv, NEW p \in Procs, DeleteCeremony(p)
    PROVE  Good
<1>1. PICK c : c = proc[p].ceremony
  OBVIOUS
<1>2. ceremonies \in Seq(CeremonyRow)
  BY DEF IInv, TablesOK
<1>3. ceremonies' = [ceremonies EXCEPT ![c].live = FALSE]
  BY <1>1 DEF DeleteCeremony, Gone
<1>4. /\ ceremonies' \in Seq(CeremonyRow)
      /\ DOMAIN ceremonies' = DOMAIN ceremonies
      /\ \A d \in DOMAIN ceremonies : ceremonies'[d].user = ceremonies[d].user
  <2>1. CASE c \in DOMAIN ceremonies
    <3>1. PICK r : r = ceremonies[c]
      OBVIOUS
    <3>2. r \in CeremonyRow
      BY <1>2, <2>1, <3>1
    <3>3. PICK s : s = [r EXCEPT !.live = FALSE]
      OBVIOUS
    <3>4. s \in CeremonyRow /\ s.user = r.user
      BY <3>2, <3>3 DEF CeremonyRow
    <3>5. ceremonies' = [ceremonies EXCEPT ![c] = s]
      BY <1>3, <3>1, <3>3, Zenon
    <3>6. /\ ceremonies' \in Seq(CeremonyRow)
          /\ DOMAIN ceremonies' = DOMAIN ceremonies
          /\ ceremonies'[c] = s
          /\ \A d \in DOMAIN ceremonies : d # c => ceremonies'[d] = ceremonies[d]
      BY <1>2, <2>1, <3>4, <3>5, Replaced
    <3> QED
      BY <3>1, <3>4, <3>6
  <2>2. CASE c \notin DOMAIN ceremonies
    <3>1. ceremonies' = ceremonies
      BY <1>2, <1>3, <2>2
    <3> QED
      BY <1>2, <3>1
  <2> QED
    BY <2>1, <2>2
<1>5. Grows /\ TablesOK' /\ Spares
  BY <1>4, OnlyCeremonies DEF DeleteCeremony
<1>6. LoginsOK'
  BY <1>5, LoginsStay DEF DeleteCeremony
<1>7. LocalsOK'
  BY <1>5, Ended DEF IInv, DeleteCeremony
<1> QED
  BY <1>5, <1>6, <1>7 DEF Good, IInv

LEMMA FinishLoginKeeps ==
    ASSUME IInv, NEW p \in Procs, NEW c \in DOMAIN ceremonies, NEW i \in DOMAIN creds,
           NEW n \in 0 .. MaxCount, NEW h \in BOOLEAN, FinishLogin(p, c, i, n, h)
    PROVE  Good
<1>1. ceremonies \in Seq(CeremonyRow)
  BY DEF IInv, TablesOK
<1>2. PICK r : r = ceremonies[c]
  OBVIOUS
<1>3. PICK b \in BOOLEAN : b = (r.spoilt \/ \E q \in Busy : proc[q].ceremony = c)
  OBVIOUS
<1>4. r \in CeremonyRow
  BY <1>1, <1>2
<1>5. PICK s : s = [r EXCEPT !.spoilt = b]
  OBVIOUS
<1>6. s \in CeremonyRow /\ s.user = r.user
  BY <1>4, <1>5 DEF CeremonyRow
<1>7. ceremonies' = [ceremonies EXCEPT ![c] = s]
  <2>1. ceremonies' = [ceremonies EXCEPT ![c].spoilt =
                          @ \/ \E q \in Busy : proc[q].ceremony = c]
    BY DEF FinishLogin, Shares
  <2> QED
    BY <1>2, <1>3, <1>5, <2>1, Zenon
<1>8. /\ ceremonies' \in Seq(CeremonyRow)
      /\ DOMAIN ceremonies' = DOMAIN ceremonies
      /\ ceremonies'[c] = s
      /\ \A d \in DOMAIN ceremonies : d # c => ceremonies'[d] = ceremonies[d]
  BY <1>1, <1>6, <1>7, Replaced
<1>9. Grows /\ TablesOK' /\ Spares
  <2>1. \A d \in DOMAIN ceremonies : ceremonies'[d].user = ceremonies[d].user
    BY <1>2, <1>6, <1>8
  <2> QED
    BY <1>8, <2>1, OnlyCeremonies DEF FinishLogin
<1>10. LoginsOK'
  BY <1>9, LoginsStay DEF FinishLogin
<1>11. PICK l : l = IF h THEN "identify" ELSE "validate"
  OBVIOUS
<1>12. PICK u : u = IF h THEN creds[i].user ELSE r.user
  OBVIOUS
<1>13. PICK k : k = creds[i].key
  OBVIOUS
<1>14. PICK w : w = Work(l, c, u, k, n)
  OBVIOUS
<1>15. w \in WorkRow /\ w.pc = l /\ w.ceremony = c /\ w.user = u
  <2>1. l \in Labels
    BY <1>11 DEF Labels, Answers
  <2>2. c \in Nat /\ u \in Nat /\ k \in Keys \cup {0}
    BY <1>2, <1>12, <1>13, InBounds DEF IInv
  <2> QED
    BY <1>14, <2>1, <2>2, WorkIs
<1>16. Sound(w)'
  BY <1>2, <1>6, <1>8, <1>11, <1>12, <1>15 DEF Sound, Answers, Setups
<1>17. Starts(p, w)
  BY <1>2, <1>11, <1>12, <1>13, <1>14 DEF FinishLogin
<1>18. LocalsOK'
  BY <1>9, <1>15, <1>16, <1>17, Begins DEF IInv
<1> QED
  BY <1>9, <1>10, <1>18 DEF Good, IInv

LEMMA LoginValidateKeeps ==
    ASSUME IInv, NEW p \in Procs, LoginValidate(p)
    PROVE  Good
<1>1. Grows /\ TablesOK' /\ Spares
  BY OnlyGoroutines DEF LoginValidate, sessions
<1>2. LoginsOK'
  BY <1>1, LoginsStay DEF LoginValidate, sessions
<1>3. LocalsOK /\ TablesOK /\ ~At(p, "idle") /\ proc[p].pc \in {"identify", "validate"}
  BY DEF IInv, LoginValidate, At
<1>4. PICK w : w = proc[p]
  OBVIOUS
<1>5. w \in WorkRow /\ Sound(w) /\ w.pc \in {"identify", "validate"}
  BY <1>3, <1>4, AtWork
<1>6. ASSUME Validates(w), (ceremonies[w.ceremony].user = 0) = (w.pc = "identify"),
             proc' = [proc EXCEPT ![p].pc = "count", ![p].count =
                         UpdatedCounter(creds[Min(ByKey(w.key))].count, w.count)]
      PROVE  LocalsOK'
  <2>1. PICK i : i \in ByKey(w.key) /\ creds[i].user = w.user
    BY <1>6 DEF Validates, CredsOf
  <2>2. i \in DOMAIN creds /\ Min(ByKey(w.key)) = i
    BY <1>3, <2>1, OneRow
  <2>3. PICK n : n = UpdatedCounter(creds[i].count, w.count)
    OBVIOUS
  <2>4. n \in 0 .. MaxCount
    BY <1>3, <1>5, <2>2, <2>3, InBounds DEF UpdatedCounter, WorkRow
  <2>5. PICK v : v = [w EXCEPT !.pc = "count", !.count = n]
    OBVIOUS
  <2>6. /\ v \in WorkRow /\ v.pc = "count" /\ v.ceremony = w.ceremony
        /\ v.user = w.user /\ v.key = w.key
    <3>1. "count" \in Labels
      BY DEF Labels, Answers
    <3> QED
      BY <1>5, <2>4, <2>5, <3>1 DEF WorkRow
  <2>7. proc' = [proc EXCEPT ![p] = v]
    <3>1. proc = [q \in Procs |-> proc[q]]
      BY <1>3 DEF LocalsOK
    <3>2. proc' = [proc EXCEPT ![p].pc = "count", ![p].count = n]
      BY <1>6, <2>2, <2>3
    <3> QED
      BY <1>4, <2>5, <3>1, <3>2
  <2>8. AskedOf(w.ceremony, w.user)
    BY <1>5, <1>6 DEF Sound, Answers, AskedOf
  <2>9. Sound(v)
    BY <2>1, <2>6, <2>8 DEF Sound, Answers, Setups, AskedOf
  <2> QED
    BY <1>1, <1>3, <2>6, <2>7, <2>9, SoundStays, GoesOn
<1>7. ASSUME Closes(p) PROVE LocalsOK'
  BY <1>1, <1>3, <1>7, Closed
<1>8. LocalsOK'
  BY <1>4, <1>6, <1>7 DEF LoginValidate, At
<1> QED
  BY <1>1, <1>2, <1>8 DEF Good, IInv

LEMMA StoreLoginKeeps ==
    ASSUME IInv, NEW p \in Procs, StoreLogin(p)
    PROVE  Good
<1>1. Grows /\ TablesOK' /\ Spares
  BY OnlyGoroutines DEF StoreLogin
<1>2. LocalsOK /\ ~At(p, "idle") /\ proc[p].pc = "session"
  BY DEF IInv, StoreLogin, At
<1>3. PICK w : w = proc[p]
  OBVIOUS
<1>4. w \in WorkRow /\ Earned(w)
  BY <1>2, <1>3, AtWork DEF Sound
<1>5. LoginsOK'
  <2>1. CASE w.ceremony = 0
    <3>1. UNCHANGED logins
      BY <1>3, <2>1 DEF StoreLogin
    <3> QED
      BY <1>1, <3>1, LoginsStay
  <2>2. CASE w.ceremony # 0
    <3>1. PICK s : s = LoginSession(w.user, w.ceremony, w.cred)
      OBVIOUS
    <3>2. s \in LoginRow /\ Earned(s)
      BY <1>4, <3>1 DEF LoginSession, LoginRow, WorkRow, Earned
    <3>3. logins' = Append(logins, s)
      BY <1>3, <2>2, <3>1 DEF StoreLogin
    <3>4. logins \in Seq(LoginRow) /\ \A l \in DOMAIN logins : Earned(logins[l])
      BY DEF IInv, LoginsOK
    <3>5. \A l \in DOMAIN logins : Earned(logins[l])'
      <4> SUFFICES ASSUME NEW l \in DOMAIN logins PROVE Earned(logins[l])'
        OBVIOUS
      <4>1. PICK t : t = logins[l]
        OBVIOUS
      <4>2. Earned(t)'
        BY <1>1, <3>4, <4>1, EarnedStays
      <4>3. logins'[l] = t
        BY <3>2, <3>3, <3>4, <4>1, Appended
      <4> QED
        BY <4>2, <4>3
    <3>6. Earned(s)'
      BY <1>1, <3>2, EarnedStays
    <3>7. /\ logins' \in Seq(LoginRow) /\ logins'[Len(logins) + 1] = s
          /\ DOMAIN logins' = DOMAIN logins \cup {Len(logins) + 1}
      BY <3>2, <3>3, <3>4, Appended
    <3> QED
      BY <3>5, <3>6, <3>7 DEF LoginsOK
  <2> QED
    BY <2>1, <2>2
<1>6. LocalsOK'
  BY <1>1, <1>2, Closed DEF StoreLogin
<1> QED
  BY <1>1, <1>5, <1>6 DEF Good, IInv

LEMMA StoppedKeeps ==
    ASSUME IInv, NEW p \in Procs, Stopped(p)
    PROVE  Good
<1>1. ceremonies \in Seq(CeremonyRow)
  BY DEF IInv, TablesOK
<1>2. PICK b : b = [c \in DOMAIN ceremonies |->
                       \/ ceremonies[c].spoilt
                       \/ c = proc[p].ceremony /\ ceremonies[c].kind = "login"]
  OBVIOUS
<1>3. /\ ceremonies' = [c \in DOMAIN ceremonies |-> ceremonies'[c]]
      /\ \A c \in DOMAIN ceremonies : ceremonies'[c] = [ceremonies[c] EXCEPT !.spoilt = b[c]]
  BY <1>2 DEF Stopped
<1>4. \A c \in DOMAIN ceremonies :
         ceremonies'[c] \in CeremonyRow /\ ceremonies'[c].user = ceremonies[c].user
  <2> SUFFICES ASSUME NEW c \in DOMAIN ceremonies
               PROVE  ceremonies'[c] \in CeremonyRow /\ ceremonies'[c].user = ceremonies[c].user
    OBVIOUS
  <2>1. PICK r : r = ceremonies[c]
    OBVIOUS
  <2>2. r \in CeremonyRow
    BY <1>1, <2>1
  <2>3. PICK x \in BOOLEAN : x = b[c]
    BY <1>2, <2>1, <2>2 DEF CeremonyRow
  <2>4. PICK s : s = [r EXCEPT !.spoilt = x]
    OBVIOUS
  <2>5. s \in CeremonyRow /\ s.user = r.user
    BY <2>2, <2>4 DEF CeremonyRow
  <2>6. ceremonies'[c] = s
    BY <1>3, <2>1, <2>3, <2>4
  <2> QED
    BY <2>1, <2>5, <2>6
<1>5. ceremonies' \in Seq(CeremonyRow) /\ DOMAIN ceremonies' = DOMAIN ceremonies
  BY <1>1, <1>3, <1>4, Rewritten
<1>6. Grows /\ TablesOK' /\ Spares
  BY <1>4, <1>5, OnlyCeremonies DEF Stopped
<1>7. LoginsOK'
  BY <1>6, LoginsStay DEF Stopped
<1>8. LocalsOK'
  BY <1>6, Ended DEF IInv, Stopped
<1> QED
  BY <1>6, <1>7, <1>8 DEF Good, IInv

\* An account is added.
LEMMA UserAdded ==
    ASSUME IInv, NEW n \in Names \cup {NoName}, users' = Append(users, User(n)),
           n = NoName \/ \A u \in LiveUsers : users[u].name # n,
           creds' = creds, ceremonies' = ceremonies
    PROVE  /\ Grows
           /\ LiveUsers' = LiveUsers \cup {Len(users) + 1}
           /\ \A u \in DOMAIN users : users'[u] = users[u]
           /\ orgs' \in Seq(OrgRow)
                 /\ (\A o \in DOMAIN orgs' : orgs'[o].members \subseteq LiveUsers')
                => TablesOK'
<1>1. users \in Seq(UserRow)
  BY DEF IInv, TablesOK
<1>2. PICK r : r = User(n)
  OBVIOUS
<1>3. r \in UserRow /\ r.name = n /\ r.live
  BY <1>2 DEF User, UserRow
<1>4. /\ users' \in Seq(UserRow)
      /\ DOMAIN users' = DOMAIN users \cup {Len(users) + 1}
      /\ users'[Len(users) + 1] = r
      /\ \A u \in DOMAIN users : users'[u] = users[u] /\ u # Len(users) + 1
  BY <1>1, <1>2, <1>3, Appended
<1>5. Grows
  BY <1>4 DEF Grows
<1>6. LiveUsers' = LiveUsers \cup {Len(users) + 1}
  BY <1>3, <1>4 DEF LiveUsers
<1>7. \A u, v \in LiveUsers' :
         u # v => users'[u].name = NoName \/ users'[u].name # users'[v].name
  <2>1. \A u \in LiveUsers : u \in DOMAIN users /\ u # Len(users) + 1
    BY <1>4 DEF LiveUsers
  <2> QED
    BY <1>3, <1>4, <1>6, <2>1 DEF IInv, TablesOK
<1>8. \A i \in DOMAIN creds : creds[i].live => creds[i].user \in LiveUsers'
  BY <1>6 DEF IInv, TablesOK
<1>9. ASSUME orgs' \in Seq(OrgRow), \A o \in DOMAIN orgs' : orgs'[o].members \subseteq LiveUsers'
      PROVE  TablesOK'
  BY <1>4, <1>7, <1>8, <1>9 DEF IInv, TablesOK
<1> QED
  BY <1>4, <1>5, <1>6, <1>9

LEMMA BeginRegistrationKeeps ==
    ASSUME IInv, NEW p \in Procs, NEW u \in Nat, BeginRegistration(p, u)
    PROVE  Good
<1>1. creds' = creds /\ orgs' = orgs /\ ceremonies' = ceremonies /\ logins' = logins
  BY DEF BeginRegistration, sessions
<1>2. Grows /\ TablesOK' /\ Spares
  <2>1. CASE UNCHANGED users
    BY <1>1, <2>1, OnlyGoroutines DEF accounts
  <2>2. CASE users' = Append(users, User(NoName))
    <3>1. /\ Grows /\ LiveUsers' = LiveUsers \cup {Len(users) + 1}
          /\ \A v \in DOMAIN users : users'[v] = users[v]
          /\ orgs' \in Seq(OrgRow)
                /\ (\A o \in DOMAIN orgs' : orgs'[o].members \subseteq LiveUsers')
                => TablesOK'
      BY <1>1, <2>2, UserAdded
    <3>2. TablesOK'
      BY <1>1, <3>1 DEF IInv, TablesOK
    <3>3. Spares
      BY <1>1, <3>1 DEF Spares, LiveUsers
    <3> QED
      BY <3>1, <3>2, <3>3
  <2> QED
    BY <2>1, <2>2 DEF BeginRegistration
<1>3. LoginsOK'
  BY <1>1, <1>2, LoginsStay
<1>4. PICK w : w = Work("register", 0, u, 0, 0)
  OBVIOUS
<1>5. w \in WorkRow /\ w.pc = "register"
  <2>1. "register" \in Labels
    BY DEF Labels
  <2> QED
    BY <1>4, <2>1, Zeros, WorkIs
<1>6. Sound(w)'
  BY <1>5 DEF Sound, Answers, Setups
<1>7. Starts(p, w)
  BY <1>4 DEF BeginRegistration
<1>8. LocalsOK'
  BY <1>2, <1>5, <1>6, <1>7, Begins DEF IInv
<1> QED
  BY <1>2, <1>3, <1>8 DEF Good, IInv

LEMMA CreateCredentialKeeps ==
    ASSUME IInv, NEW p \in Procs, CreateCredential(p)
    PROVE  Good
<1>1. PICK w : w = proc[p]
  OBVIOUS
<1>2. ~At(p, "idle") /\ w.pc = "save"
  BY <1>1 DEF CreateCredential, At
<1>3. w \in WorkRow /\ w.key \in Keys
  BY <1>1, <1>2, AtWork DEF IInv, Sound
<1>4. PICK r : r = Cred(w.user, w.key, w.count)
  OBVIOUS
<1>5. r \in CredRow /\ r.user = w.user /\ r.key = w.key
  BY <1>3, <1>4 DEF Cred, CredRow, WorkRow
<1>6. /\ users' = users /\ orgs' = orgs /\ ceremonies' = ceremonies /\ logins' = logins
      /\ creds' = Append(creds, r)
      /\ ByKey(w.key) = {} /\ w.user \in LiveUsers
  BY <1>1, <1>4 DEF CreateCredential, sessions, Insertable
<1>7. creds \in Seq(CredRow)
  BY DEF IInv, TablesOK
<1>8. /\ creds' \in Seq(CredRow)
      /\ DOMAIN creds' = DOMAIN creds \cup {Len(creds) + 1}
      /\ creds'[Len(creds) + 1] = r
      /\ \A i \in DOMAIN creds : creds'[i] = creds[i] /\ i # Len(creds) + 1
  BY <1>5, <1>6, <1>7, Appended
<1>9. Grows
  BY <1>6, <1>8 DEF Grows
<1>10. TablesOK'
  <2>1. LiveUsers' = LiveUsers
    BY <1>6 DEF LiveUsers
  <2>2. \A i \in DOMAIN creds' : creds'[i].live => creds'[i].user \in LiveUsers'
    BY <1>5, <1>6, <1>8, <2>1 DEF IInv, TablesOK
  <2>3. \A i \in DOMAIN creds : creds[i].live => creds[i].key # w.key
    BY <1>6 DEF ByKey
  <2>4. \A i, j \in DOMAIN creds' :
           i # j /\ creds'[i].live /\ creds'[j].live => creds'[i].key # creds'[j].key
    BY <1>5, <1>8, <2>3 DEF IInv, TablesOK
  <2> QED
    BY <1>6, <1>8, <2>1, <2>2, <2>4 DEF IInv, TablesOK
<1>11. Spares
  BY <1>6 DEF Spares, LiveUsers
<1>12. LoginsOK'
  BY <1>6, <1>9, LoginsStay
<1>13. LocalsOK'
  BY <1>2, <1>9, Closed DEF IInv, CreateCredential
<1> QED
  BY <1>9, <1>10, <1>11, <1>12, <1>13 DEF Good, IInv

\* No two rows get the same passkey if none gets another one.
LEMMA KeysStay ==
    ASSUME TablesOK, DOMAIN creds' = DOMAIN creds,
           \A i \in DOMAIN creds : /\ creds'[i].key = creds[i].key
                                  /\ creds'[i].live = creds[i].live
    PROVE  \A i, j \in DOMAIN creds' :
              i # j /\ creds'[i].live /\ creds'[j].live => creds'[i].key # creds'[j].key
<1> SUFFICES ASSUME NEW i \in DOMAIN creds, NEW j \in DOMAIN creds,
                    i # j, creds'[i].live, creds'[j].live
             PROVE  creds'[i].key # creds'[j].key
  OBVIOUS
<1>1. creds[i].live /\ creds[j].live
  OBVIOUS
<1>2. creds[i].key # creds[j].key
  <2>1. \A k, l \in DOMAIN creds :
           k # l /\ creds[k].live /\ creds[l].live => creds[k].key # creds[l].key
    BY DEF TablesOK
  <2> QED
    BY <1>1, <2>1
<1> QED
  BY <1>2

LEMMA SaveCountKeeps ==
    ASSUME IInv, NEW p \in Procs, SaveCount(p)
    PROVE  Good
<1>1. PICK w : w = proc[p]
  OBVIOUS
<1>2. LocalsOK /\ TablesOK /\ ~At(p, "idle") /\ w.pc = "count"
  BY <1>1 DEF IInv, SaveCount, At
<1>3. w \in WorkRow /\ Sound(w)
  BY <1>1, <1>2, AtWork
<1>4. PICK i : i \in ByKey(w.key) /\ creds[i].user = w.user
  BY <1>2, <1>3 DEF Sound
<1>5. i \in DOMAIN creds /\ creds[i].live /\ Min(ByKey(w.key)) = i /\ i \in Nat
  BY <1>2, <1>4, OneRow DEF TablesOK
<1>6. /\ users' = users /\ orgs' = orgs /\ ceremonies' = ceremonies /\ logins' = logins
      /\ creds' = [creds EXCEPT ![i].count = w.count] \/ creds' = creds
      /\ proc' = [proc EXCEPT ![p].pc = "session", ![p].cred = i,
                              ![p].key = 0, ![p].count = 0]
  BY <1>1, <1>5 DEF SaveCount, sessions
<1>7. creds \in Seq(CredRow)
  BY <1>2 DEF TablesOK
<1>8. /\ creds' \in Seq(CredRow) /\ DOMAIN creds' = DOMAIN creds
      /\ \A j \in DOMAIN creds : /\ creds'[j].user = creds[j].user
                                 /\ creds'[j].key = creds[j].key
                                 /\ creds'[j].live = creds[j].live
  <2>1. CASE creds' = creds
    BY <1>7, <2>1
  <2>2. CASE creds' = [creds EXCEPT ![i].count = w.count]
    <3>1. PICK r : r = creds[i]
      OBVIOUS
    <3>2. r \in CredRow
      BY <1>5, <1>7, <3>1
    <3>3. PICK s : s = [r EXCEPT !.count = w.count]
      OBVIOUS
    <3>4. s \in CredRow /\ s.user = r.user /\ s.key = r.key /\ s.live = r.live
      BY <1>3, <3>2, <3>3 DEF CredRow, WorkRow
    <3>5. creds' = [creds EXCEPT ![i] = s]
      BY <2>2, <3>1, <3>3, Zenon
    <3>6. /\ creds' \in Seq(CredRow) /\ DOMAIN creds' = DOMAIN creds
          /\ creds'[i] = s
          /\ \A j \in DOMAIN creds : j # i => creds'[j] = creds[j]
      BY <1>5, <1>7, <3>4, <3>5, Replaced
    <3> QED
      BY <3>1, <3>4, <3>6
  <2> QED
    BY <1>6, <2>1, <2>2
<1>9. Grows
  BY <1>6, <1>8 DEF Grows
<1>10. LiveUsers' = LiveUsers
  BY <1>6 DEF LiveUsers
<1>11. TablesOK'
  <2>1. \A j \in DOMAIN creds' : creds'[j].live => creds'[j].user \in LiveUsers'
    BY <1>2, <1>8, <1>10 DEF TablesOK
  <2>2. \A j, k \in DOMAIN creds' :
           j # k /\ creds'[j].live /\ creds'[k].live => creds'[j].key # creds'[k].key
    BY <1>2, <1>8, KeysStay
  <2> QED
    BY <1>2, <1>6, <1>8, <1>10, <2>1, <2>2 DEF TablesOK
<1>12. Spares
  BY <1>6, <1>10 DEF Spares
<1>13. LoginsOK'
  BY <1>6, <1>9, LoginsStay
<1>14. PICK v : v = [w EXCEPT !.pc = "session", !.cred = i, !.key = 0, !.count = 0]
  OBVIOUS
<1>15. /\ v \in WorkRow /\ v.pc = "session" /\ v.cred = i
       /\ v.user = w.user /\ v.ceremony = w.ceremony
  <2>1. "session" \in Labels
    BY DEF Labels
  <2> QED
    BY <1>3, <1>5, <1>14, <2>1, Zeros DEF WorkRow
<1>16. Earned(v)
  <2>1. w.user \in DOMAIN users
    BY <1>2, <1>4, <1>5 DEF TablesOK, LiveUsers
  <2> QED
    BY <1>2, <1>3, <1>4, <1>5, <1>15, <2>1 DEF Earned, Sound
<1>17. Sound(v)
  BY <1>15, <1>16 DEF Sound, Answers, Setups
<1>18. proc' = [proc EXCEPT ![p] = v]
  <2>1. proc = [q \in Procs |-> proc[q]]
    BY <1>2 DEF LocalsOK
  <2> QED
    BY <1>1, <1>6, <1>14, <2>1
<1>19. LocalsOK'
  BY <1>2, <1>9, <1>15, <1>17, <1>18, SoundStays, GoesOn
<1> QED
  BY <1>9, <1>11, <1>12, <1>13, <1>19 DEF Good, IInv

-----------------------------------------------------------------------------
(***************************************************************************)
(* The first setup.                                                        *)
(***************************************************************************)
LEMMA SetupKeeps ==
    ASSUME IInv, NEW p \in Procs, NEW n \in Names, Setup(p, n)
    PROVE  Good
<1>1. Grows /\ TablesOK' /\ Spares
  BY OnlyGoroutines DEF Setup, sessions
<1>2. LoginsOK'
  BY <1>1, LoginsStay DEF Setup, sessions
<1>3. PICK w0 : w0 = Work("passkeys", 0, 0, 0, 0)
  OBVIOUS
<1>4. w0 \in WorkRow /\ w0.pc = "passkeys"
  <2>1. "passkeys" \in Labels
    BY DEF Labels, Setups
  <2> QED
    BY <1>3, <2>1, Zeros, WorkIs
<1>10. PICK b \in BOOLEAN : b = NoPasswords
  BY DEF NoPasswords
<1>5. PICK w : w = [w0 EXCEPT !.name = n, !.alone = b]
  OBVIOUS
<1>6. w \in WorkRow /\ w.pc = "passkeys" /\ w.name = n
  BY <1>4, <1>5 DEF WorkRow
<1>7. Sound(w)'
  BY <1>6 DEF Sound, Answers, Setups
<1>8. Starts(p, w)
  BY <1>3, <1>5, <1>10 DEF Setup
<1>9. LocalsOK'
  BY <1>1, <1>6, <1>7, <1>8, Begins DEF IInv
<1> QED
  BY <1>1, <1>2, <1>9 DEF Good, IInv

LEMMA SetupGuardKeeps ==
    ASSUME IInv, NEW p \in Procs, SetupGuard(p)
    PROVE  Good
<1>4. UNCHANGED <<accounts, sessions>>
  BY DEF SetupGuard, Fails
<1>1. Grows /\ TablesOK' /\ Spares
  BY <1>4, OnlyGoroutines DEF sessions
<1>2. LoginsOK'
  BY <1>1, <1>4, LoginsStay DEF sessions
<1>3. LocalsOK'
  <2>1. proc[p].pc \in Setups /\ "cleanBonds" \in Setups
    BY DEF SetupGuard, At, Setups
  <2> QED
    BY <1>1, <2>1, SetupGoes, Ended DEF IInv, SetupGuard
<1> QED
  BY <1>1, <1>2, <1>3 DEF Good, IInv

\* Who can log in is no orphan.
LEMMA NoOrphan ==
    ASSUME NEW u, users[u].name # NoName \/ CredsOf(u) # {}
    PROVE  u \notin Orphans
BY DEF Orphans, Orphaned

\* Memberships go, of orphans only; the accounts stay, or go with them.
LEMMA MembershipsGo ==
    ASSUME IInv, orgs' = Without(Orphans)
    PROVE  /\ orgs' \in Seq(OrgRow) /\ DOMAIN orgs' = DOMAIN orgs
           /\ \A o \in DOMAIN orgs : /\ orgs'[o].live = orgs[o].live
                                     /\ orgs'[o].members = orgs[o].members \ Orphans
<1>1. orgs \in Seq(OrgRow)
  BY DEF IInv, TablesOK
<1>2. PICK X : X = Orphans
  OBVIOUS
<1>3. /\ orgs' = [o \in DOMAIN orgs |-> orgs'[o]]
      /\ \A o \in DOMAIN orgs : orgs'[o] = [orgs[o] EXCEPT !.members = orgs[o].members \ X]
  BY <1>2 DEF Without
<1>4. \A o \in DOMAIN orgs : /\ orgs'[o] \in OrgRow
                             /\ orgs'[o].live = orgs[o].live
                             /\ orgs'[o].members = orgs[o].members \ X
  <2> SUFFICES ASSUME NEW o \in DOMAIN orgs
               PROVE  /\ orgs'[o] \in OrgRow
                      /\ orgs'[o].live = orgs[o].live
                      /\ orgs'[o].members = orgs[o].members \ X
    OBVIOUS
  <2>1. PICK r : r = orgs[o]
    OBVIOUS
  <2>2. r \in OrgRow
    BY <1>1, <2>1
  <2>3. PICK s : s = [r EXCEPT !.members = r.members \ X]
    OBVIOUS
  <2>4. s \in OrgRow /\ s.live = r.live /\ s.members = r.members \ X
    BY <2>2, <2>3 DEF OrgRow
  <2> QED
    BY <1>3, <2>1, <2>3, <2>4
<1> QED
  BY <1>1, <1>2, <1>3, <1>4, Rewritten

LEMMA CleanBondsKeeps ==
    ASSUME IInv, NEW p \in Procs, CleanBonds(p)
    PROVE  Good
<1>1. ceremonies' = ceremonies /\ logins' = logins /\ users' = users /\ creds' = creds
  BY DEF CleanBonds, sessions, Fails, accounts
<1>2. Grows /\ TablesOK' /\ Spares
  <2>1. CASE UNCHANGED accounts
    BY <1>1, <2>1, OnlyGoroutines
  <2>2. CASE orgs' = Without(Orphans)
    <3>1. /\ orgs' \in Seq(OrgRow) /\ DOMAIN orgs' = DOMAIN orgs
          /\ \A o \in DOMAIN orgs : /\ orgs'[o].live = orgs[o].live
                                    /\ orgs'[o].members = orgs[o].members \ Orphans
      BY <2>2, MembershipsGo
    <3>2. Grows
      BY <1>1 DEF Grows
    <3>3. LiveUsers' = LiveUsers
      BY <1>1 DEF LiveUsers
    <3>4. TablesOK'
      <4>1. \A o \in DOMAIN orgs' : orgs'[o].members \subseteq LiveUsers'
        BY <3>1, <3>3 DEF IInv, TablesOK
      <4> QED
        BY <1>1, <3>1, <3>3, <4>1 DEF IInv, TablesOK
    <3>5. Spares
      BY <1>1, <3>1, <3>3, NoOrphan DEF Spares
    <3> QED
      BY <3>2, <3>4, <3>5
  <2> QED
    BY <2>1, <2>2 DEF CleanBonds, Fails
<1>3. LoginsOK'
  BY <1>1, <1>2, LoginsStay
<1>4. LocalsOK'
  <2>1. proc[p].pc \in Setups /\ "cleanUsers" \in Setups
    BY DEF CleanBonds, At, Setups
  <2>2. Goes(p, "cleanUsers") \/ Fails(p, "cleanUsers")
    BY DEF CleanBonds
  <2> QED
    BY <1>2, <2>1, <2>2, SetupGoes DEF IInv
<1> QED
  BY <1>2, <1>3, <1>4 DEF Good, IInv

LEMMA OrphansGo ==
    ASSUME IInv, orgs' = Without(Orphans), ceremonies' = ceremonies,
           users' = [u \in DOMAIN users |-> [users[u] EXCEPT !.live = @ /\ u \notin Orphans]],
           creds' = [i \in DOMAIN creds |->
                        [creds[i] EXCEPT !.live = @ /\ creds[i].user \notin Orphans]]
    PROVE  Grows /\ TablesOK' /\ Spares
<1>1. /\ orgs' \in Seq(OrgRow) /\ DOMAIN orgs' = DOMAIN orgs
      /\ \A o \in DOMAIN orgs : /\ orgs'[o].live = orgs[o].live
                                /\ orgs'[o].members = orgs[o].members \ Orphans
  BY MembershipsGo
<1>2. users \in Seq(UserRow) /\ creds \in Seq(CredRow)
  BY DEF IInv, TablesOK
<1>3. PICK X : X = Orphans
  OBVIOUS
<1>4. \A u \in DOMAIN users : /\ users'[u] \in UserRow
                              /\ users'[u].name = users[u].name
                              /\ users'[u].live = (users[u].live /\ u \notin X)
  <2> SUFFICES ASSUME NEW u \in DOMAIN users
               PROVE  /\ users'[u] \in UserRow
                      /\ users'[u].name = users[u].name
                      /\ users'[u].live = (users[u].live /\ u \notin X)
    OBVIOUS
  <2>1. PICK r : r = users[u]
    OBVIOUS
  <2>2. r \in UserRow
    BY <1>2, <2>1
  <2>3. PICK b \in BOOLEAN : b = (r.live /\ u \notin X)
    OBVIOUS
  <2>4. PICK s : s = [r EXCEPT !.live = b]
    OBVIOUS
  <2>5. s \in UserRow /\ s.name = r.name /\ s.live = b
    BY <2>2, <2>4 DEF UserRow
  <2>6. users'[u] = s
    BY <1>3, <2>1, <2>3, <2>4
  <2> QED
    BY <2>1, <2>3, <2>5, <2>6
<1>5. users' \in Seq(UserRow) /\ DOMAIN users' = DOMAIN users
  <2>1. PICK t : t = users'
    OBVIOUS
  <2>2. t = [u \in DOMAIN users |-> t[u]]
    BY <2>1
  <2>3. \A u \in DOMAIN users : t[u] \in UserRow
    BY <1>4, <2>1
  <2>4. t \in Seq(UserRow) /\ DOMAIN t = DOMAIN users
    BY <1>2, <2>2, <2>3, Rewritten
  <2> QED
    BY <2>1, <2>4
<1>6. \A i \in DOMAIN creds : creds[i].live => creds[i].user \notin X
  BY <1>3 DEF Orphans, Orphaned, CredsOf
<1>7. \A i \in DOMAIN creds : /\ creds'[i] \in CredRow
                              /\ creds'[i].user = creds[i].user
                              /\ creds'[i].key = creds[i].key
                              /\ creds'[i].live = creds[i].live
  <2> SUFFICES ASSUME NEW i \in DOMAIN creds
               PROVE  /\ creds'[i] \in CredRow
                      /\ creds'[i].user = creds[i].user
                      /\ creds'[i].key = creds[i].key
                      /\ creds'[i].live = creds[i].live
    OBVIOUS
  <2>1. PICK r : r = creds[i]
    OBVIOUS
  <2>2. r \in CredRow
    BY <1>2, <2>1
  <2>3. PICK b \in BOOLEAN : b = (r.live /\ r.user \notin X)
    OBVIOUS
  <2>4. PICK s : s = [r EXCEPT !.live = b]
    OBVIOUS
  <2>5. s \in CredRow /\ s.user = r.user /\ s.key = r.key /\ s.live = b
    BY <2>2, <2>4 DEF CredRow
  <2>6. b = r.live
    BY <1>6, <2>1, <2>2, <2>3 DEF CredRow
  <2>7. creds'[i] = s
    BY <1>3, <2>1, <2>3, <2>4
  <2> QED
    BY <2>1, <2>5, <2>6, <2>7
<1>8. creds' \in Seq(CredRow) /\ DOMAIN creds' = DOMAIN creds
  <2>1. PICK t : t = creds'
    OBVIOUS
  <2>2. t = [i \in DOMAIN creds |-> t[i]]
    BY <2>1
  <2>3. \A i \in DOMAIN creds : t[i] \in CredRow
    BY <1>7, <2>1
  <2>4. t \in Seq(CredRow) /\ DOMAIN t = DOMAIN creds
    BY <1>2, <2>2, <2>3, Rewritten
  <2> QED
    BY <2>1, <2>4
<1>9. Grows
  BY <1>5, <1>7, <1>8 DEF Grows
<1>10. LiveUsers' = LiveUsers \ X
  BY <1>4, <1>5 DEF LiveUsers
<1>11. TablesOK'
  <2>1. \A i \in DOMAIN creds' : creds'[i].live => creds'[i].user \in LiveUsers'
    <3>1. \A i \in DOMAIN creds : creds[i].live => creds[i].user \in LiveUsers
      BY DEF IInv, TablesOK
    <3> SUFFICES ASSUME NEW i \in DOMAIN creds, creds'[i].live
                 PROVE  creds'[i].user \in LiveUsers'
      BY <1>8
    <3>2. creds[i].live /\ creds'[i].user = creds[i].user
      BY <1>7
    <3>3. creds[i].user \in LiveUsers /\ creds[i].user \notin X
      BY <1>6, <3>1, <3>2
    <3> QED
      BY <1>10, <3>2, <3>3
  <2>2. \A i, j \in DOMAIN creds' :
           i # j /\ creds'[i].live /\ creds'[j].live => creds'[i].key # creds'[j].key
    BY <1>7, <1>8, KeysStay DEF IInv
  <2>3. \A o \in DOMAIN orgs' : orgs'[o].members \subseteq LiveUsers'
    BY <1>1, <1>3, <1>10 DEF IInv, TablesOK
  <2>4. \A u, v \in LiveUsers' :
           u # v => users'[u].name = NoName \/ users'[u].name # users'[v].name
    <3>1. \A u, v \in LiveUsers :
             u # v => users[u].name = NoName \/ users[u].name # users[v].name
      BY DEF IInv, TablesOK
    <3>2. \A u \in LiveUsers' : u \in LiveUsers /\ u \in DOMAIN users
      BY <1>10 DEF LiveUsers
    <3>3. \A u \in LiveUsers' : users'[u].name = users[u].name
      BY <1>4, <3>2
    <3> SUFFICES ASSUME NEW u \in LiveUsers', NEW v \in LiveUsers', u # v
                 PROVE  users'[u].name = NoName \/ users'[u].name # users'[v].name
      OBVIOUS
    <3>4. users[u].name = NoName \/ users[u].name # users[v].name
      BY <3>1, <3>2
    <3> QED
      BY <3>3, <3>4
  <2> QED
    BY <1>1, <1>5, <1>8, <2>1, <2>2, <2>3, <2>4 DEF IInv, TablesOK
<1>12. Spares
  <2> SUFFICES ASSUME NEW u \in LiveUsers, users[u].name # NoName \/ CredsOf(u) # {}
               PROVE  /\ u \in LiveUsers'
                      /\ users'[u].name = users[u].name
                      /\ \A o \in DOMAIN orgs :
                            orgs[o].live /\ u \in orgs[o].members
                               => orgs'[o].live /\ u \in orgs'[o].members
    BY DEF Spares
  <2>1. u \notin X /\ u \in DOMAIN users
    BY <1>3, NoOrphan DEF LiveUsers
  <2>2. u \in LiveUsers'
    BY <1>10, <2>1
  <2>3. users'[u].name = users[u].name
    BY <1>4, <2>1
  <2>4. ASSUME NEW o \in DOMAIN orgs, orgs[o].live, u \in orgs[o].members
        PROVE  orgs'[o].live /\ u \in orgs'[o].members
    <3>1. orgs'[o].live = orgs[o].live /\ orgs'[o].members = orgs[o].members \ Orphans
      BY <1>1
    <3>2. u \notin Orphans
      BY <1>3, <2>1
    <3> QED
      BY <2>4, <3>1, <3>2
  <2> QED
    BY <2>2, <2>3, <2>4
<1> QED
  BY <1>9, <1>11, <1>12

LEMMA CleanUsersKeeps ==
    ASSUME IInv, NEW p \in Procs, CleanUsers(p)
    PROVE  Good
<1>1. ceremonies' = ceremonies /\ logins' = logins
  BY DEF CleanUsers, sessions
<1>2. Grows /\ TablesOK' /\ Spares
  BY <1>1, OrphansGo, OnlyGoroutines DEF CleanUsers, Fails
<1>3. LoginsOK'
  BY <1>1, <1>2, LoginsStay
<1>4. LocalsOK'
  <2>1. proc[p].pc \in Setups /\ "cleanOrgs" \in Setups
    BY DEF CleanUsers, At, Setups
  <2>2. Goes(p, "cleanOrgs") \/ Fails(p, "cleanOrgs")
    BY DEF CleanUsers
  <2> QED
    BY <1>2, <2>1, <2>2, SetupGoes DEF IInv
<1> QED
  BY <1>2, <1>3, <1>4 DEF Good, IInv


LEMMA CleanOrgsKeeps ==
    ASSUME IInv, NEW p \in Procs, CleanOrgs(p)
    PROVE  Good
<1>1. ceremonies' = ceremonies /\ logins' = logins /\ users' = users /\ creds' = creds
  BY DEF CleanOrgs, sessions, Fails, accounts
<1>2. LiveUsers' = LiveUsers
  BY <1>1 DEF LiveUsers
<1>3. ASSUME orgs' = [o \in DOMAIN orgs |->
                        [orgs[o] EXCEPT !.live = @ /\ (orgs[o].members # {} \/ ~orgs[o].new)]]
      PROVE  /\ orgs' \in Seq(OrgRow) /\ DOMAIN orgs' = DOMAIN orgs
             /\ \A o \in DOMAIN orgs : /\ orgs'[o].members = orgs[o].members
                                       /\ orgs[o].live /\ orgs[o].members # {} => orgs'[o].live
  <2>1. PICK t : t = orgs'
    OBVIOUS
  <2>2. orgs \in Seq(OrgRow)
    BY DEF IInv, TablesOK
  <2>3. \A o \in DOMAIN orgs :
           /\ t[o] \in OrgRow /\ t[o].members = orgs[o].members
           /\ orgs[o].live /\ orgs[o].members # {} => t[o].live
    <3> SUFFICES ASSUME NEW o \in DOMAIN orgs
                 PROVE  /\ t[o] \in OrgRow /\ t[o].members = orgs[o].members
                        /\ orgs[o].live /\ orgs[o].members # {} => t[o].live
      OBVIOUS
    <3>1. PICK r : r = orgs[o]
      OBVIOUS
    <3>2. r \in OrgRow
      BY <2>2, <3>1
    <3>3. PICK b \in BOOLEAN : b = (r.live /\ (r.members # {} \/ ~r.new))
      OBVIOUS
    <3>4. PICK s : s = [r EXCEPT !.live = b]
      OBVIOUS
    <3>5. s \in OrgRow /\ s.members = r.members /\ s.live = b
      BY <3>2, <3>4 DEF OrgRow
    <3>6. t[o] = s
      BY <1>3, <2>1, <3>1, <3>3, <3>4
    <3>7. r.live /\ r.members # {} => s.live
      BY <3>3, <3>5
    <3> QED
      BY <3>1, <3>5, <3>6, <3>7
  <2>4. t = [o \in DOMAIN orgs |-> t[o]]
    BY <1>3, <2>1
  <2>5. t \in Seq(OrgRow) /\ DOMAIN t = DOMAIN orgs
    BY <2>2, <2>3, <2>4, Rewritten
  <2> QED
    BY <2>1, <2>3, <2>5
<1>4. /\ orgs' \in Seq(OrgRow) /\ DOMAIN orgs' = DOMAIN orgs
      /\ \A o \in DOMAIN orgs : /\ orgs'[o].members = orgs[o].members
                                /\ orgs[o].live /\ orgs[o].members # {} => orgs'[o].live
  <2>1. CASE orgs' = orgs
    BY <2>1 DEF IInv, TablesOK
  <2> QED
    BY <1>3, <2>1 DEF CleanOrgs, Fails, accounts
<1>5. Grows
  BY <1>1 DEF Grows
<1>6. TablesOK'
  <2>1. \A o \in DOMAIN orgs' : orgs'[o].members \subseteq LiveUsers'
    BY <1>2, <1>4 DEF IInv, TablesOK
  <2> QED
    BY <1>1, <1>2, <1>4, <2>1 DEF IInv, TablesOK
<1>7. Spares
  <2>1. \A o \in DOMAIN orgs, u \in LiveUsers :
           orgs[o].live /\ u \in orgs[o].members => orgs'[o].live /\ u \in orgs'[o].members
    BY <1>4
  <2> QED
    BY <1>1, <1>2, <2>1 DEF Spares
<1>8. LoginsOK'
  BY <1>1, <1>5, LoginsStay
<1>9. LocalsOK'
  <2>1. proc[p].pc \in Setups /\ "create" \in Setups
    BY DEF CleanOrgs, At, Setups
  <2>2. Goes(p, "create") \/ Fails(p, "create")
    BY DEF CleanOrgs
  <2> QED
    BY <1>5, <2>1, <2>2, SetupGoes DEF IInv
<1> QED
  BY <1>5, <1>6, <1>7, <1>8, <1>9 DEF Good, IInv

LEMMA SetupCreateKeeps ==
    ASSUME IInv, NEW p \in Procs, SetupCreate(p)
    PROVE  Good
<1>1. PICK n : n = proc[p].name
  OBVIOUS
<1>2. n \in Names
  <2>1. ~At(p, "idle") /\ proc[p].pc \in Setups
    BY DEF SetupCreate, At, Setups
  <2> QED
    BY <1>1, <2>1, AtWork DEF IInv, Sound
<1>3. PICK e : e = Org({Len(users) + 1})
  OBVIOUS
<1>4. /\ creds' = creds /\ ceremonies' = ceremonies /\ logins' = logins
      /\ users' = Append(users, User(n))
      /\ orgs' = Append(orgs, e)
      /\ \A u \in LiveUsers : users[u].name # n
  BY <1>1, <1>3 DEF SetupCreate, sessions
<1>5. /\ Grows
      /\ LiveUsers' = LiveUsers \cup {Len(users) + 1}
      /\ \A u \in DOMAIN users : users'[u] = users[u]
      /\ orgs' \in Seq(OrgRow) /\ (\A o \in DOMAIN orgs' : orgs'[o].members \subseteq LiveUsers')
            => TablesOK'
  BY <1>2, <1>4, UserAdded
<1>6. e \in OrgRow /\ e.members = {Len(users) + 1}
  <2>1. Len(users) + 1 \in Nat
    BY DEF IInv, TablesOK
  <2> QED
    BY <1>3, <2>1 DEF Org, OrgRow
<1>7. orgs \in Seq(OrgRow) /\ \A o \in DOMAIN orgs : orgs[o].members \subseteq LiveUsers
  BY DEF IInv, TablesOK
<1>8. /\ orgs' \in Seq(OrgRow)
      /\ DOMAIN orgs' = DOMAIN orgs \cup {Len(orgs) + 1}
      /\ orgs'[Len(orgs) + 1] = e
      /\ \A o \in DOMAIN orgs : orgs'[o] = orgs[o]
  BY <1>4, <1>6, <1>7, Appended
<1>9. TablesOK'
  BY <1>5, <1>6, <1>7, <1>8
<1>10. Spares
  BY <1>5, <1>8 DEF Spares, LiveUsers
<1>11. LoginsOK'
  BY <1>4, <1>5, LoginsStay
<1>12. LocalsOK'
  BY <1>5, Ended DEF IInv, SetupCreate
<1> QED
  BY <1>5, <1>9, <1>10, <1>11, <1>12 DEF Good, IInv

LEMMA AgeKeeps ==
    ASSUME IInv, Age
    PROVE  Good
<1>1. /\ creds' = creds /\ logins' = logins /\ proc' = proc
      /\ users' = [u \in DOMAIN users |-> [users[u] EXCEPT !.new = FALSE]]
      /\ orgs' = [o \in DOMAIN orgs |-> [orgs[o] EXCEPT !.new = FALSE]]
      /\ ceremonies' = [c \in DOMAIN ceremonies |-> [ceremonies[c] EXCEPT !.live = FALSE]]
  BY DEF Age
<1>2. /\ users \in Seq(UserRow) /\ orgs \in Seq(OrgRow) /\ ceremonies \in Seq(CeremonyRow)
  BY DEF IInv, TablesOK
<1>3. /\ users' \in Seq(UserRow) /\ DOMAIN users' = DOMAIN users
      /\ \A u \in DOMAIN users : users'[u].name = users[u].name /\ users'[u].live = users[u].live
  <2>1. \A r \in UserRow : LET s == [r EXCEPT !.new = FALSE] IN
           s \in UserRow /\ s.name = r.name /\ s.live = r.live
    BY DEF UserRow
  <2>2. PICK t : t = users'
    OBVIOUS
  <2>3. \A u \in DOMAIN users :
           t[u] \in UserRow /\ t[u].name = users[u].name /\ t[u].live = users[u].live
    <3> SUFFICES ASSUME NEW u \in DOMAIN users
                 PROVE  t[u] \in UserRow /\ t[u].name = users[u].name /\ t[u].live = users[u].live
      OBVIOUS
    <3>1. PICK r : r = users[u]
      OBVIOUS
    <3>2. r \in UserRow
      BY <1>2, <3>1
    <3>3. t[u] = [r EXCEPT !.new = FALSE]
      BY <1>1, <2>2, <3>1
    <3> QED
      BY <2>1, <3>1, <3>2, <3>3
  <2>4. t = [u \in DOMAIN users |-> t[u]]
    BY <1>1, <2>2
  <2>5. t \in Seq(UserRow) /\ DOMAIN t = DOMAIN users
    BY <1>2, <2>3, <2>4, Rewritten
  <2> QED
    BY <2>2, <2>3, <2>5
<1>4. /\ orgs' \in Seq(OrgRow) /\ DOMAIN orgs' = DOMAIN orgs
      /\ \A o \in DOMAIN orgs : orgs'[o].members = orgs[o].members /\ orgs'[o].live = orgs[o].live
  <2>1. \A r \in OrgRow : LET s == [r EXCEPT !.new = FALSE] IN
           s \in OrgRow /\ s.members = r.members /\ s.live = r.live
    BY DEF OrgRow
  <2>2. PICK t : t = orgs'
    OBVIOUS
  <2>3. \A o \in DOMAIN orgs :
           t[o] \in OrgRow /\ t[o].members = orgs[o].members /\ t[o].live = orgs[o].live
    <3> SUFFICES ASSUME NEW o \in DOMAIN orgs
                 PROVE  /\ t[o] \in OrgRow
                        /\ t[o].members = orgs[o].members /\ t[o].live = orgs[o].live
      OBVIOUS
    <3>1. PICK r : r = orgs[o]
      OBVIOUS
    <3>2. r \in OrgRow
      BY <1>2, <3>1
    <3>3. t[o] = [r EXCEPT !.new = FALSE]
      BY <1>1, <2>2, <3>1
    <3> QED
      BY <2>1, <3>1, <3>2, <3>3
  <2>4. t = [o \in DOMAIN orgs |-> t[o]]
    BY <1>1, <2>2
  <2>5. t \in Seq(OrgRow) /\ DOMAIN t = DOMAIN orgs
    BY <1>2, <2>3, <2>4, Rewritten
  <2> QED
    BY <2>2, <2>3, <2>5
<1>5. /\ ceremonies' \in Seq(CeremonyRow) /\ DOMAIN ceremonies' = DOMAIN ceremonies
      /\ \A c \in DOMAIN ceremonies : ceremonies'[c].user = ceremonies[c].user
  <2>1. \A r \in CeremonyRow : LET s == [r EXCEPT !.live = FALSE] IN
           s \in CeremonyRow /\ s.user = r.user
    BY DEF CeremonyRow
  <2>2. PICK t : t = ceremonies'
    OBVIOUS
  <2>3. \A c \in DOMAIN ceremonies : t[c] \in CeremonyRow /\ t[c].user = ceremonies[c].user
    <3> SUFFICES ASSUME NEW c \in DOMAIN ceremonies
                 PROVE  t[c] \in CeremonyRow /\ t[c].user = ceremonies[c].user
      OBVIOUS
    <3>1. PICK r : r = ceremonies[c]
      OBVIOUS
    <3>2. r \in CeremonyRow
      BY <1>2, <3>1
    <3>3. t[c] = [r EXCEPT !.live = FALSE]
      BY <1>1, <2>2, <3>1
    <3> QED
      BY <2>1, <3>1, <3>2, <3>3
  <2>4. t = [c \in DOMAIN ceremonies |-> t[c]]
    BY <1>1, <2>2
  <2>5. t \in Seq(CeremonyRow) /\ DOMAIN t = DOMAIN ceremonies
    BY <1>2, <2>3, <2>4, Rewritten
  <2> QED
    BY <2>2, <2>3, <2>5
<1>6. Grows
  BY <1>1, <1>3, <1>5 DEF Grows
<1>7. LiveUsers' = LiveUsers
  BY <1>3 DEF LiveUsers
<1>8. TablesOK'
  <2>1. \A o \in DOMAIN orgs' : orgs'[o].members \subseteq LiveUsers'
    BY <1>4, <1>7 DEF IInv, TablesOK
  <2>2. \A u, v \in LiveUsers' :
           u # v => users'[u].name = NoName \/ users'[u].name # users'[v].name
    BY <1>3, <1>7 DEF IInv, TablesOK, LiveUsers
  <2>3. creds' \in Seq(CredRow)
    BY <1>1 DEF IInv, TablesOK
  <2>4. \A i \in DOMAIN creds' : creds'[i].live => creds'[i].user \in LiveUsers'
    BY <1>1, <1>7 DEF IInv, TablesOK
  <2>5. \A i, j \in DOMAIN creds' :
           i # j /\ creds'[i].live /\ creds'[j].live => creds'[i].key # creds'[j].key
    BY <1>1 DEF IInv, TablesOK
  <2> QED
    BY <1>3, <1>4, <1>5, <2>1, <2>2, <2>3, <2>4, <2>5 DEF TablesOK
<1>9. Spares
  BY <1>3, <1>4, <1>7 DEF Spares, LiveUsers
<1>10. LoginsOK'
  BY <1>1, <1>6, LoginsStay
<1>11. LocalsOK'
  BY <1>1, <1>6, LocalsStay DEF IInv, LocalsOK
<1> QED
  BY <1>6, <1>8, <1>9, <1>10, <1>11 DEF Good, IInv

-----------------------------------------------------------------------------
(***************************************************************************)
(* The invariant.                                                          *)
(***************************************************************************)
LEMMA LoginStepKeeps ==
    ASSUME IInv, NEW p \in Procs, LoginStep(p)
    PROVE  Good
<1>1. CASE Registration(p)
  BY <1>1, BeginRegistrationKeeps, RegistrationChallengeKeeps DEF Registration
<1>2. CASE RegistrationEnd(p)
  BY <1>2, FinishRegistrationKeeps, RegistrationVerifyKeeps, CreateCredentialKeeps
     DEF RegistrationEnd
<1>3. CASE LoginStart(p)
  BY <1>3, BeginLoginKeeps, BeginDiscoverableLoginKeeps, LoginOfferKeeps DEF LoginStart
<1>4. CASE LoginEnd(p)
  BY <1>4, FinishLoginKeeps, LoginValidateKeeps, SaveCountKeeps, StoreLoginKeeps DEF LoginEnd
<1>5. CASE \E u \in LiveUsers : PasswordLogin(p, u)
  BY <1>5, PasswordLoginKeeps
<1>6. CASE DeleteCeremony(p) \/ Refused(p) \/ Stopped(p)
  BY <1>6, DeleteCeremonyKeeps, RefusedKeeps, StoppedKeeps
<1> QED
  BY <1>1, <1>2, <1>3, <1>4, <1>5, <1>6 DEF LoginStep

LEMMA SetupStepKeeps ==
    ASSUME IInv, NEW p \in Procs, SetupStep(p)
    PROVE  Good
BY SetupKeeps, SetupGuardKeeps, CleanBondsKeeps, CleanUsersKeeps, CleanOrgsKeeps,
   SetupCreateKeeps DEF SetupStep

LEMMA NothingKeeps ==
    ASSUME IInv, UNCHANGED vars
    PROVE  Good
<1>1. UNCHANGED accounts /\ UNCHANGED ceremonies /\ logins' = logins /\ proc' = proc
  BY DEF vars, accounts
<1>2. Grows /\ TablesOK' /\ Spares
  BY <1>1, OnlyGoroutines
<1>3. LoginsOK'
  BY <1>1, <1>2, LoginsStay
<1>4. LocalsOK'
  BY <1>1, <1>2, LocalsStay DEF IInv, LocalsOK
<1> QED
  BY <1>2, <1>3, <1>4 DEF Good, IInv

LEMMA NextKeeps ==
    ASSUME IInv, [Next]_vars
    PROVE  Good
BY LoginStepKeeps, SetupStepKeeps, AgeKeeps, NothingKeeps DEF Next

LEMMA InitHolds == Init => IInv
<1> SUFFICES ASSUME Init PROVE IInv
  OBVIOUS
<1>1. LocalsOK
  BY DEF Init, LocalsOK, Held
<1>2. LoginsOK
  BY DEF Init, LoginsOK
<1>3. PICK r : r = User(NoName)
  OBVIOUS
<1>4. r \in UserRow /\ r.name = NoName /\ r.live
  BY <1>3 DEF User, UserRow
<1>5. ceremonies \in Seq(CeremonyRow)
  BY DEF Init
<1>6. CASE users = <<>> /\ orgs = <<>> /\ creds = <<>>
  <2>1. TablesOK
    BY <1>5, <1>6 DEF TablesOK, LiveUsers
  <2> QED
    BY <1>1, <1>2, <2>1 DEF IInv
<1>7. CASE users = <<User(NoName)>> /\ orgs = <<Org({1})>> /\ creds = <<>>
  <2>1. PICK e : e = Org({1})
    OBVIOUS
  <2>2. e \in OrgRow /\ e.members = {1}
    BY <2>1 DEF Org, OrgRow
  <2>3. users \in Seq(UserRow) /\ DOMAIN users = {1} /\ users[1] = r
    BY <1>3, <1>4, <1>7
  <2>4. LiveUsers = {1}
    BY <1>4, <2>3 DEF LiveUsers
  <2>5. orgs \in Seq(OrgRow) /\ DOMAIN orgs = {1} /\ orgs[1].members = {1}
    BY <1>7, <2>1, <2>2
  <2>6. TablesOK
    BY <1>5, <1>7, <2>3, <2>4, <2>5 DEF TablesOK
  <2> QED
    BY <1>1, <1>2, <2>6 DEF IInv
<1>8. CASE Registered
  <2>1. PICK k \in Keys, l \in Keys, n \in 0 .. MaxCount :
           k # l /\ creds = <<Cred(1, k, n), Cred(2, l, 0)>>
    BY <1>8 DEF Registered
  <2>2. PICK a, b : a = Cred(1, k, n) /\ b = Cred(2, l, 0)
    OBVIOUS
  <2>3. /\ a \in CredRow /\ a.user = 1 /\ a.key = k
        /\ b \in CredRow /\ b.user = 2 /\ b.key = l
    BY <2>1, <2>2, Zeros DEF Cred, CredRow
  <2>4. /\ creds \in Seq(CredRow) /\ DOMAIN creds = {1, 2}
        /\ creds[1] = a /\ creds[2] = b
    BY <2>1, <2>2, <2>3
  <2>5. /\ users \in Seq(UserRow) /\ DOMAIN users = {1, 2}
        /\ users[1] = r /\ users[2] = r
    BY <1>3, <1>4, <1>8 DEF Registered
  <2>6. LiveUsers = {1, 2}
    BY <1>4, <2>5 DEF LiveUsers
  <2>7. orgs = <<>>
    BY <1>8 DEF Registered
  <2>8. \A i \in DOMAIN creds : creds[i].live => creds[i].user \in LiveUsers
    BY <2>3, <2>4, <2>6
  <2>9. \A i, j \in DOMAIN creds :
           i # j /\ creds[i].live /\ creds[j].live => creds[i].key # creds[j].key
    BY <2>1, <2>3, <2>4
  <2>10. \A u \in LiveUsers : users[u].name = NoName
    BY <1>4, <2>5, <2>6
  <2>11. TablesOK
    BY <1>5, <2>4, <2>5, <2>7, <2>8, <2>9, <2>10 DEF TablesOK
  <2> QED
    BY <1>1, <1>2, <2>11 DEF IInv
<1> QED
  BY <1>6, <1>7, <1>8 DEF Init

\* What goroutines hold of challenges and passkeys is true, whatever has
\* happened since they read it (LoginValidate, SaveCount, StoreLogin).
THEOREM LoginInductive == Spec => []IInv
<1>1. IInv /\ [Next]_vars => IInv'
  BY NextKeeps DEF Good
<1> QED
  BY InitHolds, <1>1, PTL DEF Spec

-----------------------------------------------------------------------------
\* The tables hold what their types say, with their keys and constraints, in
\* whatever way registrations, logins and setups overlap.
THEOREM LoginTypes == Spec => []TypeOK
<1>1. IInv => TypeOK
  BY DEF IInv, TablesOK, LoginsOK, Earned, TypeOK
<1> QED
  BY <1>1, LoginInductive, PTL

\* A login with a passkey is always its owner's, and of a challenge that was
\* for them or for whoever answers (FinishLogin, FinishLoginWithUserHandle).
THEOREM SessionsAreEarned == Spec => []SessionsEarned
<1>1. IInv => SessionsEarned
  BY DEF IInv, LoginsOK, Earned, AskedOf, SessionsEarned
<1> QED
  BY <1>1, LoginInductive, PTL

LEMMA InitializedStays ==
    ASSUME IInv, Good
    PROVE  ~NeedOOBE => ~NeedOOBE'
<1> SUFFICES ASSUME ~NeedOOBE PROVE ~NeedOOBE'
  OBVIOUS
<1>1. CASE ~NoPasswords
  <2>1. PICK u \in LiveUsers : users[u].name # NoName
    BY <1>1 DEF NoPasswords
  <2>2. u \in LiveUsers' /\ users'[u].name = users[u].name
    BY <2>1 DEF Good, Spares
  <2> QED
    BY <2>1, <2>2 DEF NeedOOBE, NoPasswords
<1>2. CASE ~NoPasskeys
  <2>1. PICK i \in DOMAIN creds : creds[i].live
    BY <1>2 DEF NoPasskeys
  <2>2. i \in DOMAIN creds' /\ creds'[i].live
    BY <2>1 DEF Good, Grows
  <2> QED
    BY <2>2 DEF NeedOOBE, NoPasskeys
<1> QED
  BY <1>1, <1>2 DEF NeedOOBE

\* Once somebody can log in no setup is needed any more, and no step, the
\* cleaning up of a setup included, takes an account from who can log in to
\* it (NeedOOBE, cleanupOrphanedOOBE).
THEOREM StaysInitialized == Spec => InitializedForGood
<1> DEFINE Kept ==
      /\ ~NeedOOBE => ~NeedOOBE'
      /\ \A u \in LiveUsers :
            users[u].name # NoName \/ CredsOf(u) # {} =>
               /\ u \in LiveUsers'
               /\ \A o \in DOMAIN orgs :
                     orgs[o].live /\ u \in orgs[o].members
                        => orgs'[o].live /\ u \in orgs'[o].members
<1>1. IInv /\ [Next]_vars => [Kept]_vars
  <2> SUFFICES ASSUME IInv, [Next]_vars PROVE Kept
    OBVIOUS
  <2>1. Good
    BY NextKeeps
  <2>2. ~NeedOOBE => ~NeedOOBE'
    BY <2>1, InitializedStays
  <2> QED
    BY <2>1, <2>2 DEF Good, Spares
<1> QED
  BY <1>1, LoginInductive, PTL DEF Spec, InitializedForGood

-----------------------------------------------------------------------------
(***************************************************************************)
(* Whose turn it is.  In a turn of p the other goroutines keep what they   *)
(* have; if p begins a request, those in flight are not alone any more,    *)
(* and a goroutine that says it is alone has found nobody or was so.       *)
(***************************************************************************)
Alone(p) == ~At(p, "idle") /\ proc[p].alone

Kept(q) == proc'[q] = proc[q] \/ proc'[q] = Disturbed(q)

Turn(p) ==
    /\ \A q \in Procs \ {p} : Kept(q)
    /\ At(p, "idle") => /\ \A q \in Procs \ {p} : ~Alone(q)'
                        /\ Alone(p)' => Busy = {}
    /\ ~At(p, "idle") /\ Alone(p)' => Alone(p)

LEMMA Keeps ==
    ASSUME LocalsOK, NEW q \in Procs, Kept(q)
    PROVE  /\ proc'[q].pc = proc[q].pc
           /\ ~At(q, "idle") => proc'[q].ceremony = proc[q].ceremony
           /\ Alone(q)' => Alone(q) /\ proc'[q] = proc[q]
<1>1. CASE proc'[q] = proc[q]
  BY <1>1 DEF Alone, At
<1>2. CASE proc'[q] = Disturbed(q) /\ At(q, "idle")
  <2>1. proc'[q] = Idle /\ proc[q].pc = "idle"
    BY <1>2 DEF Disturbed, At
  <2> QED
    BY <2>1, IdleIsNoWork DEF Alone, At
<1>3. CASE proc'[q] = Disturbed(q) /\ ~At(q, "idle")
  <2>1. PICK w : w = proc[q]
    OBVIOUS
  <2>2. w \in WorkRow
    BY <1>3, <2>1, AtWork
  <2>3. PICK v : v = [w EXCEPT !.alone = FALSE]
    OBVIOUS
  <2>4. v.pc = w.pc /\ v.ceremony = w.ceremony /\ ~v.alone
    BY <2>2, <2>3 DEF WorkRow
  <2>5. proc'[q] = v
    BY <1>3, <2>1, <2>3 DEF Disturbed
  <2> QED
    BY <2>1, <2>4, <2>5 DEF Alone, At
<1> QED
  BY <1>1, <1>2, <1>3 DEF Kept

LEMMA DisturbedNotAlone ==
    ASSUME LocalsOK, NEW q \in Procs, proc'[q] = Disturbed(q)
    PROVE  ~Alone(q)'
<1>1. CASE At(q, "idle")
  BY <1>1, IdleIsNoWork DEF Disturbed, Alone, At
<1>2. CASE ~At(q, "idle")
  <2>1. PICK w : w = proc[q]
    OBVIOUS
  <2>2. w \in WorkRow
    BY <1>2, <2>1, AtWork
  <2>3. PICK v : v = [w EXCEPT !.alone = FALSE]
    OBVIOUS
  <2>4. ~v.alone
    BY <2>2, <2>3 DEF WorkRow
  <2>5. proc'[q] = v
    BY <1>2, <2>1, <2>3 DEF Disturbed
  <2> QED
    BY <2>4, <2>5 DEF Alone
<1> QED
  BY <1>1, <1>2

\* A request begins.
LEMMA StartsTurn ==
    ASSUME LocalsOK, NEW p \in Procs, At(p, "idle"), NEW w \in WorkRow, Starts(p, w)
    PROVE  /\ Turn(p) /\ ~At(p, "idle")'
           /\ proc'[p].pc = w.pc /\ proc'[p].ceremony = w.ceremony
           /\ Alone(p)' => w.alone
<1>1. PICK b \in BOOLEAN : b = (w.alone /\ Busy = {})
  OBVIOUS
<1>2. PICK v : v = [w EXCEPT !.alone = b]
  OBVIOUS
<1>3. v \in WorkRow /\ v.pc = w.pc /\ v.ceremony = w.ceremony /\ v.alone = b
  BY <1>2 DEF WorkRow
<1>4. proc' = [q \in Procs |-> IF q = p THEN v ELSE Disturbed(q)]
  BY <1>1, <1>2 DEF Starts
<1>5. proc'[p] = v /\ \A q \in Procs \ {p} : proc'[q] = Disturbed(q)
  BY <1>4
<1>6. \A q \in Procs \ {p} : Kept(q) /\ ~Alone(q)'
  BY <1>5, DisturbedNotAlone DEF Kept
<1>7. Alone(p)' => w.alone /\ Busy = {}
  BY <1>1, <1>3, <1>5 DEF Alone
<1> QED
  BY <1>3, <1>5, <1>6, <1>7, IdleIsNoWork DEF Turn, At

\* A request goes on or ends.
LEMMA GoesTurn ==
    ASSUME LocalsOK, NEW p \in Procs, ~At(p, "idle"), NEW w, proc' = [proc EXCEPT ![p] = w],
           w = Idle \/ (w.alone => proc[p].alone)
    PROVE  Turn(p) /\ proc'[p] = w
<1>1. proc = [q \in Procs |-> proc[q]]
  BY DEF LocalsOK
<1>2. proc'[p] = w /\ \A q \in Procs \ {p} : proc'[q] = proc[q]
  BY <1>1
<1>3. Alone(p)' => Alone(p)
  BY <1>2, IdleIsNoWork DEF Alone, At
<1> QED
  BY <1>2, <1>3 DEF Turn, Kept

LEMMA EndsTurn ==
    ASSUME LocalsOK, NEW p \in Procs, ~At(p, "idle"), Ends(p)
    PROVE  Turn(p) /\ proc'[p] = Idle
BY GoesTurn DEF Ends

LEMMA ClosesTurn ==
    ASSUME LocalsOK, NEW p \in Procs, ~At(p, "idle"), Closes(p)
    PROVE  /\ Turn(p)
           /\ proc[p].ceremony = 0 => proc'[p] = Idle
           /\ proc[p].ceremony # 0 => /\ proc'[p].pc = "drop"
                                      /\ proc'[p].ceremony = proc[p].ceremony
<1>1. CASE proc[p].ceremony = 0
  BY <1>1, EndsTurn DEF Closes
<1>2. CASE proc[p].ceremony # 0
  <2>1. PICK c : c = proc[p].ceremony
    OBVIOUS
  <2>2. c \in Nat
    BY <2>1, AtWork DEF WorkRow
  <2>3. PICK w : w = Work("drop", c, 0, 0, 0)
    OBVIOUS
  <2>4. w \in WorkRow /\ w.pc = "drop" /\ w.ceremony = c
    <3>1. "drop" \in Labels
      BY DEF Labels
    <3> QED
      BY <2>2, <2>3, <3>1, Zeros, WorkIs
  <2>5. PICK v : v = [w EXCEPT !.alone = FALSE]
    OBVIOUS
  <2>6. v.pc = "drop" /\ v.ceremony = c /\ ~v.alone
    BY <2>4, <2>5 DEF WorkRow
  <2>7. proc' = [proc EXCEPT ![p] = v]
    <3>1. proc' = [proc EXCEPT ![p] =
                      [Work("drop", proc[p].ceremony, 0, 0, 0) EXCEPT !.alone = FALSE]]
      BY <1>2 DEF Closes
    <3> QED
      BY <2>1, <2>3, <2>5, <3>1
  <2> QED
    BY <1>2, <2>1, <2>6, <2>7, GoesTurn
<1> QED
  BY <1>1, <1>2

\* With another label.
LEMMA LabelTurn ==
    ASSUME LocalsOK, NEW p \in Procs, NEW l \in Labels, ~At(p, "idle"),
           Goes(p, l) \/ Fails(p, l)
    PROVE  /\ Turn(p)
           /\ proc'[p].pc = l /\ proc'[p].ceremony = proc[p].ceremony
           /\ Fails(p, l) => ~Alone(p)'
<1>1. PICK w : w = proc[p]
  OBVIOUS
<1>2. w \in WorkRow
  BY <1>1, AtWork
<1>3. PICK v : v = [w EXCEPT !.pc = l]
  OBVIOUS
<1>4. PICK x : x = [w EXCEPT !.pc = l, !.alone = FALSE]
  OBVIOUS
<1>5. /\ v.pc = l /\ v.ceremony = w.ceremony /\ v.alone = w.alone
      /\ x.pc = l /\ x.ceremony = w.ceremony /\ ~x.alone
  BY <1>2, <1>3, <1>4 DEF WorkRow
<1>6. CASE Goes(p, l) /\ ~Fails(p, l)
  <2>1. proc' = [proc EXCEPT ![p] = v]
    BY <1>1, <1>3, <1>6, Zenon DEF Goes
  <2> QED
    BY <1>1, <1>5, <1>6, <2>1, GoesTurn
<1>7. CASE Fails(p, l)
  <2>1. proc = [q \in Procs |-> proc[q]]
    BY DEF LocalsOK
  <2>2. proc' = [proc EXCEPT ![p].pc = l, ![p].alone = FALSE]
    BY <1>7 DEF Fails
  <2>3. proc' = [proc EXCEPT ![p] = x]
    BY <1>1, <1>4, <2>1, <2>2
  <2>4. Turn(p) /\ proc'[p] = x
    BY <1>1, <1>5, <2>3, GoesTurn
  <2> QED
    BY <1>1, <1>5, <2>4 DEF Alone
<1> QED
  BY <1>6, <1>7

-----------------------------------------------------------------------------
(***************************************************************************)
(* What an ordinary turn does of the ceremonies: the request ends, or is   *)
(* of no ceremony, or registers a passkey, or goes on with the one it had. *)
(***************************************************************************)
LoginLabels == Answers \cup {"session"}

Ordinary(p) ==
    /\ Turn(p)
    /\ ~At(p, "drop")
    /\ \/ At(p, "idle")'
       \/ proc'[p].ceremony = 0
       \/ /\ proc'[p].ceremony \in DOMAIN ceremonies
          /\ ceremonies[proc'[p].ceremony].kind = "register"
          /\ proc'[p].pc \notin LoginLabels
       \/ /\ ~At(p, "idle")
          /\ proc'[p].ceremony = proc[p].ceremony
          /\ proc'[p].pc \in LoginLabels => proc[p].pc \in LoginLabels

\* Nothing is forgotten of a challenge.
Marks ==
    \A c \in DOMAIN ceremonies :
       /\ c \in DOMAIN ceremonies'
       /\ ceremonies'[c].kind = ceremonies[c].kind
       /\ ceremonies[c].spoilt => ceremonies'[c].spoilt
       /\ ceremonies'[c].live => ceremonies[c].live

\* What is not said of goroutines that are not alone or elsewhere.
Late == {"count"} \cup Setups

LEMMA StoredMarks ==
    ASSUME TablesOK, NEW k, NEW u, StoreCeremony(k, u) \/ UNCHANGED ceremonies
    PROVE  Marks
<1>1. PICK e : e = Ceremony(k, u)
  OBVIOUS
<1>2. PICK S : S = CeremonyRow \cup {e}
  OBVIOUS
<1>3. ceremonies \in Seq(S) /\ e \in S
  BY <1>2 DEF TablesOK
<1>4. CASE StoreCeremony(k, u)
  <2>1. ceremonies' = Append(ceremonies, e)
    BY <1>1, <1>4 DEF StoreCeremony
  <2>2. \A c \in DOMAIN ceremonies : c \in DOMAIN ceremonies' /\ ceremonies'[c] = ceremonies[c]
    BY <1>3, <2>1, Appended
  <2> QED
    BY <2>2 DEF Marks
<1>5. CASE UNCHANGED ceremonies
  BY <1>5 DEF Marks
<1> QED
  BY <1>4, <1>5

\* Closing, of a request that is not deleting its ceremony.
LEMMA ClosesOrdinary ==
    ASSUME LocalsOK, NEW p \in Procs, ~At(p, "idle"), ~At(p, "drop"), Closes(p)
    PROVE  Ordinary(p) /\ ~(Alone(p)' /\ proc'[p].pc \in Late)
<1>1. "idle" \notin Late /\ "drop" \notin Late /\ "drop" \notin LoginLabels
  BY DEF Late, Setups, LoginLabels, Answers
<1>2. CASE proc[p].ceremony = 0
  BY <1>1, <1>2, ClosesTurn, IdleIsNoWork DEF Ordinary, At
<1>3. CASE proc[p].ceremony # 0
  BY <1>1, <1>3, ClosesTurn DEF Ordinary
<1> QED
  BY <1>2, <1>3

LEMMA EndsOrdinary ==
    ASSUME LocalsOK, NEW p \in Procs, ~At(p, "idle"), ~At(p, "drop"), Ends(p)
    PROVE  Ordinary(p) /\ ~(Alone(p)' /\ proc'[p].pc \in Late)
<1>1. "idle" \notin Late
  BY DEF Late, Setups
<1> QED
  BY <1>1, EndsTurn, IdleIsNoWork DEF Ordinary, At

\* A request begins that is of no ceremony, or registers a passkey.
LEMMA StartsOrdinary ==
    ASSUME LocalsOK, TablesOK, NEW p \in Procs, At(p, "idle"),
           NEW l \in Labels, NEW c \in Nat, NEW u \in Nat, NEW k \in Keys \cup {0},
           NEW n \in 0 .. MaxCount, Starts(p, Work(l, c, u, k, n)),
           \/ c = 0
           \/ c \in DOMAIN ceremonies /\ ceremonies[c].kind = "register" /\ l \notin LoginLabels
    PROVE  Ordinary(p) /\ proc'[p].pc = l
<1>1. PICK w : w = Work(l, c, u, k, n)
  OBVIOUS
<1>2. w \in WorkRow /\ w.pc = l /\ w.ceremony = c
  BY <1>1, WorkIs
<1>3. Turn(p) /\ proc'[p].pc = l /\ proc'[p].ceremony = c
  BY <1>1, <1>2, StartsTurn
<1> QED
  BY <1>3 DEF Ordinary, At

-----------------------------------------------------------------------------
\* The turns of registrations.
LEMMA RegistrationTurn ==
    ASSUME IInv, NEW p \in Procs, Registration(p) \/ RegistrationEnd(p)
    PROVE  /\ Ordinary(p) /\ Marks /\ logins' = logins
           /\ ~(Alone(p)' /\ proc'[p].pc \in Late)
<1>0. LocalsOK /\ TablesOK
  BY DEF IInv
<1>1. \A l \in {"register", "verify", "save"} :
         l \in Labels /\ l \notin Late /\ l \notin LoginLabels
  BY DEF Labels, Late, Setups, LoginLabels, Answers
<1>2. ASSUME NEW u \in 1 .. Len(users) + 1, BeginRegistration(p, u)
      PROVE  /\ Ordinary(p) /\ Marks /\ logins' = logins
             /\ ~(Alone(p)' /\ proc'[p].pc \in Late)
  <2>1. u \in Nat
    BY <1>0 DEF TablesOK
  <2>2. Ordinary(p) /\ proc'[p].pc = "register"
    BY <1>0, <1>1, <1>2, <2>1, Zeros, StartsOrdinary DEF BeginRegistration
  <2> QED
    BY <1>1, <1>2, <2>2 DEF BeginRegistration, sessions, Marks
<1>3. ASSUME RegistrationChallenge(p)
      PROVE  /\ Ordinary(p) /\ Marks /\ logins' = logins
             /\ ~(Alone(p)' /\ proc'[p].pc \in Late)
  BY <1>0, <1>3, StoredMarks, EndsOrdinary DEF RegistrationChallenge, At
<1>4. ASSUME NEW c \in DOMAIN ceremonies, NEW k \in Keys, FinishRegistration(p, c, k)
      PROVE  /\ Ordinary(p) /\ Marks /\ logins' = logins
             /\ ~(Alone(p)' /\ proc'[p].pc \in Late)
  <2>1. PICK u : u = ceremonies[c].user
    OBVIOUS
  <2>2. u \in Nat /\ c \in Nat
    BY <1>0, <2>1, InBounds
  <2>3. Starts(p, Work("verify", c, u, k, 0)) /\ At(p, "idle") /\ ceremonies[c].kind = "register"
    BY <1>4, <2>1 DEF FinishRegistration
  <2>4. Ordinary(p) /\ proc'[p].pc = "verify"
    BY <1>0, <1>1, <2>2, <2>3, Zeros, StartsOrdinary
  <2> QED
    BY <1>1, <1>4, <2>4 DEF FinishRegistration, sessions, Marks
<1>5. ASSUME RegistrationVerify(p)
      PROVE  /\ Ordinary(p) /\ Marks /\ logins' = logins
             /\ ~(Alone(p)' /\ proc'[p].pc \in Late)
  <2>1. ~At(p, "idle") /\ ~At(p, "drop") /\ Marks /\ logins' = logins
    BY <1>5 DEF RegistrationVerify, sessions, At, Marks
  <2>2. ASSUME Goes(p, "save") PROVE Ordinary(p) /\ ~(Alone(p)' /\ proc'[p].pc \in Late)
    <3>1. Turn(p) /\ proc'[p].pc = "save" /\ proc'[p].ceremony = proc[p].ceremony
      BY <1>0, <1>1, <2>1, <2>2, LabelTurn
    <3> QED
      BY <1>1, <2>1, <3>1 DEF Ordinary
  <2> QED
    BY <1>0, <1>5, <2>1, <2>2, ClosesOrdinary DEF RegistrationVerify
<1>6. ASSUME CreateCredential(p)
      PROVE  /\ Ordinary(p) /\ Marks /\ logins' = logins
             /\ ~(Alone(p)' /\ proc'[p].pc \in Late)
  BY <1>0, <1>6, ClosesOrdinary DEF CreateCredential, sessions, At, Marks
<1> QED
  BY <1>2, <1>3, <1>4, <1>5, <1>6 DEF Registration, RegistrationEnd

LEMMA LoginStartTurn ==
    ASSUME IInv, NEW p \in Procs,
           LoginStart(p) \/ (\E u \in LiveUsers : PasswordLogin(p, u)) \/ Refused(p)
    PROVE  /\ Ordinary(p) /\ Marks /\ logins' = logins
           /\ ~(Alone(p)' /\ proc'[p].pc \in Late)
<1>0. LocalsOK /\ TablesOK
  BY DEF IInv
<1>1. /\ \A l \in {"offer", "session"} : l \in Labels /\ l \notin Late
      /\ "idle" \notin Late
  BY DEF Labels, Late, Setups
<1>2. \A u \in LiveUsers : u \in Nat
  BY <1>0, InBounds DEF LiveUsers
<1>3. ASSUME NEW u \in LiveUsers, BeginLogin(p, u) \/ PasswordLogin(p, u)
      PROVE  /\ Ordinary(p) /\ Marks /\ logins' = logins
             /\ ~(Alone(p)' /\ proc'[p].pc \in Late)
  <2>1. PICK l \in {"offer", "session"} : At(p, "idle") /\ Starts(p, Work(l, 0, u, 0, 0))
    BY <1>3 DEF BeginLogin, PasswordLogin
  <2>2. Ordinary(p) /\ proc'[p].pc = l
    BY <1>0, <1>1, <1>2, <2>1, Zeros, StartsOrdinary
  <2> QED
    BY <1>1, <1>3, <2>2 DEF BeginLogin, PasswordLogin, sessions, Marks
<1>4. ASSUME BeginDiscoverableLogin(p)
      PROVE  /\ Ordinary(p) /\ Marks /\ logins' = logins
             /\ ~(Alone(p)' /\ proc'[p].pc \in Late)
  <2>1. Marks /\ logins' = logins
    BY <1>0, <1>4, StoredMarks DEF BeginDiscoverableLogin
  <2>2. At(p, "idle") /\ \A q \in Procs : proc'[q] = Disturbed(q)
    BY <1>4 DEF BeginDiscoverableLogin
  <2>3. proc'[p].pc = "idle"
    BY <2>2, IdleIsNoWork DEF Disturbed
  <2>4. \A q \in Procs : Kept(q) /\ ~Alone(q)'
    BY <1>0, <2>2, DisturbedNotAlone DEF Kept
  <2> QED
    BY <1>1, <2>1, <2>2, <2>3, <2>4 DEF Ordinary, Turn, At
<1>5. ASSUME LoginOffer(p)
      PROVE  /\ Ordinary(p) /\ Marks /\ logins' = logins
             /\ ~(Alone(p)' /\ proc'[p].pc \in Late)
  <2>1. Marks /\ logins' = logins
    BY <1>0, <1>5, StoredMarks DEF LoginOffer
  <2> QED
    BY <1>0, <1>5, <2>1, EndsOrdinary DEF LoginOffer, At
<1>6. ASSUME Refused(p)
      PROVE  /\ Ordinary(p) /\ Marks /\ logins' = logins
             /\ ~(Alone(p)' /\ proc'[p].pc \in Late)
  BY <1>0, <1>6, ClosesOrdinary DEF Refused, sessions, Marks
<1> QED
  BY <1>3, <1>4, <1>5, <1>6 DEF LoginStart

\* Whoever has been validated goes on to the count of the passkey, which is
\* not below the stored one.
CountOf(p) ==
    Alone(p) /\ At(p, "count") =>
       \A i \in ByKey(proc[p].key) : proc[p].count >= creds[i].count

LEMMA LoginValidateTurn ==
    ASSUME IInv, NEW p \in Procs, LoginValidate(p)
    PROVE  /\ Ordinary(p) /\ Marks /\ logins' = logins
           /\ CountOf(p)' /\ ~(Alone(p)' /\ proc'[p].pc \in Setups)
<1>0. LocalsOK /\ TablesOK
  BY DEF IInv
<1>1. Marks /\ logins' = logins /\ creds' = creds
  BY DEF LoginValidate, Marks, sessions, accounts
<1>2. /\ ~At(p, "idle") /\ ~At(p, "drop") /\ proc[p].pc \in {"identify", "validate"}
  BY DEF LoginValidate, At
<1>3. ASSUME Closes(p)
      PROVE  Ordinary(p) /\ CountOf(p)' /\ ~(Alone(p)' /\ proc'[p].pc \in Setups)
  BY <1>0, <1>2, <1>3, ClosesOrdinary DEF CountOf, Late, At
<1>4. PICK w : w = proc[p]
  OBVIOUS
<1>5. w \in WorkRow
  BY <1>0, <1>2, <1>4, AtWork
<1>6. ASSUME Validates(w),
             proc' = [proc EXCEPT ![p].pc = "count", ![p].count =
                         UpdatedCounter(creds[Min(ByKey(w.key))].count, w.count)]
      PROVE  Ordinary(p) /\ CountOf(p)' /\ ~(Alone(p)' /\ proc'[p].pc \in Setups)
  <2>1. PICK i : i \in ByKey(w.key)
    BY <1>6 DEF Validates
  <2>2. i \in DOMAIN creds /\ Min(ByKey(w.key)) = i
    BY <1>0, <2>1, OneRow
  <2>3. PICK n : n = UpdatedCounter(creds[i].count, w.count)
    OBVIOUS
  <2>4. n >= creds[i].count
    <3>1. creds[i].count \in Int /\ w.count \in Int
      BY <1>0, <1>5, <2>2, InBounds DEF WorkRow
    <3> QED
      BY <2>3, <3>1 DEF UpdatedCounter
  <2>5. PICK v : v = [w EXCEPT !.pc = "count", !.count = n]
    OBVIOUS
  <2>6. /\ v.pc = "count" /\ v.ceremony = w.ceremony /\ v.key = w.key
        /\ v.count = n /\ v.alone = w.alone
    BY <1>5, <2>5 DEF WorkRow
  <2>7. proc' = [proc EXCEPT ![p] = v]
    <3>1. proc = [q \in Procs |-> proc[q]]
      BY <1>0 DEF LocalsOK
    <3>2. proc' = [proc EXCEPT ![p].pc = "count", ![p].count = n]
      BY <1>6, <2>2, <2>3
    <3> QED
      BY <1>4, <2>5, <3>1, <3>2
  <2>8. Turn(p) /\ proc'[p] = v
    BY <1>0, <1>2, <1>4, <2>6, <2>7, GoesTurn
  <2>9. \A j \in ByKey(w.key) : j = i
    BY <1>0, <2>1, <2>2, OneRow
  <2>10. CountOf(p)'
    BY <1>1, <2>4, <2>6, <2>8, <2>9 DEF CountOf, ByKey
  <2>11. proc[p].pc \in LoginLabels /\ "count" \notin Setups
    BY <1>2 DEF LoginLabels, Answers, Setups
  <2> QED
    BY <1>2, <1>4, <2>6, <2>8, <2>10, <2>11 DEF Ordinary
<1>7. Ordinary(p) /\ CountOf(p)' /\ ~(Alone(p)' /\ proc'[p].pc \in Setups)
  BY <1>3, <1>4, <1>6 DEF LoginValidate
<1> QED
  BY <1>1, <1>7

LEMMA SaveCountTurn ==
    ASSUME IInv, NEW p \in Procs, SaveCount(p)
    PROVE  /\ Ordinary(p) /\ Marks /\ logins' = logins
           /\ ~(Alone(p)' /\ proc'[p].pc \in Late)
<1>0. LocalsOK /\ TablesOK
  BY DEF IInv
<1>1. Marks /\ logins' = logins
  BY DEF SaveCount, Marks, sessions
<1>2. ~At(p, "idle") /\ ~At(p, "drop") /\ proc[p].pc \in LoginLabels
  BY DEF SaveCount, At, LoginLabels, Answers
<1>3. PICK w : w = proc[p]
  OBVIOUS
<1>4. w \in WorkRow
  BY <1>0, <1>2, <1>3, AtWork
<1>5. PICK i : i = Min(ByKey(w.key))
  OBVIOUS
<1>6. PICK v : v = [w EXCEPT !.pc = "session", !.cred = i, !.key = 0, !.count = 0]
  OBVIOUS
<1>7. v.pc = "session" /\ v.ceremony = w.ceremony /\ v.alone = w.alone
  BY <1>4, <1>6 DEF WorkRow
<1>8. proc' = [proc EXCEPT ![p] = v]
  <2>1. proc = [q \in Procs |-> proc[q]]
    BY <1>0 DEF LocalsOK
  <2>2. proc' = [proc EXCEPT ![p].pc = "session", ![p].cred = i, ![p].key = 0, ![p].count = 0]
    BY <1>3, <1>5 DEF SaveCount
  <2> QED
    BY <1>3, <1>6, <2>1, <2>2
<1>9. Turn(p) /\ proc'[p] = v
  BY <1>0, <1>2, <1>3, <1>7, <1>8, GoesTurn
<1>10. "session" \notin Late
  BY DEF Late, Setups
<1> QED
  BY <1>1, <1>2, <1>3, <1>7, <1>9, <1>10 DEF Ordinary

\* A login without a ceremony, with a password.
LEMMA StoreLoginTurn ==
    ASSUME IInv, NEW p \in Procs, StoreLogin(p)
    PROVE  /\ Ordinary(p) /\ Marks /\ ~(Alone(p)' /\ proc'[p].pc \in Late)
           /\ ~At(p, "idle") /\ proc[p].pc = "session"
           /\ proc[p].ceremony = 0 => logins' = logins
<1>1. LocalsOK /\ ~At(p, "idle") /\ ~At(p, "drop") /\ proc[p].pc = "session"
  BY DEF IInv, StoreLogin, At
<1>2. Marks /\ Closes(p) /\ (proc[p].ceremony = 0 => logins' = logins)
  BY DEF StoreLogin, Marks
<1> QED
  BY <1>1, <1>2, ClosesOrdinary

LEMMA EndTurn ==
    ASSUME IInv, NEW p \in Procs, DeleteCeremony(p) \/ Stopped(p)
    PROVE  /\ Turn(p) /\ proc'[p] = Idle /\ ~At(p, "idle") /\ logins' = logins
           /\ ~(Alone(p)' /\ proc'[p].pc \in Late)
<1>1. LocalsOK /\ ~At(p, "idle") /\ Ends(p) /\ logins' = logins
  BY DEF IInv, DeleteCeremony, Stopped, At
<1>2. "idle" \notin Late
  BY DEF Late, Setups
<1> QED
  BY <1>1, <1>2, EndsTurn, IdleIsNoWork

LEMMA FinishLoginTurn ==
    ASSUME IInv, NEW p \in Procs, NEW c \in DOMAIN ceremonies, NEW i \in DOMAIN creds,
           NEW n \in 0 .. MaxCount, NEW h \in BOOLEAN, FinishLogin(p, c, i, n, h)
    PROVE  /\ Turn(p) /\ At(p, "idle") /\ ~At(p, "idle")' /\ logins' = logins
           /\ proc'[p].ceremony = c /\ proc'[p].pc \in {"identify", "validate"}
           /\ ~(Alone(p)' /\ proc'[p].pc \in Late)
<1>0. LocalsOK /\ TablesOK
  BY DEF IInv
<1>1. PICK l : l = IF h THEN "identify" ELSE "validate"
  OBVIOUS
<1>2. PICK u : u = IF h THEN creds[i].user ELSE ceremonies[c].user
  OBVIOUS
<1>3. PICK k : k = creds[i].key
  OBVIOUS
<1>4. PICK w : w = Work(l, c, u, k, n)
  OBVIOUS
<1>5. w \in WorkRow /\ w.pc = l /\ w.ceremony = c
  <2>1. l \in Labels
    BY <1>1 DEF Labels, Answers
  <2>2. c \in Nat /\ u \in Nat /\ k \in Keys \cup {0}
    BY <1>0, <1>2, <1>3, InBounds
  <2> QED
    BY <1>4, <2>1, <2>2, WorkIs
<1>6. At(p, "idle") /\ Starts(p, w) /\ logins' = logins
  BY <1>1, <1>2, <1>3, <1>4 DEF FinishLogin
<1>7. Turn(p) /\ ~At(p, "idle")' /\ proc'[p].pc = l /\ proc'[p].ceremony = c
  BY <1>0, <1>5, <1>6, StartsTurn
<1>8. l \in {"identify", "validate"} /\ l \notin Late
  BY <1>1 DEF Late, Setups
<1> QED
  BY <1>6, <1>7, <1>8

-----------------------------------------------------------------------------
(***************************************************************************)
(* What a setup that is alone has found, and what it has cleaned up.       *)
(***************************************************************************)
Cleared(p) ==
    Alone(p) =>
       /\ proc[p].pc = "passkeys" => NoPasswords
       /\ proc[p].pc \in Setups \ {"passkeys"} => NeedOOBE
       /\ proc[p].pc \in {"cleanOrgs", "create"} => \A u \in LiveUsers : ~users[u].new
       /\ proc[p].pc = "create" =>
             \A o \in DOMAIN orgs : orgs[o].live /\ orgs[o].new => orgs[o].members # {}

LEMMA SetupTurn ==
    ASSUME IInv, NEW p \in Procs, NEW n \in Names, Setup(p, n)
    PROVE  /\ Ordinary(p) /\ proc'[p].pc = "passkeys" /\ Cleared(p)'
<1>0. LocalsOK
  BY DEF IInv
<1>1. PICK w0 : w0 = Work("passkeys", 0, 0, 0, 0)
  OBVIOUS
<1>2. w0 \in WorkRow /\ w0.pc = "passkeys" /\ w0.ceremony = 0
  <2>1. "passkeys" \in Labels
    BY DEF Labels, Setups
  <2> QED
    BY <1>1, <2>1, Zeros, WorkIs
<1>8. PICK b \in BOOLEAN : b = NoPasswords
  BY DEF NoPasswords
<1>3. PICK w : w = [w0 EXCEPT !.name = n, !.alone = b]
  OBVIOUS
<1>4. w \in WorkRow /\ w.pc = "passkeys" /\ w.ceremony = 0 /\ w.alone = b
  BY <1>2, <1>3 DEF WorkRow
<1>5. At(p, "idle") /\ Starts(p, w)
  BY <1>1, <1>3, <1>8 DEF Setup
<1>6. /\ Turn(p) /\ proc'[p].pc = "passkeys" /\ proc'[p].ceremony = 0
      /\ Alone(p)' => w.alone
  BY <1>0, <1>4, <1>5, StartsTurn
<1>7. Alone(p)' => NoPasswords'
  <2>1. NoPasswords' <=> NoPasswords
    BY DEF Setup, accounts, NoPasswords, LiveUsers
  <2> QED
    BY <1>4, <1>6, <1>8, <2>1
<1> QED
  BY <1>5, <1>6, <1>7 DEF Ordinary, Cleared, At

LEMMA SetupLabelTurn ==
    ASSUME IInv, NEW p \in Procs, proc[p].pc \in Setups, NEW l \in Setups,
           Goes(p, l) \/ Fails(p, l)
    PROVE  /\ Ordinary(p) /\ proc'[p].pc = l /\ (Fails(p, l) => ~Alone(p)')
           /\ Alone(p)' => Alone(p)
<1>1. LocalsOK /\ ~At(p, "idle") /\ ~At(p, "drop") /\ l \in Labels /\ l \notin LoginLabels
  BY DEF IInv, At, Setups, Labels, LoginLabels, Answers
<1>2. Turn(p) /\ proc'[p].pc = l /\ proc'[p].ceremony = proc[p].ceremony
      /\ (Fails(p, l) => ~Alone(p)')
  BY <1>1, LabelTurn
<1> QED
  BY <1>1, <1>2 DEF Ordinary, Turn

LEMMA SetupGuardTurn ==
    ASSUME IInv, NEW p \in Procs, SetupGuard(p), Cleared(p)
    PROVE  Ordinary(p) /\ ~(Alone(p)' /\ At(p, "count")') /\ Cleared(p)'
<1>1. LocalsOK /\ proc[p].pc = "passkeys" /\ ~At(p, "idle") /\ ~At(p, "drop")
  BY DEF IInv, SetupGuard, At
<1>2. ASSUME Ends(p) PROVE Ordinary(p) /\ ~(Alone(p)' /\ At(p, "count")') /\ Cleared(p)'
  BY <1>1, <1>2, EndsOrdinary DEF Cleared, Late, Setups, At
<1>3. ASSUME NoPasskeys, Goes(p, "cleanBonds")
      PROVE  Ordinary(p) /\ ~(Alone(p)' /\ At(p, "count")') /\ Cleared(p)'
  <2>1. proc[p].pc \in Setups /\ "cleanBonds" \in Setups
    BY <1>1 DEF Setups
  <2>2. Ordinary(p) /\ proc'[p].pc = "cleanBonds" /\ (Alone(p)' => Alone(p))
    BY <1>3, <2>1, SetupLabelTurn
  <2>3. users' = users /\ creds' = creds
    BY DEF SetupGuard, Fails, accounts
  <2>4. Alone(p) => NeedOOBE'
    BY <1>1, <1>3, <2>3 DEF Cleared, NeedOOBE, NoPasswords, NoPasskeys, LiveUsers
  <2> QED
    BY <2>2, <2>4 DEF Cleared, At
<1>4. ASSUME Fails(p, "cleanBonds")
      PROVE  Ordinary(p) /\ ~(Alone(p)' /\ At(p, "count")') /\ Cleared(p)'
  <2>1. proc[p].pc \in Setups /\ "cleanBonds" \in Setups
    BY <1>1 DEF Setups
  <2>2. Ordinary(p) /\ ~Alone(p)'
    BY <1>4, <2>1, SetupLabelTurn
  <2> QED
    BY <2>2 DEF Cleared
<1> QED
  BY <1>2, <1>3, <1>4 DEF SetupGuard

LEMMA CleanBondsTurn ==
    ASSUME IInv, NEW p \in Procs, CleanBonds(p), Cleared(p)
    PROVE  Ordinary(p) /\ ~(Alone(p)' /\ At(p, "count")') /\ Cleared(p)'
<1>1. proc[p].pc = "cleanBonds" /\ proc[p].pc \in Setups \ {"passkeys"} /\ "cleanUsers" \in Setups
  BY DEF CleanBonds, At, Setups
<1>2. Goes(p, "cleanUsers") \/ Fails(p, "cleanUsers")
  BY DEF CleanBonds
<1>3. Ordinary(p) /\ proc'[p].pc = "cleanUsers" /\ (Alone(p)' => Alone(p))
  BY <1>1, <1>2, SetupLabelTurn
<1>4. users' = users /\ creds' = creds
  BY DEF CleanBonds, Fails, accounts
<1>5. Alone(p) => NeedOOBE'
  BY <1>1, <1>4 DEF Cleared, NeedOOBE, NoPasswords, NoPasskeys, LiveUsers
<1> QED
  BY <1>3, <1>5 DEF Cleared, At

LEMMA CleanOrgsTurn ==
    ASSUME IInv, NEW p \in Procs, CleanOrgs(p), Cleared(p)
    PROVE  Ordinary(p) /\ ~(Alone(p)' /\ At(p, "count")') /\ Cleared(p)'
<1>1. proc[p].pc = "cleanOrgs" /\ proc[p].pc \in Setups \ {"passkeys"} /\ "create" \in Setups
  BY DEF CleanOrgs, At, Setups
<1>2. Goes(p, "create") \/ Fails(p, "create")
  BY DEF CleanOrgs
<1>3. /\ Ordinary(p) /\ proc'[p].pc = "create" /\ (Alone(p)' => Alone(p))
      /\ Fails(p, "create") => ~Alone(p)'
  BY <1>1, <1>2, SetupLabelTurn
<1>4. users' = users /\ creds' = creds
  BY DEF CleanOrgs, Fails, accounts
<1>5. Alone(p) => NeedOOBE' /\ \A u \in LiveUsers' : ~users'[u].new
  BY <1>1, <1>4 DEF Cleared, NeedOOBE, NoPasswords, NoPasskeys, LiveUsers
<1>6. ASSUME Alone(p)', NEW o \in DOMAIN orgs', orgs'[o].live, orgs'[o].new
      PROVE  orgs'[o].members # {}
  <2>1. orgs' = [x \in DOMAIN orgs |->
                    [orgs[x] EXCEPT !.live = @ /\ (orgs[x].members # {} \/ ~orgs[x].new)]]
    BY <1>3, <1>6 DEF CleanOrgs
  <2>2. PICK r : r = orgs[o]
    OBVIOUS
  <2>3. o \in DOMAIN orgs
    BY <2>1
  <2>4. r \in OrgRow
    BY <2>2, <2>3 DEF IInv, TablesOK
  <2>5. PICK b \in BOOLEAN : b = (r.live /\ (r.members # {} \/ ~r.new))
    OBVIOUS
  <2>6. PICK s : s = [r EXCEPT !.live = b]
    OBVIOUS
  <2>7. s.live = b /\ s.members = r.members /\ s.new = r.new
    BY <2>4, <2>6 DEF OrgRow
  <2>8. orgs'[o] = s
    BY <2>1, <2>2, <2>3, <2>5, <2>6
  <2>9. s.live /\ s.new
    BY <1>6, <2>8
  <2> QED
    BY <2>5, <2>7, <2>8, <2>9
<1> QED
  BY <1>3, <1>5, <1>6 DEF Cleared, At

LEMMA CleanUsersTurn ==
    ASSUME IInv, NEW p \in Procs, CleanUsers(p), Cleared(p)
    PROVE  Ordinary(p) /\ ~(Alone(p)' /\ At(p, "count")') /\ Cleared(p)'
<1>1. proc[p].pc = "cleanUsers" /\ proc[p].pc \in Setups \ {"passkeys"} /\ "cleanOrgs" \in Setups
  BY DEF CleanUsers, At, Setups
<1>2. Goes(p, "cleanOrgs") \/ Fails(p, "cleanOrgs")
  BY DEF CleanUsers
<1>3. /\ Ordinary(p) /\ proc'[p].pc = "cleanOrgs" /\ (Alone(p)' => Alone(p))
      /\ Fails(p, "cleanOrgs") => ~Alone(p)'
  BY <1>1, <1>2, SetupLabelTurn
<1>4. ASSUME Alone(p)' PROVE NeedOOBE' /\ \A u \in LiveUsers' : ~users'[u].new
  <2>1. /\ users' = [u \in DOMAIN users |-> [users[u] EXCEPT !.live = @ /\ u \notin Orphans]]
        /\ creds' = [i \in DOMAIN creds |->
                        [creds[i] EXCEPT !.live = @ /\ creds[i].user \notin Orphans]]
    BY <1>3, <1>4 DEF CleanUsers
  <2>2. NoPasswords /\ NoPasskeys
    BY <1>1, <1>3, <1>4 DEF Cleared, NeedOOBE
  <2>3. PICK X : X = Orphans
    OBVIOUS
  <2>4. \A u \in DOMAIN users : users[u].live /\ users[u].new => u \in X
    BY <2>2, <2>3 DEF Orphans, Orphaned, NoPasswords, NoPasskeys, CredsOf, LiveUsers
  <2>5. DOMAIN users' = DOMAIN users /\
        \A u \in DOMAIN users :
           users'[u].live => users[u].live /\ users'[u].name = users[u].name /\ ~users'[u].new
    <3> SUFFICES ASSUME NEW u \in DOMAIN users, users'[u].live
                 PROVE  users[u].live /\ users'[u].name = users[u].name /\ ~users'[u].new
      BY <2>1
    <3>1. PICK r : r = users[u]
      OBVIOUS
    <3>2. r \in UserRow
      BY <3>1 DEF IInv, TablesOK
    <3>3. PICK b \in BOOLEAN : b = (r.live /\ u \notin X)
      OBVIOUS
    <3>4. PICK s : s = [r EXCEPT !.live = b]
      OBVIOUS
    <3>5. s.live = b /\ s.name = r.name /\ s.new = r.new
      BY <3>2, <3>4 DEF UserRow
    <3>6. users'[u] = s
      BY <2>1, <2>3, <3>1, <3>3, <3>4
    <3>7. s.live
      BY <3>6
    <3> QED
      BY <2>4, <3>1, <3>3, <3>5, <3>6, <3>7
  <2>6. \A i \in DOMAIN creds' : ~creds'[i].live
    <3> SUFFICES ASSUME NEW i \in DOMAIN creds PROVE ~creds'[i].live
      BY <2>1
    <3>1. PICK r : r = creds[i]
      OBVIOUS
    <3>2. r \in CredRow /\ ~r.live
      BY <2>2, <3>1 DEF IInv, TablesOK, NoPasskeys
    <3>3. PICK b \in BOOLEAN : b = (r.live /\ r.user \notin X)
      OBVIOUS
    <3>4. PICK s : s = [r EXCEPT !.live = b]
      OBVIOUS
    <3>5. s.live = b
      BY <3>2, <3>4 DEF CredRow
    <3>6. creds'[i] = s
      BY <2>1, <2>3, <3>1, <3>3, <3>4
    <3> QED
      BY <3>2, <3>3, <3>5, <3>6
  <2> QED
    BY <2>2, <2>5, <2>6 DEF NeedOOBE, NoPasswords, NoPasskeys, LiveUsers
<1> QED
  BY <1>3, <1>4 DEF Cleared, At

LEMMA SetupCreateTurn ==
    ASSUME IInv, NEW p \in Procs, SetupCreate(p)
    PROVE  Ordinary(p) /\ ~(Alone(p)' /\ proc'[p].pc \in Late)
<1>1. LocalsOK /\ ~At(p, "idle") /\ ~At(p, "drop") /\ Ends(p)
  BY DEF IInv, SetupCreate, At
<1> QED
  BY <1>1, EndsOrdinary

LEMMA SetupStepTurn ==
    ASSUME IInv, NEW p \in Procs, SetupStep(p), Cleared(p)
    PROVE  /\ Ordinary(p) /\ Marks /\ logins' = logins
           /\ CountOf(p)' /\ Cleared(p)'
<1>1. Marks /\ logins' = logins
  BY DEF SetupStep, Setup, SetupGuard, CleanBonds, CleanUsers, CleanOrgs, SetupCreate,
         sessions, Marks
<1>2. CASE \E n \in Names : Setup(p, n)
  BY <1>1, <1>2, SetupTurn DEF CountOf, At
<1>3. CASE SetupGuard(p) \/ CleanBonds(p) \/ CleanUsers(p) \/ CleanOrgs(p)
  <2>1. Ordinary(p) /\ ~(Alone(p)' /\ At(p, "count")') /\ Cleared(p)'
    BY <1>3, SetupGuardTurn, CleanBondsTurn, CleanUsersTurn, CleanOrgsTurn
  <2> QED
    BY <1>1, <2>1 DEF CountOf
<1>4. CASE SetupCreate(p)
  <2>1. Ordinary(p) /\ ~(Alone(p)' /\ proc'[p].pc \in Late)
    BY <1>4, SetupCreateTurn
  <2>2. CountOf(p)' /\ Cleared(p)'
    BY <2>1 DEF CountOf, Cleared, Late, Setups, At
  <2> QED
    BY <1>1, <2>1, <2>2
<1> QED
  BY <1>2, <1>3, <1>4 DEF SetupStep

-----------------------------------------------------------------------------
(***************************************************************************)
(* Whoever is alone is the only one in flight, so nothing of what it has   *)
(* found changes but by its own turns.                                     *)
(***************************************************************************)
Solo == \A p \in Procs : Alone(p) => \A q \in Procs \ {p} : At(q, "idle")

Undisturbed == Solo /\ \A p \in Procs : CountOf(p) /\ Cleared(p)

LEMMA OwnTurn ==
    ASSUME LocalsOK, Solo, NEW p \in Procs, Turn(p)
    PROVE  /\ \A q \in Procs \ {p} : ~Alone(q)'
           /\ Solo'
<1>1. ASSUME NEW q \in Procs \ {p} PROVE ~Alone(q)'
  <2>1. CASE At(p, "idle")
    BY <1>1, <2>1 DEF Turn
  <2>2. CASE ~At(p, "idle")
    BY <1>1, <2>2, Keeps DEF Turn, Solo
  <2> QED
    BY <2>1, <2>2
<1>2. ASSUME Alone(p)', NEW q \in Procs \ {p} PROVE At(q, "idle")'
  <2>1. At(q, "idle")
    BY <1>2 DEF Turn, Solo, Busy
  <2> QED
    BY <1>2, <2>1, Keeps DEF Turn, At
<1> QED
  BY <1>1, <1>2 DEF Solo

\* A turn by which p does not come to what is said of those who are alone.
LEMMA ElsewhereTurn ==
    ASSUME NEW p \in Procs, ~(Alone(p)' /\ proc'[p].pc \in Late)
    PROVE  CountOf(p)' /\ Cleared(p)'
BY DEF CountOf, Cleared, Late, At, Setups

LEMMA LoginStepTurn ==
    ASSUME IInv, NEW p \in Procs, LoginStep(p)
    PROVE  Turn(p) /\ CountOf(p)' /\ Cleared(p)'
<1>1. CASE Registration(p) \/ RegistrationEnd(p)
  BY <1>1, RegistrationTurn, ElsewhereTurn DEF Ordinary
<1>2. CASE LoginStart(p) \/ (\E u \in LiveUsers : PasswordLogin(p, u)) \/ Refused(p)
  BY <1>2, LoginStartTurn, ElsewhereTurn DEF Ordinary
<1>3. CASE \E c \in DOMAIN ceremonies, i \in DOMAIN creds, n \in 0 .. MaxCount, h \in BOOLEAN :
              FinishLogin(p, c, i, n, h)
  BY <1>3, FinishLoginTurn, ElsewhereTurn
<1>4. CASE LoginValidate(p)
  BY <1>4, LoginValidateTurn DEF Ordinary, Cleared, Setups
<1>5. CASE SaveCount(p) \/ StoreLogin(p)
  BY <1>5, SaveCountTurn, StoreLoginTurn, ElsewhereTurn DEF Ordinary
<1>6. CASE DeleteCeremony(p) \/ Stopped(p)
  BY <1>6, EndTurn, ElsewhereTurn
<1> QED
  BY <1>1, <1>2, <1>3, <1>4, <1>5, <1>6 DEF LoginStep, LoginEnd

LEMMA UndisturbedStays ==
    ASSUME IInv, Undisturbed, [Next]_vars
    PROVE  Undisturbed'
<1>1. ASSUME NEW p \in Procs, LoginStep(p) \/ SetupStep(p) PROVE Undisturbed'
  <2>1. Turn(p) /\ CountOf(p)' /\ Cleared(p)'
    BY <1>1, LoginStepTurn, SetupStepTurn DEF Ordinary, Undisturbed
  <2>2. Solo' /\ \A q \in Procs \ {p} : ~Alone(q)'
    BY <2>1, OwnTurn DEF IInv, Undisturbed
  <2> QED
    BY <2>1, <2>2 DEF Undisturbed, CountOf, Cleared
<1>2. CASE Age
  <2>1. \A p \in Procs : ~Alone(p)'
    BY <1>2 DEF Age, Alone, Busy, At
  <2> QED
    BY <2>1 DEF Undisturbed, Solo, CountOf, Cleared
<1>3. CASE UNCHANGED vars
  <2>1. users' = users /\ creds' = creds /\ orgs' = orgs /\ proc' = proc
    BY <1>3 DEF vars
  <2> QED
    BY <2>1 DEF Undisturbed, Solo, CountOf, Cleared, Alone, At, NeedOOBE, NoPasswords,
                NoPasskeys, LiveUsers, ByKey
<1> QED
  BY <1>1, <1>2, <1>3 DEF Next

LEMMA UndisturbedInit ==
    ASSUME Init
    PROVE  Undisturbed
<1>1. \A p \in Procs : At(p, "idle")
  BY IdleIsNoWork DEF Init, At
<1> QED
  BY <1>1 DEF Undisturbed, Solo, CountOf, Cleared, Alone

\* No step but SaveCount changes a count.
CountsStay == \A i \in DOMAIN creds : creds'[i].count = creds[i].count

LEMMA CredsStay ==
    ASSUME IInv, NEW p \in Procs, LoginStep(p) \/ SetupStep(p)
    PROVE  CountsStay \/ SaveCount(p)
<1>0. creds \in Seq(CredRow)
  BY DEF IInv, TablesOK
<1>1. ASSUME CreateCredential(p) PROVE CountsStay
  <2>1. PICK r : r = Cred(proc[p].user, proc[p].key, proc[p].count)
    OBVIOUS
  <2>2. PICK S : S = CredRow \cup {r}
    OBVIOUS
  <2>3. creds \in Seq(S) /\ r \in S
    BY <1>0, <2>2
  <2>4. creds' = Append(creds, r)
    BY <1>1, <2>1 DEF CreateCredential
  <2> QED
    BY <2>3, <2>4, Appended DEF CountsStay
<1>2. ASSUME CleanUsers(p) PROVE CountsStay
  <2>1. CASE UNCHANGED accounts
    BY <2>1 DEF CountsStay, accounts
  <2>2. CASE creds' = [i \in DOMAIN creds |->
                          [creds[i] EXCEPT !.live = @ /\ creds[i].user \notin Orphans]]
    <3> SUFFICES ASSUME NEW i \in DOMAIN creds PROVE creds'[i].count = creds[i].count
      BY DEF CountsStay
    <3>1. PICK r : r = creds[i]
      OBVIOUS
    <3>2. r \in CredRow
      BY <1>0, <3>1
    <3>3. PICK b : b = (r.live /\ r.user \notin Orphans)
      OBVIOUS
    <3>4. PICK s : s = [r EXCEPT !.live = b]
      OBVIOUS
    <3>5. s.count = r.count
      BY <3>2, <3>4 DEF CredRow
    <3>6. creds'[i] = s
      BY <2>2, <3>1, <3>3, <3>4
    <3> QED
      BY <3>1, <3>5, <3>6
  <2> QED
    BY <1>2, <2>1, <2>2 DEF CleanUsers, Fails
<1>3. CASE creds' = creds
  BY <1>3 DEF CountsStay
<1>4. creds' = creds \/ CreateCredential(p) \/ CleanUsers(p) \/ SaveCount(p)
  <2>1. ASSUME LoginStep(p) PROVE creds' = creds \/ CreateCredential(p) \/ SaveCount(p)
    <3>1. CASE Registration(p) \/ RegistrationEnd(p)
      BY <3>1 DEF Registration, RegistrationEnd, BeginRegistration, RegistrationChallenge,
                  FinishRegistration, RegistrationVerify, accounts
    <3>2. CASE LoginStart(p) \/ LoginEnd(p)
      BY <3>2 DEF LoginStart, BeginLogin, BeginDiscoverableLogin, LoginOffer,
                  LoginEnd, FinishLogin, LoginValidate, StoreLogin, accounts
    <3>3. CASE (\E u \in LiveUsers : PasswordLogin(p, u)) \/ DeleteCeremony(p)
                \/ Refused(p) \/ Stopped(p)
      BY <3>3 DEF PasswordLogin, DeleteCeremony, Refused, Stopped, accounts
    <3> QED
      BY <2>1, <3>1, <3>2, <3>3 DEF LoginStep
  <2>2. ASSUME SetupStep(p) PROVE creds' = creds \/ CleanUsers(p)
    BY <2>2 DEF SetupStep, Setup, SetupGuard, CleanBonds, CleanOrgs, SetupCreate, Fails, accounts
  <2> QED
    BY <2>1, <2>2
<1> QED
  BY <1>1, <1>2, <1>3, <1>4

LEMMA CountsGrow ==
    ASSUME IInv, Undisturbed, [Next]_vars, NEW p \in Procs, NEW i \in DOMAIN creds,
           At(p, "count"), proc[p].alone
    PROVE  creds'[i].count >= creds[i].count
<1>0. TablesOK /\ creds[i].count \in Int
  <2>1. creds[i].count \in 0 .. MaxCount
    BY InBounds DEF IInv
  <2> QED
    BY <2>1 DEF IInv
<1>1. Alone(p)
  BY DEF Alone, At
<1>2. CASE CountsStay
  BY <1>0, <1>2 DEF CountsStay
<1>3. ASSUME NEW q \in Procs, SaveCount(q) PROVE creds'[i].count >= creds[i].count
  <2>1. q = p
    <3>1. ~At(q, "idle")
      BY <1>3 DEF SaveCount, At
    <3> QED
      BY <1>1, <3>1 DEF Undisturbed, Solo
  <2>2. PICK k : k = proc[p].key
    OBVIOUS
  <2>3. PICK n : n = proc[p].count
    OBVIOUS
  <2>4. PICK j \in ByKey(k) : TRUE
    <3>1. proc[p] \in WorkRow /\ Sound(proc[p])
      BY <1>1, AtWork DEF IInv, Alone
    <3> QED
      BY <2>2, <3>1 DEF Sound, At
  <2>5. j \in DOMAIN creds /\ Min(ByKey(k)) = j
    BY <1>0, <2>4, OneRow
  <2>6. n >= creds[j].count
    BY <1>1, <2>2, <2>3, <2>4 DEF Undisturbed, CountOf
  <2>7. creds' = [creds EXCEPT ![j].count = n] \/ creds' = creds
    BY <1>3, <2>1, <2>2, <2>3, <2>5 DEF SaveCount
  <2>8. CASE creds' = creds
    BY <1>0, <2>8
  <2>9. CASE creds' = [creds EXCEPT ![j].count = n]
    <3>1. PICK r : r = creds[j]
      OBVIOUS
    <3>2. r \in CredRow
      BY <1>0, <2>5, <3>1 DEF TablesOK
    <3>3. PICK s : s = [r EXCEPT !.count = n]
      OBVIOUS
    <3>4. s.count = n
      BY <3>2, <3>3 DEF CredRow
    <3>5. creds' = [creds EXCEPT ![j] = s]
      BY <2>9, <3>1, <3>3, Zenon
    <3>6. creds'[i] = IF i = j THEN s ELSE creds[i]
      BY <3>5
    <3> QED
      BY <1>0, <2>6, <3>4, <3>6
  <2> QED
    BY <2>7, <2>8, <2>9
<1>4. ASSUME NEW q \in Procs, LoginStep(q) \/ SetupStep(q) PROVE creds'[i].count >= creds[i].count
  BY <1>2, <1>3, <1>4, CredsStay
<1>5. CASE Age \/ UNCHANGED vars
  BY <1>0, <1>5 DEF Age, vars
<1> QED
  BY <1>4, <1>5 DEF Next

LEMMA UndisturbedAlways == Spec => [](IInv /\ Undisturbed)
<1>1. Init => IInv /\ Undisturbed
  BY InitHolds, UndisturbedInit
<1>2. IInv /\ Undisturbed /\ [Next]_vars => (IInv /\ Undisturbed)'
  BY NextKeeps, UndisturbedStays DEF Good
<1> QED
  BY <1>1, <1>2, PTL DEF Spec

\* The stored count of a passkey never falls, for any number of requests,
\* accounts and passkeys and whatever fails, unless another request overlaps
\* the login (UpdateCounter, FinishLogin).
THEOREM CountersGrow == Spec => CounterGrows
<1>1. IInv /\ Undisturbed /\ [Next]_vars =>
         [\A p \in Procs, i \in DOMAIN creds :
             At(p, "count") /\ proc[p].alone => creds'[i].count >= creds[i].count]_vars
  BY CountsGrow
<1> QED
  BY <1>1, UndisturbedAlways, PTL DEF Spec, CounterGrows

\* An undisturbed setup only creates its organization where nobody could log
\* in, after everything new that nobody owns has been cleaned up
\* (OOBEHandler, cleanupOrphanedOOBE), for any number of leftovers.
THEOREM SetupsStartFresh == Spec => FreshStart
<1>1. ASSUME Undisturbed, NEW p \in Procs, At(p, "create"), proc[p].alone
      PROVE  /\ NeedOOBE
             /\ \A u \in LiveUsers : ~users[u].new
             /\ \A o \in DOMAIN orgs : orgs[o].live /\ orgs[o].new => orgs[o].members # {}
  <2>1. Alone(p) /\ proc[p].pc = "create" /\ proc[p].pc \in Setups \ {"passkeys"}
    BY <1>1 DEF Alone, At, Setups
  <2>2. Cleared(p)
    BY <1>1 DEF Undisturbed
  <2> QED
    BY <2>1, <2>2 DEF Cleared
<1>2. IInv /\ Undisturbed /\ [Next]_vars =>
         [\A p \in Procs : At(p, "create") /\ proc[p].alone /\ Len(orgs') > Len(orgs) =>
             /\ NeedOOBE
             /\ \A u \in LiveUsers : ~users[u].new
             /\ \A o \in DOMAIN orgs : orgs[o].live /\ orgs[o].new => orgs[o].members # {}]_vars
  BY <1>1
<1> QED
  BY <1>2, UndisturbedAlways, PTL DEF Spec, FreshStart

-----------------------------------------------------------------------------
(***************************************************************************)
(* One login for a ceremony.  While a challenge is not spoilt one request  *)
(* at most answers it, and when it has led to a login, that request is     *)
(* about to delete it, or it is deleted.                                   *)
(***************************************************************************)
Answering(p, c) == ~At(p, "idle") /\ proc[p].ceremony = c

Unspoilt(c) == ceremonies[c].kind = "login" /\ ~ceremonies[c].spoilt

CeremonySingle(c) ==
    /\ \A p, q \in Procs : p # q /\ Answering(p, c) => ~Answering(q, c)
    /\ \A l \in DOMAIN logins : logins[l].ceremony = c =>
          /\ \A p \in Procs : Answering(p, c) => At(p, "drop")
          /\ ceremonies[c].live => \E p \in Procs : Answering(p, c)
          /\ \A m \in DOMAIN logins : m # l => logins[m].ceremony # c

Asked(p) ==
    ~At(p, "idle") =>
       /\ proc[p].ceremony \in DOMAIN ceremonies \cup {0}
       /\ proc[p].pc \in LoginLabels /\ proc[p].ceremony # 0 =>
             ceremonies[proc[p].ceremony].kind = "login"

\* A login is of a challenge to log in.
LoginsAsked ==
    \A l \in DOMAIN logins :
       logins[l].ceremony # 0 => ceremonies[logins[l].ceremony].kind = "login"

Single ==
    /\ \A c \in DOMAIN ceremonies : Unspoilt(c) => CeremonySingle(c)
    /\ \A p \in Procs : Asked(p)
    /\ LoginsAsked

\* Another goroutine answers what it did.
LEMMA OthersAnswer ==
    ASSUME LocalsOK, NEW p \in Procs, Turn(p), NEW q \in Procs \ {p}
    PROVE  /\ At(q, "idle")' <=> At(q, "idle")
           /\ At(q, "drop")' <=> At(q, "drop")
           /\ \A c : Answering(q, c)' <=> Answering(q, c)
           /\ Marks /\ Asked(q) => Asked(q)'
<1>1. /\ proc'[q].pc = proc[q].pc
      /\ ~At(q, "idle") => proc'[q].ceremony = proc[q].ceremony
  BY Keeps DEF Turn
<1>2. /\ At(q, "idle")' <=> At(q, "idle")
      /\ At(q, "drop")' <=> At(q, "drop")
      /\ \A c : Answering(q, c)' <=> Answering(q, c)
  BY <1>1 DEF At, Answering
<1>3. ASSUME Marks, Asked(q) PROVE Asked(q)'
  BY <1>1, <1>2, <1>3 DEF Asked, Marks
<1> QED
  BY <1>2, <1>3

\* No goroutine and no login is of a challenge that there was not.
LEMMA NewCeremony ==
    ASSUME IInv, Single, NEW c, c \notin DOMAIN ceremonies, c # 0
    PROVE  /\ \A q \in Procs : ~Answering(q, c)
           /\ \A l \in DOMAIN logins : logins[l].ceremony # c
<1>1. \A q \in Procs : ~Answering(q, c)
  BY DEF Single, Asked, Answering
<1>2. \A l \in DOMAIN logins : logins[l].ceremony # c
  BY DEF IInv, LoginsOK, Earned, AskedOf
<1> QED
  BY <1>1, <1>2

LEMMA LoginsStayAsked ==
    ASSUME IInv, LoginsAsked, Marks, logins' = logins
    PROVE  LoginsAsked'
<1> SUFFICES ASSUME NEW l \in DOMAIN logins, logins[l].ceremony # 0
             PROVE  ceremonies'[logins[l].ceremony].kind = "login"
  BY DEF LoginsAsked
<1>1. logins[l].ceremony \in DOMAIN ceremonies
  BY DEF IInv, LoginsOK, Earned, AskedOf
<1> QED
  BY <1>1 DEF LoginsAsked, Marks

LEMMA OrdinarySingle ==
    ASSUME IInv, Single, NEW p \in Procs, Ordinary(p), Marks, logins' = logins,
           \A c \in DOMAIN ceremonies' : c # 0
    PROVE  Single'
<1>0. LocalsOK /\ Turn(p)
  BY DEF IInv, Ordinary
<1>1. ASSUME NEW q \in Procs PROVE Asked(q)'
  <2>1. CASE q # p
    BY <1>0, <2>1, OthersAnswer DEF Single
  <2>2. CASE q = p
    BY <2>2 DEF Ordinary, Single, Asked, Marks
  <2> QED
    BY <2>1, <2>2
<1>2. ASSUME NEW c \in DOMAIN ceremonies', Unspoilt(c)' PROVE CeremonySingle(c)'
  <2>1. ASSUME Answering(p, c)'
        PROVE  c \in DOMAIN ceremonies /\ Answering(p, c) /\ ~At(p, "drop")
    <3>1. ~At(p, "idle")' /\ proc'[p].ceremony = c /\ c # 0
      BY <1>2, <2>1 DEF Answering
    <3>2. ~(c \in DOMAIN ceremonies /\ ceremonies[c].kind = "register")
      BY <1>2 DEF Unspoilt, Marks
    <3>3. ~At(p, "idle") /\ proc[p].ceremony = c /\ ~At(p, "drop")
      BY <3>1, <3>2 DEF Ordinary
    <3>4. c \in DOMAIN ceremonies
      BY <3>1, <3>3 DEF Single, Asked
    <3> QED
      BY <3>3, <3>4 DEF Answering
  <2>2. CASE c \in DOMAIN ceremonies
    <3>1. Unspoilt(c) /\ CeremonySingle(c)
      BY <1>2, <2>2 DEF Unspoilt, Marks, Single
    <3>2. \A q \in Procs : Answering(q, c)' => Answering(q, c)
      BY <1>0, <2>1, OthersAnswer
    <3>3. \A r, q \in Procs : r # q /\ Answering(r, c)' => ~Answering(q, c)'
      BY <3>1, <3>2 DEF CeremonySingle
    <3>4. ASSUME NEW l \in DOMAIN logins, logins[l].ceremony = c
          PROVE  /\ \A q \in Procs : Answering(q, c)' => At(q, "drop")'
                 /\ ceremonies'[c].live => \E q \in Procs : Answering(q, c)'
                 /\ \A m \in DOMAIN logins : m # l => logins[m].ceremony # c
      <4>1. \A q \in Procs : Answering(q, c) => At(q, "drop") /\ q # p
        BY <3>1, <3>4 DEF CeremonySingle, Ordinary
      <4>2. \A q \in Procs : Answering(q, c)' => At(q, "drop")'
        BY <1>0, <2>1, <3>2, <4>1, OthersAnswer
      <4>3. ceremonies'[c].live => \E q \in Procs : Answering(q, c)'
        <5>1. ceremonies'[c].live => \E q \in Procs : Answering(q, c)
          BY <2>2, <3>1, <3>4 DEF CeremonySingle, Marks
        <5> QED
          BY <1>0, <4>1, <5>1, OthersAnswer
      <4> QED
        BY <3>1, <3>4, <4>2, <4>3 DEF CeremonySingle
    <3> QED
      BY <3>3, <3>4 DEF CeremonySingle
  <2>3. CASE c \notin DOMAIN ceremonies
    <3>1. /\ \A q \in Procs : ~Answering(q, c)
          /\ \A l \in DOMAIN logins : logins[l].ceremony # c
      BY <1>2, <2>3, NewCeremony
    <3>2. \A q \in Procs : ~Answering(q, c)'
      BY <1>0, <2>1, <3>1, OthersAnswer
    <3> QED
      BY <3>1, <3>2 DEF CeremonySingle
  <2> QED
    BY <2>2, <2>3
<1>3. LoginsAsked'
  BY LoginsStayAsked DEF Single
<1> QED
  BY <1>1, <1>2, <1>3 DEF Single

\* An answer: if the challenge stays unspoilt nobody else has it, so it has
\* led to no login, or else it would have been deleted.
LEMMA FinishLoginSingle ==
    ASSUME IInv, Single, NEW p \in Procs, NEW c \in DOMAIN ceremonies, NEW i \in DOMAIN creds,
           NEW n \in 0 .. MaxCount, NEW h \in BOOLEAN, FinishLogin(p, c, i, n, h)
    PROVE  Single'
<1>0. LocalsOK /\ ceremonies \in Seq(CeremonyRow)
  BY DEF IInv, TablesOK
<1>1. /\ Turn(p) /\ At(p, "idle") /\ ~At(p, "idle")' /\ logins' = logins
      /\ proc'[p].ceremony = c /\ proc'[p].pc \in {"identify", "validate"}
  BY FinishLoginTurn
<1>2. PICK b \in BOOLEAN : b = (ceremonies[c].spoilt \/ \E q \in Busy : proc[q].ceremony = c)
  OBVIOUS
<1>3. ceremonies[c].live /\ ceremonies[c].kind = "login"
  BY DEF FinishLogin, Stored
<1>4. /\ DOMAIN ceremonies' = DOMAIN ceremonies
      /\ ceremonies'[c].spoilt = b /\ ceremonies'[c].live /\ ceremonies'[c].kind = "login"
      /\ \A d \in DOMAIN ceremonies : d # c => ceremonies'[d] = ceremonies[d]
  <2>1. PICK r : r = ceremonies[c]
    OBVIOUS
  <2>2. r \in CeremonyRow
    BY <1>0, <2>1
  <2>3. PICK s : s = [r EXCEPT !.spoilt = b]
    OBVIOUS
  <2>4. s.spoilt = b /\ s.live = r.live /\ s.kind = r.kind
    BY <2>2, <2>3 DEF CeremonyRow
  <2>5. ceremonies' = [ceremonies EXCEPT ![c] = s]
    <3>1. ceremonies' = [ceremonies EXCEPT ![c].spoilt =
                            @ \/ \E q \in Busy : proc[q].ceremony = c]
      BY DEF FinishLogin, Shares
    <3> QED
      BY <1>2, <2>1, <2>3, <3>1, Zenon
  <2>6. /\ DOMAIN ceremonies' = DOMAIN ceremonies /\ ceremonies'[c] = s
        /\ \A d \in DOMAIN ceremonies : d # c => ceremonies'[d] = ceremonies[d]
    BY <2>5
  <2> QED
    BY <1>3, <2>1, <2>4, <2>6
<1>5. Marks
  BY <1>2, <1>3, <1>4 DEF Marks
<1>6. ASSUME NEW q \in Procs PROVE Asked(q)'
  <2>1. CASE q # p
    BY <1>0, <1>1, <1>5, <2>1, OthersAnswer DEF Single
  <2>2. CASE q = p
    BY <1>1, <1>4, <2>2 DEF Asked
  <2> QED
    BY <2>1, <2>2
<1>7. ASSUME NEW d \in DOMAIN ceremonies, d # c, Unspoilt(d)' PROVE CeremonySingle(d)'
  <2>1. Unspoilt(d) /\ CeremonySingle(d)
    BY <1>4, <1>7 DEF Unspoilt, Single
  <2>2. ~Answering(p, d) /\ ~Answering(p, d)'
    BY <1>1, <1>7 DEF Answering
  <2>3. \A q \in Procs : /\ Answering(q, d)' <=> Answering(q, d)
                         /\ Answering(q, d) => (At(q, "drop")' <=> At(q, "drop"))
    BY <1>0, <1>1, <2>2, OthersAnswer
  <2>4. logins' = logins /\ ceremonies'[d].live = ceremonies[d].live
    BY <1>1, <1>4, <1>7
  <2> QED
    BY <2>1, <2>3, <2>4 DEF CeremonySingle
<1>8. ASSUME Unspoilt(c)' PROVE CeremonySingle(c)'
  <2>1. \A q \in Procs : ~Answering(q, c)
    BY <1>2, <1>4, <1>8 DEF Unspoilt, Answering, Busy
  <2>2. Unspoilt(c) /\ CeremonySingle(c)
    BY <1>2, <1>3, <1>4, <1>8 DEF Unspoilt, Single
  <2>3. \A l \in DOMAIN logins : logins[l].ceremony # c
    BY <1>3, <2>1, <2>2 DEF CeremonySingle
  <2>4. \A q \in Procs \ {p} : ~Answering(q, c)'
    BY <1>0, <1>1, <2>1, OthersAnswer
  <2> QED
    BY <1>1, <2>3, <2>4 DEF CeremonySingle
<1>9. LoginsAsked'
  BY <1>1, <1>5, LoginsStayAsked DEF Single
<1> QED
  BY <1>4, <1>6, <1>7, <1>8, <1>9 DEF Single

\* The request that had the challenge has led to the login, and deletes it next.
LEMMA StoreLoginSingle ==
    ASSUME IInv, Single, NEW p \in Procs, StoreLogin(p)
    PROVE  Single'
<1>0. LocalsOK /\ \A d \in DOMAIN ceremonies : d # 0
  BY InBounds DEF IInv
<1>1. /\ Ordinary(p) /\ Marks /\ ceremonies' = ceremonies
      /\ ~At(p, "idle") /\ proc[p].pc = "session"
  BY StoreLoginTurn DEF StoreLogin
<1>2. CASE proc[p].ceremony = 0
  BY <1>0, <1>1, <1>2, StoreLoginTurn, OrdinarySingle
<1>3. CASE proc[p].ceremony # 0
  <2>1. PICK c : c = proc[p].ceremony
    OBVIOUS
  <2>2. PICK s : s = LoginSession(proc[p].user, proc[p].ceremony, proc[p].cred)
    OBVIOUS
  <2>3. s.ceremony = c
    BY <2>1, <2>2 DEF LoginSession
  <2>4. PICK n : n = Len(logins) + 1
    OBVIOUS
  <2>5. /\ DOMAIN logins' = DOMAIN logins \cup {n} /\ n \notin DOMAIN logins
        /\ logins'[n] = s
        /\ \A l \in DOMAIN logins : logins'[l] = logins[l]
    <3>1. logins' = Append(logins, s)
      BY <1>3, <2>2 DEF StoreLogin
    <3>2. PICK S : S = LoginRow \cup {s}
      OBVIOUS
    <3>3. logins \in Seq(S) /\ s \in S
      BY <3>2 DEF IInv, LoginsOK
    <3> QED
      BY <2>4, <3>1, <3>3
  <2>6. Turn(p) /\ proc'[p].pc = "drop" /\ proc'[p].ceremony = c
    BY <1>0, <1>1, <1>3, <2>1, ClosesTurn DEF StoreLogin
  <2>7. c \in DOMAIN ceremonies /\ ceremonies[c].kind = "login"
    BY <1>1, <1>3, <2>1 DEF Single, Asked, LoginLabels
  <2>8. /\ Answering(p, c) /\ Answering(p, c)' /\ At(p, "drop")' /\ ~At(p, "drop")
    BY <1>1, <2>1, <2>6 DEF Answering, At
  <2>9. \A q \in Procs : Asked(q)'
    <3>1. \A q \in Procs \ {p} : Asked(q)'
      BY <1>0, <1>1, <2>6, OthersAnswer DEF Single
    <3>2. Asked(p)'
      BY <1>1, <2>6, <2>7 DEF Asked, LoginLabels, Answers
    <3> QED
      BY <3>1, <3>2
  <2>10. ASSUME NEW d \in DOMAIN ceremonies, d # c, Unspoilt(d)' PROVE CeremonySingle(d)'
    <3>1. Unspoilt(d) /\ CeremonySingle(d)
      BY <1>1, <2>10 DEF Unspoilt, Single
    <3>2. ~Answering(p, d) /\ ~Answering(p, d)'
      BY <2>1, <2>6, <2>10 DEF Answering
    <3>3. \A q \in Procs : /\ Answering(q, d)' <=> Answering(q, d)
                           /\ Answering(q, d) => (At(q, "drop")' <=> At(q, "drop"))
      BY <1>0, <2>6, <3>2, OthersAnswer
    <3>4. \A l \in DOMAIN logins' : logins'[l].ceremony = d =>
             l \in DOMAIN logins /\ logins[l].ceremony = d
      BY <2>3, <2>5, <2>10
    <3> QED
      BY <1>1, <2>5, <3>1, <3>3, <3>4 DEF CeremonySingle
  <2>11. ASSUME Unspoilt(c)' PROVE CeremonySingle(c)'
    <3>1. Unspoilt(c) /\ CeremonySingle(c)
      BY <1>1, <2>7, <2>11 DEF Unspoilt, Single
    <3>2. \A q \in Procs \ {p} : ~Answering(q, c)
      BY <2>8, <3>1 DEF CeremonySingle
    <3>3. \A q \in Procs \ {p} : ~Answering(q, c)'
      BY <1>0, <2>6, <3>2, OthersAnswer
    <3>4. \A l \in DOMAIN logins : logins[l].ceremony # c
      BY <2>8, <3>1 DEF CeremonySingle
    <3>5. \A l \in DOMAIN logins' : logins'[l].ceremony = c => l = n
      BY <2>5, <3>4
    <3> QED
      BY <2>8, <3>3, <3>5 DEF CeremonySingle
  <2>12. LoginsAsked'
    BY <1>1, <2>3, <2>5, <2>7 DEF Single, LoginsAsked
  <2> QED
    BY <1>1, <2>9, <2>10, <2>11, <2>12 DEF Single
<1> QED
  BY <1>2, <1>3

\* The challenge is deleted, or it is not and that is known.
LEMMA EndSingle ==
    ASSUME IInv, Single, NEW p \in Procs, DeleteCeremony(p) \/ Stopped(p)
    PROVE  Single'
<1>0. LocalsOK /\ ceremonies \in Seq(CeremonyRow)
  BY DEF IInv, TablesOK
<1>1. Turn(p) /\ proc'[p] = Idle /\ ~At(p, "idle") /\ logins' = logins
  BY EndTurn
<1>2. PICK c : c = proc[p].ceremony
  OBVIOUS
<1>3. /\ DOMAIN ceremonies' = DOMAIN ceremonies
      /\ \A d \in DOMAIN ceremonies :
            /\ ceremonies'[d].kind = ceremonies[d].kind
            /\ ceremonies[d].spoilt => ceremonies'[d].spoilt
            /\ ceremonies'[d].live => ceremonies[d].live
            /\ d = c /\ Unspoilt(d)' => ~ceremonies'[d].live
  <2>1. CASE DeleteCeremony(p)
    <3>1. ceremonies' = [ceremonies EXCEPT ![c].live = FALSE]
      BY <1>2, <2>1 DEF DeleteCeremony, Gone
    <3>2. PICK r : r = ceremonies[c]
      OBVIOUS
    <3>3. PICK s : s = [r EXCEPT !.live = FALSE]
      OBVIOUS
    <3>4. ceremonies' = [ceremonies EXCEPT ![c] = s]
      BY <3>1, <3>2, <3>3, Zenon
    <3>5. c \in DOMAIN ceremonies => s.kind = r.kind /\ s.spoilt = r.spoilt /\ ~s.live
      BY <1>0, <3>2, <3>3 DEF CeremonyRow
    <3>6. /\ DOMAIN ceremonies' = DOMAIN ceremonies
          /\ \A d \in DOMAIN ceremonies : ceremonies'[d] = IF d = c THEN s ELSE ceremonies[d]
      BY <3>4
    <3> QED
      BY <3>2, <3>5, <3>6
  <2>2. CASE Stopped(p)
    <3>1. ceremonies' = [d \in DOMAIN ceremonies |-> [ceremonies[d] EXCEPT !.spoilt =
                            @ \/ (d = c /\ ceremonies[d].kind = "login")]]
      BY <1>2, <2>2 DEF Stopped
    <3>2. ASSUME NEW d \in DOMAIN ceremonies
          PROVE  /\ ceremonies'[d].kind = ceremonies[d].kind
                 /\ ceremonies[d].spoilt => ceremonies'[d].spoilt
                 /\ ceremonies'[d].live => ceremonies[d].live
                 /\ d = c /\ Unspoilt(d)' => ~ceremonies'[d].live
      <4>1. PICK r : r = ceremonies[d]
        OBVIOUS
      <4>2. r \in CeremonyRow
        BY <1>0, <4>1
      <4>3. PICK b \in BOOLEAN : b = (r.spoilt \/ (d = c /\ r.kind = "login"))
        OBVIOUS
      <4>4. PICK s : s = [r EXCEPT !.spoilt = b]
        OBVIOUS
      <4>5. s.kind = r.kind /\ s.live = r.live /\ s.spoilt = b
        BY <4>2, <4>4 DEF CeremonyRow
      <4>6. ceremonies'[d] = s
        BY <3>1, <4>1, <4>3, <4>4
      <4>7. d = c => ~Unspoilt(d)'
        BY <4>3, <4>5, <4>6 DEF Unspoilt
      <4> QED
        BY <4>1, <4>3, <4>5, <4>6, <4>7
    <3> QED
      BY <3>1, <3>2
  <2> QED
    BY <2>1, <2>2
<1>4. Marks
  BY <1>3 DEF Marks
<1>5. \A d : ~Answering(p, d)'
  BY <1>1, IdleIsNoWork DEF Answering, At
<1>6. \A q \in Procs : Asked(q)'
  <2>1. \A q \in Procs \ {p} : Asked(q)'
    BY <1>0, <1>1, <1>4, OthersAnswer DEF Single
  <2>2. Asked(p)'
    BY <1>1, IdleIsNoWork DEF Asked, At
  <2> QED
    BY <2>1, <2>2
<1>7. ASSUME NEW d \in DOMAIN ceremonies, Unspoilt(d)' PROVE CeremonySingle(d)'
  <2>1. Unspoilt(d) /\ CeremonySingle(d)
    BY <1>3, <1>7 DEF Unspoilt, Single
  <2>2. \A q \in Procs \ {p} : /\ Answering(q, d)' <=> Answering(q, d)
                               /\ At(q, "drop")' <=> At(q, "drop")
    BY <1>0, <1>1, OthersAnswer
  <2>3. ceremonies'[d].live => ceremonies[d].live /\ ~Answering(p, d)
    BY <1>1, <1>2, <1>3, <1>7 DEF Answering
  <2>4. \A q, r \in Procs : q # r /\ Answering(q, d)' => ~Answering(r, d)'
    BY <1>5, <2>1, <2>2 DEF CeremonySingle
  <2>5. ASSUME NEW l \in DOMAIN logins, logins[l].ceremony = d
        PROVE  /\ \A q \in Procs : Answering(q, d)' => At(q, "drop")'
               /\ ceremonies'[d].live => \E q \in Procs : Answering(q, d)'
               /\ \A m \in DOMAIN logins : m # l => logins[m].ceremony # d
    BY <1>5, <2>1, <2>2, <2>3, <2>5 DEF CeremonySingle
  <2> QED
    BY <1>1, <2>4, <2>5 DEF CeremonySingle
<1>8. LoginsAsked'
  BY <1>1, <1>4, LoginsStayAsked DEF Single
<1> QED
  BY <1>3, <1>6, <1>7, <1>8 DEF Single

LEMMA SingleStays ==
    ASSUME IInv, Undisturbed, Single, [Next]_vars
    PROVE  Single'
<1>0. \A c \in DOMAIN ceremonies' : c # 0
  <2>1. TablesOK'
    BY NextKeeps DEF Good, IInv
  <2>2. ceremonies' \in Seq(CeremonyRow)
    BY <2>1 DEF TablesOK
  <2> QED
    BY <2>2
<1>1. ASSUME NEW p \in Procs, LoginStep(p) PROVE Single'
  <2>1. CASE Registration(p) \/ RegistrationEnd(p)
    BY <1>0, <2>1, RegistrationTurn, OrdinarySingle
  <2>2. CASE LoginStart(p) \/ (\E u \in LiveUsers : PasswordLogin(p, u)) \/ Refused(p)
    BY <1>0, <2>2, LoginStartTurn, OrdinarySingle
  <2>3. CASE \E c \in DOMAIN ceremonies, i \in DOMAIN creds, n \in 0 .. MaxCount, h \in BOOLEAN :
                FinishLogin(p, c, i, n, h)
    BY <2>3, FinishLoginSingle
  <2>4. CASE LoginValidate(p) \/ SaveCount(p)
    BY <1>0, <2>4, LoginValidateTurn, SaveCountTurn, OrdinarySingle
  <2>5. CASE StoreLogin(p)
    BY <2>5, StoreLoginSingle
  <2>6. CASE DeleteCeremony(p) \/ Stopped(p)
    BY <2>6, EndSingle
  <2> QED
    BY <1>1, <2>1, <2>2, <2>3, <2>4, <2>5, <2>6 DEF LoginStep, LoginEnd
<1>2. ASSUME NEW p \in Procs, SetupStep(p) PROVE Single'
  <2>1. Ordinary(p) /\ Marks /\ logins' = logins
    BY <1>2, SetupStepTurn DEF Undisturbed
  <2> QED
    BY <1>0, <2>1, OrdinarySingle
<1>3. CASE Age
  <2>1. \A p \in Procs : At(p, "idle")'
    BY <1>3 DEF Age, Busy, At
  <2>2. /\ logins' = logins /\ DOMAIN ceremonies' = DOMAIN ceremonies
        /\ \A c \in DOMAIN ceremonies : ceremonies'[c] = [ceremonies[c] EXCEPT !.live = FALSE]
    BY <1>3 DEF Age
  <2>3. ASSUME NEW c \in DOMAIN ceremonies, Unspoilt(c)' PROVE CeremonySingle(c)'
    <3>1. PICK r : r = ceremonies[c]
      OBVIOUS
    <3>2. r \in CeremonyRow
      BY <3>1 DEF IInv, TablesOK
    <3>3. PICK s : s = [r EXCEPT !.live = FALSE]
      OBVIOUS
    <3>4. ~s.live /\ s.kind = r.kind /\ s.spoilt = r.spoilt
      BY <3>2, <3>3 DEF CeremonyRow
    <3>5. ceremonies'[c] = s
      BY <2>2, <3>1, <3>3
    <3>6. CeremonySingle(c)
      BY <2>2, <2>3, <3>1, <3>4, <3>5 DEF Unspoilt, Single
    <3> QED
      BY <2>1, <2>2, <3>4, <3>5, <3>6 DEF CeremonySingle, Answering
  <2>4. Marks
    <3>1. ASSUME NEW c \in DOMAIN ceremonies
          PROVE  /\ ceremonies'[c].kind = ceremonies[c].kind
                 /\ ceremonies'[c].spoilt = ceremonies[c].spoilt
                 /\ ~ceremonies'[c].live
      <4>1. PICK r : r = ceremonies[c]
        OBVIOUS
      <4>2. r \in CeremonyRow
        BY <4>1 DEF IInv, TablesOK
      <4>3. PICK s : s = [r EXCEPT !.live = FALSE]
        OBVIOUS
      <4>4. ~s.live /\ s.kind = r.kind /\ s.spoilt = r.spoilt
        BY <4>2, <4>3 DEF CeremonyRow
      <4>5. ceremonies'[c] = s
        BY <2>2, <4>1, <4>3
      <4> QED
        BY <4>1, <4>4, <4>5
    <3> QED
      BY <2>2, <3>1 DEF Marks
  <2>5. LoginsAsked'
    BY <2>2, <2>4, LoginsStayAsked DEF Single
  <2> QED
    BY <2>1, <2>2, <2>3, <2>5 DEF Single, Asked
<1>4. CASE UNCHANGED vars
  <2>1. ceremonies' = ceremonies /\ logins' = logins /\ proc' = proc
    BY <1>4 DEF vars
  <2> QED
    BY <2>1 DEF Single, Asked, LoginsAsked, Unspoilt, CeremonySingle, Answering, At
<1> QED
  BY <1>1, <1>2, <1>3, <1>4 DEF Next

\* A ceremony leads to one login at most, for any number of requests and
\* ceremonies, unless two requests answer it at the same time or it could not
\* be deleted (FinishLogin, FinishDiscoverableLogin).
THEOREM OneLoginEach == Spec => []OneLoginPerCeremony
<1>1. Init => Single
  <2>1. ASSUME Init PROVE \A p \in Procs : At(p, "idle")
    BY <2>1, IdleIsNoWork DEF Init, At
  <2>2. Init => DOMAIN ceremonies = {} /\ DOMAIN logins = {}
    BY DEF Init
  <2> QED
    BY <2>1, <2>2 DEF Single, Asked, LoginsAsked
<1>2. Single /\ (IInv /\ Undisturbed) /\ [Next]_vars => Single'
  BY SingleStays
<1>3. IInv /\ Single => OneLoginPerCeremony
  <2> SUFFICES ASSUME IInv, Single, NEW l \in DOMAIN logins, NEW m \in DOMAIN logins,
                      l < m, logins[l].ceremony = logins[m].ceremony, logins[l].ceremony # 0
               PROVE  ceremonies[logins[l].ceremony].spoilt
    BY DEF OneLoginPerCeremony
  <2>1. PICK c : c = logins[l].ceremony
    OBVIOUS
  <2>2. c \in DOMAIN ceremonies
    BY <2>1 DEF IInv, LoginsOK, Earned, AskedOf
  <2>3. l # m
    BY DEF IInv, LoginsOK
  <2>4. ~CeremonySingle(c)
    BY <2>1, <2>3 DEF CeremonySingle
  <2>5. ceremonies[c].kind = "login"
    BY <2>1 DEF Single, LoginsAsked
  <2> QED
    BY <2>1, <2>2, <2>4, <2>5 DEF Single, Unspoilt
<1> QED
  BY <1>1, <1>2, <1>3, UndisturbedAlways, PTL DEF Spec
=============================================================================
