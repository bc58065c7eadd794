---------------------------- MODULE MemberProofs ----------------------------
(***************************************************************************)
(* Proofs about accounts and memberships, for any number of requests,      *)
(* accounts, organizations and people, whatever overlaps and fails.        *)
(*                                                                         *)
(* IInv is what the tables and the copies in flight are.  What the three   *)
(* action properties need besides it is in Undisturbed, what a request     *)
(* that overlaps no other knows of the tables, and in Known, what nobody   *)
(* can take from a person who has logged in: the account that their login  *)
(* led to, and the copies of rows that are still to be saved, stay theirs. *)
(***************************************************************************)
EXTENDS MemberInvariants, FiniteSetTheorems, WellFoundedInduction, TLAPS

Memberships == {"member", "bond", "profile", "saveUser", "saveBond", "count", "delete"}
Copies == {"saveUser", "refresh"}
Logins == {"newcomer", "refresh", "session"}
Labels == Memberships \cup Logins \cup {"name", "account", "reset"}

\* Where the account is there, and where the bond is.
WithUser == Labels \ {"name", "account", "count", "delete", "newcomer"}
WithBond == {"profile", "saveUser", "saveBond"}

Asks == {"admin", "member", "keep"} \cup Passwords \cup People \cup {Nobody}

WorkRow == [pc : Labels, org : Orgs \cup {Nobody}, user : Nat, bond : Nat,
            row : UserRow \cup {Nobody}, member : BondRow \cup {Nobody},
            ask : Asks, alone : BOOLEAN]

WellRow(row) == row \in UserRow /\ (row.name # NoName => row.password # NoPassword)

\* A request has what its next statement needs.
Sound(w) ==
    /\ w.pc = "name" => w.row \in UserRow
    /\ w.pc \in {"account", "newcomer"} \cup Copies => WellRow(w.row)
    /\ w.pc \in Memberships \cup {"name", "account"} => w.org \in Orgs
    /\ w.pc \in WithUser => w.user \in DOMAIN users
    /\ w.pc \in WithBond =>
          /\ w.bond \in DOMAIN bonds
          /\ w.member \in BondRow /\ w.member.user \in DOMAIN users
    /\ w.pc = "reset" => w.ask \in Passwords
    /\ w.pc \in Logins => w.ask \in People

Held(p) == proc[p] = Idle \/ (proc[p] \in WorkRow /\ Sound(proc[p]))

BondsOK ==
    \A b, c \in DOMAIN bonds :
       /\ bonds[b].user \in DOMAIN users
       /\ b # c /\ bonds[b].live /\ bonds[c].live
             => bonds[b].org # bonds[c].org \/ bonds[b].user # bonds[c].user

TablesOK ==
    /\ users \in Seq(UserRow)
    /\ bonds \in Seq(BondRow)
    /\ \A u \in DOMAIN users : users[u].name # NoName => users[u].password # NoPassword
    /\ BondsOK
    /\ account \in [People -> Nat]

LocalsOK == proc = [p \in Procs |-> proc[p]] /\ \A p \in Procs : Held(p)

IInv == TablesOK /\ LocalsOK

-----------------------------------------------------------------------------
(***************************************************************************)
(* The lemmas about sequences are those that inserts and updates need.     *)
(***************************************************************************)
LEMMA SeqFacts ==
    ASSUME NEW S, NEW s \in Seq(S)
    PROVE  /\ Len(s) \in Nat /\ DOMAIN s = 1 .. Len(s)
           /\ \A i \in DOMAIN s : s[i] \in S
OBVIOUS

LEMMA Appended ==
    ASSUME NEW S, NEW s \in Seq(S), NEW e \in S
    PROVE  /\ Append(s, e) \in Seq(S)
           /\ DOMAIN Append(s, e) = DOMAIN s \cup {Len(s) + 1}
           /\ Append(s, e)[Len(s) + 1] = e
           /\ \A i \in DOMAIN s : Append(s, e)[i] = s[i] /\ i < Len(s) + 1
           /\ Len(s) + 1 \in Nat
OBVIOUS

LEMMA Replaced ==
    ASSUME NEW S, NEW s \in Seq(S), NEW i \in DOMAIN s, NEW e \in S
    PROVE  /\ [s EXCEPT ![i] = e] \in Seq(S)
           /\ DOMAIN [s EXCEPT ![i] = e] = DOMAIN s
           /\ [s EXCEPT ![i] = e][i] = e
           /\ \A j \in DOMAIN s : j # i => [s EXCEPT ![i] = e][j] = s[j]
OBVIOUS

LEMMA Rewritten ==
    ASSUME NEW S, NEW s \in Seq(S), NEW t, t = [i \in DOMAIN s |-> t[i]],
           \A i \in DOMAIN s : t[i] \in S
    PROVE  t \in Seq(S) /\ DOMAIN t = DOMAIN s
<1>1. Len(s) \in Nat /\ DOMAIN s = 1 .. Len(s)
  OBVIOUS
<1>2. t \in [1 .. Len(s) -> S]
  BY <1>1
<1>3. t \in Seq(S)
  BY <1>1, <1>2
<1> QED
  BY <1>3

\* A query finds the row with the least id, and 0 if there is none.
LEMMA Least ==
    ASSUME NEW S \in SUBSET Nat, S # {}
    PROVE  \E h \in S : \A j \in S : h <= j
<1> DEFINE R == OpToRel(<, Nat)
<1>1. IsWellFoundedOn(R, Nat)
  BY NatLessThanWellFounded, Zenon
<1>2. \A x, y \in S : x < y => <<x, y>> \in R
  BY DEF OpToRel
<1>3. PICK h \in S : \A j \in S : ~(<<j, h>> \in R)
  <2> HIDE DEF R
  <2> QED
    BY <1>1, WFMin, Zenon
<1>4. \A j \in S : ~(j < h)
  BY <1>2, <1>3
<1> QED
  BY <1>4

LEMMA FirstIs ==
    ASSUME NEW S \in SUBSET Nat, 0 \notin S
    PROVE  /\ First(S) \in Nat
           /\ First(S) = 0 <=> S = {}
           /\ S # {} => First(S) \in S /\ \A j \in S : First(S) <= j
<1>1. CASE S = {}
  BY <1>1 DEF First
<1>2. CASE S # {}
  <2>1. \E h \in S : \A j \in S : h <= j
    BY <1>2, Least
  <2>2. Min(S) \in S /\ \A j \in S : Min(S) <= j
    BY <2>1 DEF Min
  <2>3. First(S) = Min(S)
    BY <1>2 DEF First
  <2> QED
    BY <1>2, <2>2, <2>3
<1> QED
  BY <1>1, <1>2

\* The ids that a query compares.
LEMMA IdsOf ==
    ASSUME TablesOK
    PROVE  /\ \A u \in DOMAIN users : u \in Nat \ {0} /\ users[u] \in UserRow
           /\ \A b \in DOMAIN bonds : b \in Nat \ {0} /\ bonds[b] \in BondRow
           /\ Len(users) \in Nat /\ DOMAIN users = 1 .. Len(users)
BY SeqFacts DEF TablesOK

LEMMA FoundUser ==
    ASSUME TablesOK, NEW S \in SUBSET DOMAIN users
    PROVE  /\ First(S) \in Nat
           /\ First(S) = 0 <=> S = {}
           /\ First(S) # 0 => First(S) \in S /\ \A j \in S : First(S) <= j
<1>1. S \in SUBSET Nat /\ 0 \notin S
  BY IdsOf
<1> QED
  BY <1>1, FirstIs

LEMMA FoundBond ==
    ASSUME TablesOK, NEW o, NEW u
    PROVE  /\ GetByOrgAndUser(o, u) \in Nat
           /\ GetByOrgAndUser(o, u) # 0 =>
                 /\ GetByOrgAndUser(o, u) \in BondsOf(o)
                 /\ bonds[GetByOrgAndUser(o, u)].user = u
           /\ GetByOrgAndUser(o, u) = 0 =>
                 \A b \in DOMAIN bonds :
                    bonds[b].live /\ bonds[b].org = o => bonds[b].user # u
<1>1. PICK S : S = {b \in BondsOf(o) : bonds[b].user = u}
  OBVIOUS
<1>2. S \in SUBSET Nat /\ 0 \notin S
  BY <1>1, IdsOf DEF BondsOf
<1>3. /\ First(S) \in Nat
      /\ First(S) = 0 <=> S = {}
      /\ S # {} => First(S) \in S
  BY <1>2, FirstIs
<1>4. GetByOrgAndUser(o, u) = First(S)
  BY <1>1 DEF GetByOrgAndUser
<1> QED
  BY <1>1, <1>3, <1>4 DEF BondsOf

LEMMA NoBond ==
    ASSUME NEW o, NEW u, NEW g, TablesOK, g = GetByOrgAndUser(o, u), g = 0
    PROVE  \A c \in DOMAIN bonds :
              bonds[c].live /\ bonds[c].org = o => bonds[c].user # u
<1>1. PICK S : S = {b \in BondsOf(o) : bonds[b].user = u}
  OBVIOUS
<1>2. S \in SUBSET Nat /\ 0 \notin S
  BY <1>1, IdsOf DEF BondsOf
<1>3. g = First(S)
  BY <1>1 DEF GetByOrgAndUser
<1>4. S = {}
  BY <1>2, <1>3, FirstIs
<1> QED
  BY <1>1, <1>4 DEF BondsOf

-----------------------------------------------------------------------------
(***************************************************************************)
(* Rows are never deleted, so what is Sound stays so.                      *)
(***************************************************************************)
Grows == DOMAIN users \subseteq DOMAIN users' /\ DOMAIN bonds \subseteq DOMAIN bonds'

LEMMA SoundStays ==
    ASSUME Grows, NEW w, Sound(w)
    PROVE  Sound(w)'
BY DEF Grows, Sound, WellRow

\* The same, but maybe not its label, nor whether it is alone.
Like(w, v) ==
    /\ v \in WorkRow
    /\ v.org = w.org /\ v.user = w.user /\ v.bond = w.bond
    /\ v.row = w.row /\ v.member = w.member /\ v.ask = w.ask

LEMMA SoundLike ==
    ASSUME NEW w, NEW v, Like(w, v), v.pc = w.pc, Sound(w)
    PROVE  Sound(v)
<1>1. v.pc = w.pc /\ v.org = w.org /\ v.user = w.user /\ v.bond = w.bond
  BY DEF Like
<1>2. v.row = w.row /\ v.member = w.member /\ v.ask = w.ask
  BY DEF Like
<1> QED
  BY <1>1, <1>2 DEF Sound

LEMMA IdleIsNoWork == Idle.pc = "idle" /\ \A w \in WorkRow : w.pc # "idle"
BY DEF Idle, WorkRow, Labels, Memberships, Logins

LEMMA AtWork ==
    ASSUME LocalsOK, NEW p \in Procs, ~At(p, "idle")
    PROVE  proc[p] \in WorkRow /\ Sound(proc[p])
BY IdleIsNoWork DEF LocalsOK, Held, At

-----------------------------------------------------------------------------
(***************************************************************************)
(* Whose turn it is.  In a turn of p the other requests keep what they     *)
(* have; if p begins one, those in flight are not alone any more, and a    *)
(* request that says it is alone has found nobody or was so.               *)
(***************************************************************************)
Alone(p) == ~At(p, "idle") /\ proc[p].alone

Disturbed(q) == IF At(q, "idle") THEN Idle ELSE [proc[q] EXCEPT !.alone = FALSE]

Kept(q) == proc'[q] = proc[q] \/ proc'[q] = Disturbed(q)

Turn(p) ==
    /\ proc' = [q \in Procs |-> proc'[q]]
    /\ \A q \in Procs \ {p} : Kept(q)
    /\ At(p, "idle") => /\ \A q \in Procs \ {p} : ~Alone(q)'
                        /\ Alone(p)' => Busy = {}
    /\ ~At(p, "idle") /\ Alone(p)' => Alone(p)

LEMMA DisturbedIs ==
    ASSUME LocalsOK, NEW q \in Procs, proc'[q] = Disturbed(q)
    PROVE  /\ At(q, "idle") => proc'[q] = Idle /\ proc[q] = Idle
           /\ ~At(q, "idle") => /\ Like(proc[q], proc'[q])
                                /\ proc'[q].pc = proc[q].pc /\ ~proc'[q].alone
<1>1. CASE At(q, "idle")
  BY <1>1, IdleIsNoWork DEF Disturbed, LocalsOK, Held, At
<1>2. CASE ~At(q, "idle")
  <2>1. PICK w : w = proc[q]
    OBVIOUS
  <2>2. w \in WorkRow
    BY <1>2, <2>1, AtWork
  <2>3. PICK v : v = [w EXCEPT !.alone = FALSE]
    OBVIOUS
  <2>4. Like(w, v) /\ v.pc = w.pc /\ ~v.alone
    BY <2>2, <2>3 DEF WorkRow, Like
  <2>5. proc'[q] = v
    BY <1>2, <2>1, <2>3 DEF Disturbed
  <2> QED
    BY <1>2, <2>1, <2>4, <2>5
<1> QED
  BY <1>1, <1>2

\* What the others keep.
LEMMA KeptIs ==
    ASSUME LocalsOK, NEW q \in Procs, Kept(q)
    PROVE  /\ proc'[q].pc = proc[q].pc
           /\ ~At(q, "idle") => proc'[q].row = proc[q].row /\ proc'[q].user = proc[q].user
           /\ Alone(q)' => Alone(q) /\ proc'[q] = proc[q]
<1>1. CASE proc'[q] = proc[q]
  BY <1>1 DEF Alone, At
<1>2. CASE proc'[q] = Disturbed(q)
  BY <1>2, DisturbedIs, IdleIsNoWork DEF Alone, At, Like
<1> QED
  BY <1>1, <1>2 DEF Kept

LEMMA LocalsStay ==
    ASSUME LocalsOK, Grows, NEW p \in Procs, Turn(p), Held(p)'
    PROVE  LocalsOK'
<1>1. proc' = [q \in Procs |-> proc'[q]]
  BY DEF Turn
<1> SUFFICES ASSUME NEW q \in Procs \ {p} PROVE Held(q)'
  BY <1>1 DEF LocalsOK
<1>2. Held(q) /\ Kept(q)
  BY DEF LocalsOK, Turn
<1>3. CASE proc'[q] = proc[q]
  BY <1>2, <1>3, SoundStays DEF Held
<1>4. CASE proc'[q] = Disturbed(q)
  <2>1. CASE At(q, "idle")
    BY <1>4, <2>1, DisturbedIs DEF Held
  <2>2. CASE ~At(q, "idle")
    <3>1. PICK w, v : w = proc[q] /\ v = proc'[q]
      OBVIOUS
    <3>2. Sound(w) /\ Like(w, v) /\ v.pc = w.pc
      BY <1>4, <2>2, <3>1, AtWork, DisturbedIs
    <3>3. Sound(v) /\ v \in WorkRow
      BY <3>2, SoundLike DEF Like
    <3>4. Sound(v)'
      BY <3>3, SoundStays
    <3> QED
      BY <3>1, <3>3, <3>4 DEF Held
  <2> QED
    BY <2>1, <2>2
<1> QED
  BY <1>2, <1>3, <1>4 DEF Kept

-----------------------------------------------------------------------------
(***************************************************************************)
(* The ways in which a request goes on.                                    *)
(***************************************************************************)
LEMMA StartsIs ==
    ASSUME LocalsOK, NEW p \in Procs, At(p, "idle"), NEW w \in WorkRow, Starts(p, w)
    PROVE  Turn(p) /\ Like(w, proc'[p]) /\ proc'[p].pc = w.pc
<1>1. PICK b \in BOOLEAN : b = (Busy = {})
  OBVIOUS
<1>2. PICK v : v = [w EXCEPT !.alone = b]
  OBVIOUS
<1>3. Like(w, v) /\ v.pc = w.pc /\ v.alone = b
  BY <1>2 DEF WorkRow, Like
<1>4. proc' = [q \in Procs |-> IF q = p THEN v ELSE Disturbed(q)]
  BY <1>1, <1>2 DEF Starts, Disturbed
<1>5. proc'[p] = v /\ \A q \in Procs \ {p} : proc'[q] = Disturbed(q)
  BY <1>4
<1>6. \A q \in Procs \ {p} : Kept(q) /\ ~Alone(q)'
  BY <1>5, DisturbedIs, IdleIsNoWork DEF Kept, Alone, At
<1>7. Alone(p)' => Busy = {}
  BY <1>1, <1>3, <1>5 DEF Alone
<1>8. proc' = [q \in Procs |-> proc'[q]]
  BY <1>4
<1> QED
  BY <1>3, <1>5, <1>6, <1>7, <1>8 DEF Turn

LEMMA TurnIs ==
    ASSUME LocalsOK, NEW p \in Procs, ~At(p, "idle"), NEW w, proc' = [proc EXCEPT ![p] = w],
           w = Idle \/ (w.alone => proc[p].alone)
    PROVE  Turn(p) /\ proc'[p] = w
<1>1. proc = [q \in Procs |-> proc[q]]
  BY DEF LocalsOK
<1>2. proc'[p] = w /\ \A q \in Procs \ {p} : proc'[q] = proc[q]
  BY <1>1
<1>3. Alone(p)' => Alone(p)
  BY <1>2, IdleIsNoWork DEF Alone, At
<1>4. proc' = [q \in Procs |-> proc'[q]]
  <2>1. proc' = [q \in Procs |-> IF q = p THEN w ELSE proc[q]]
    BY <1>1
  <2> QED
    BY <2>1
<1> QED
  BY <1>2, <1>3, <1>4 DEF Turn, Kept

LEMMA EndsIs ==
    ASSUME LocalsOK, NEW p \in Procs, ~At(p, "idle"), Ends(p)
    PROVE  /\ Turn(p) /\ proc'[p] = Idle /\ Held(p)'
           /\ At(p, "idle")' /\ ~Alone(p)'
<1>1. Turn(p) /\ proc'[p] = Idle
  BY TurnIs DEF Ends
<1> QED
  BY <1>1, IdleIsNoWork DEF Held, At, Alone

LEMMA GoesIs ==
    ASSUME LocalsOK, NEW p \in Procs, NEW l \in Labels, ~At(p, "idle"), Goes(p, l)
    PROVE  Turn(p) /\ Like(proc[p], proc'[p]) /\ proc'[p].pc = l
<1>1. PICK w : w = proc[p]
  OBVIOUS
<1>2. w \in WorkRow
  BY <1>1, AtWork
<1>3. PICK v : v = [w EXCEPT !.pc = l]
  OBVIOUS
<1>4. Like(w, v) /\ v.pc = l /\ v.alone = w.alone
  BY <1>2, <1>3 DEF WorkRow, Like
<1>5. proc' = [proc EXCEPT ![p] = v]
  BY <1>1, <1>3, Zenon DEF Goes
<1> QED
  BY <1>1, <1>4, <1>5, TurnIs

LEMMA GoesWithIs ==
    ASSUME LocalsOK, NEW p \in Procs, NEW l \in Labels, NEW u \in Nat, ~At(p, "idle"),
           GoesWith(p, l, u)
    PROVE  /\ Turn(p) /\ proc'[p] \in WorkRow /\ proc'[p].pc = l /\ proc'[p].user = u
           /\ proc'[p].org = proc[p].org /\ proc'[p].ask = proc[p].ask
<1>1. PICK w : w = proc[p]
  OBVIOUS
<1>2. w \in WorkRow
  BY <1>1, AtWork
<1>3. PICK v : v = [w EXCEPT !.pc = l, !.user = u]
  OBVIOUS
<1>4. /\ v \in WorkRow /\ v.pc = l /\ v.user = u /\ v.alone = w.alone
      /\ v.org = w.org /\ v.ask = w.ask
  BY <1>2, <1>3 DEF WorkRow
<1>5. proc = [q \in Procs |-> proc[q]]
  BY DEF LocalsOK
<1>6. proc' = [proc EXCEPT ![p].pc = l, ![p].user = u]
  BY DEF GoesWith
<1>7. proc' = [proc EXCEPT ![p] = v]
  BY <1>1, <1>3, <1>5, <1>6
<1>8. Turn(p) /\ proc'[p] = v
  BY <1>1, <1>4, <1>7, TurnIs
<1> QED
  BY <1>1, <1>4, <1>8

\* A request that has read the row that it will save.
LEMMA LoadIs ==
    ASSUME LocalsOK, NEW p \in Procs, NEW r \in UserRow, ~At(p, "idle"),
           proc' = [proc EXCEPT ![p].pc = "saveUser", ![p].row = r]
    PROVE  /\ Turn(p) /\ proc'[p] \in WorkRow /\ proc'[p].pc = "saveUser" /\ proc'[p].row = r
           /\ proc'[p].org = proc[p].org /\ proc'[p].user = proc[p].user
           /\ proc'[p].bond = proc[p].bond /\ proc'[p].member = proc[p].member
<1>1. PICK w : w = proc[p]
  OBVIOUS
<1>2. w \in WorkRow
  BY <1>1, AtWork
<1>3. PICK v : v = [w EXCEPT !.pc = "saveUser", !.row = r]
  OBVIOUS
<1>4. "saveUser" \in Labels
  BY DEF Labels, Memberships
<1>5. /\ v \in WorkRow /\ v.pc = "saveUser" /\ v.row = r /\ v.alone = w.alone
      /\ v.org = w.org /\ v.user = w.user /\ v.bond = w.bond /\ v.member = w.member
  BY <1>2, <1>3, <1>4 DEF WorkRow
<1>6. proc = [q \in Procs |-> proc[q]]
  BY DEF LocalsOK
<1>7. proc' = [proc EXCEPT ![p] = v]
  BY <1>1, <1>3, <1>6
<1>8. v.alone => proc[p].alone
  BY <1>1, <1>5
<1>9. Turn(p) /\ proc'[p] = v
  BY <1>7, <1>8, TurnIs, Zenon
<1> QED
  BY <1>1, <1>5, <1>9

LEMMA WorkIs ==
    ASSUME NEW l \in Labels, NEW o \in Orgs \cup {Nobody}, NEW u \in Nat,
           NEW r \in UserRow \cup {Nobody}, NEW a \in Asks
    PROVE  /\ Work(l, o, u, r, a) \in WorkRow
           /\ Work(l, o, u, r, a).pc = l /\ Work(l, o, u, r, a).org = o
           /\ Work(l, o, u, r, a).user = u /\ Work(l, o, u, r, a).row = r
           /\ Work(l, o, u, r, a).ask = a
BY DEF Work, WorkRow

-----------------------------------------------------------------------------
(***************************************************************************)
(* What a step leaves of the tables.                                       *)
(***************************************************************************)
Step(p) == TablesOK' /\ Grows /\ Turn(p) /\ Held(p)'

LEMMA StepKeeps ==
    ASSUME IInv, NEW p \in Procs, Step(p)
    PROVE  IInv'
BY LocalsStay DEF Step, IInv

LEMMA TablesStay ==
    ASSUME TablesOK, UNCHANGED <<users, bonds, account>>
    PROVE  TablesOK' /\ Grows
BY DEF TablesOK, BondsOK, Grows

\* An account is created.
LEMMA AccountAdded ==
    ASSUME TablesOK, NEW r, WellRow(r), CreateUser(r), UNCHANGED <<bonds, account>>
    PROVE  /\ TablesOK' /\ Grows
           /\ DOMAIN users' = DOMAIN users \cup {Len(users) + 1}
           /\ users'[Len(users) + 1] = r
           /\ \A u \in DOMAIN users : users'[u] = users[u] /\ u < Len(users) + 1
           /\ Len(users) + 1 \in Nat
<1>1. r \in UserRow /\ users \in Seq(UserRow) /\ users' = Append(users, r)
  BY DEF WellRow, CreateUser, TablesOK
<1>2. PICK n : n = Len(users) + 1
  OBVIOUS
<1>3. PICK t : t = users'
  OBVIOUS
<1>4. /\ t \in Seq(UserRow) /\ DOMAIN t = DOMAIN users \cup {n} /\ t[n] = r
      /\ \A u \in DOMAIN users : t[u] = users[u] /\ u < n
      /\ n \in Nat
  BY <1>1, <1>2, <1>3, Appended
<1>5. \A u \in DOMAIN t : t[u].name # NoName => t[u].password # NoPassword
  BY <1>4 DEF WellRow, TablesOK
<1>6. TablesOK' /\ Grows
  BY <1>3, <1>4, <1>5 DEF TablesOK, BondsOK, Grows
<1> QED
  BY <1>2, <1>3, <1>4, <1>6

\* An account is saved, in whole or in part.
LEMMA AccountSaved ==
    ASSUME TablesOK, NEW a \in DOMAIN users, NEW r, WellRow(r),
           users' = [users EXCEPT ![a] = r], UNCHANGED <<bonds, account>>
    PROVE  /\ TablesOK' /\ Grows
           /\ DOMAIN users' = DOMAIN users
           /\ users'[a] = r
           /\ \A u \in DOMAIN users : u # a => users'[u] = users[u]
<1>1. r \in UserRow /\ users \in Seq(UserRow)
  BY DEF WellRow, TablesOK
<1>2. PICK t : t = users'
  OBVIOUS
<1>3. /\ t \in Seq(UserRow) /\ DOMAIN t = DOMAIN users /\ t[a] = r
      /\ \A u \in DOMAIN users : u # a => t[u] = users[u]
  BY <1>1, <1>2, Replaced
<1>4. \A u \in DOMAIN t : t[u].name # NoName => t[u].password # NoPassword
  BY <1>3 DEF WellRow, TablesOK
<1>5. TablesOK' /\ Grows
  BY <1>2, <1>3, <1>4 DEF TablesOK, BondsOK, Grows
<1> QED
  BY <1>2, <1>3, <1>5

-----------------------------------------------------------------------------
(***************************************************************************)
(* The statements of CreateMember.                                         *)
(***************************************************************************)
LEMMA CreateKeeps ==
    ASSUME IInv, NEW p \in Procs, NEW o \in Orgs, NEW ph \in Phones \cup {NoPhone},
           NEW n \in Names \cup {NoName}, NEW pw \in Passwords \cup {NoPassword},
           NEW admin \in {"admin", "member"}, Create(p, o, ph, n, pw, admin)
    PROVE  Step(p) /\ proc'[p].pc \in {"name", "member"}
<1>0. TablesOK /\ LocalsOK
  BY DEF IInv
<1>1. PICK u : u = GetByPhone(ph)
  OBVIOUS
<1>2. u \in Nat /\ (u # 0 => u \in DOMAIN users)
  <2>1. PICK S \in SUBSET DOMAIN users : S = {v \in DOMAIN users : users[v].phone = ph}
    OBVIOUS
  <2> QED
    BY <1>0, <1>1, <2>1, FoundUser DEF GetByPhone
<1>3. PICK l \in {"name", "member"} : l = IF u = 0 THEN "name" ELSE "member"
  OBVIOUS
<1>4. PICK r : r = User(ph, n, pw, {})
  OBVIOUS
<1>5. r \in UserRow
  BY <1>4 DEF User, UserRow
<1>6. PICK w : w = Work(l, o, u, r, admin)
  OBVIOUS
<1>7. /\ w \in WorkRow /\ w.pc = l /\ w.org = o /\ w.user = u /\ w.row = r
  <2>1. l \in Labels /\ admin \in Asks
    BY DEF Labels, Memberships, Asks
  <2>2. o \in Orgs \cup {Nobody} /\ r \in UserRow \cup {Nobody}
    BY <1>5
  <2> QED
    BY <1>2, <1>6, <2>1, <2>2, WorkIs
<1>8. At(p, "idle") /\ Starts(p, w)
  BY <1>1, <1>3, <1>4, <1>6 DEF Create
<1>9. TablesOK' /\ Grows
  BY <1>0, TablesStay DEF Create
<1>10. Turn(p) /\ Like(w, proc'[p]) /\ proc'[p].pc = l
  BY <1>0, <1>7, <1>8, StartsIs
<1>11. Sound(w)
  BY <1>2, <1>3, <1>5, <1>7 DEF Sound, WithUser, WithBond, Logins, Copies
<1>12. Held(p)'
  <2>1. PICK v : v = proc'[p]
    OBVIOUS
  <2>2. v \in WorkRow /\ Sound(v)
    BY <1>7, <1>10, <1>11, <2>1, SoundLike DEF Like
  <2> QED
    BY <1>9, <2>1, <2>2, SoundStays DEF Held
<1> QED
  BY <1>9, <1>10, <1>12 DEF Step

\* Between its statements, a request goes on to one that it is ready for.
LEMMA GoingKeeps ==
    ASSUME IInv, NEW p \in Procs, NEW l \in Labels, ~At(p, "idle"), Goes(p, l),
           TablesOK', Grows, \A v : Like(proc[p], v) /\ v.pc = l => Sound(v)
    PROVE  Step(p)
<1>1. Turn(p) /\ Like(proc[p], proc'[p]) /\ proc'[p].pc = l
  BY GoesIs DEF IInv
<1>2. PICK v : v = proc'[p]
  OBVIOUS
<1>3. v \in WorkRow /\ Sound(v)
  BY <1>1, <1>2 DEF Like
<1>4. Held(p)'
  BY <1>2, <1>3, SoundStays DEF Held
<1> QED
  BY <1>1, <1>4 DEF Step

LEMMA EndingKeeps ==
    ASSUME IInv, NEW p \in Procs, ~At(p, "idle"), Ends(p), TablesOK', Grows
    PROVE  Step(p)
BY EndsIs DEF IInv, Step

LEMMA CreateFindBondKeeps ==
    ASSUME IInv, NEW p \in Procs, CreateFindBond(p)
    PROVE  Step(p)
<1>1. ~At(p, "idle") /\ proc[p].pc = "member"
  BY DEF CreateFindBond, At
<1>2. TablesOK' /\ Grows
  BY TablesStay DEF IInv, CreateFindBond
<1>3. PICK w : w = proc[p]
  OBVIOUS
<1>4. Sound(w)
  BY <1>1, <1>3, AtWork DEF IInv
<1>5. "bond" \in Labels
  BY DEF Labels, Memberships
<1>6. ASSUME NEW v, Like(w, v), v.pc = "bond" PROVE Sound(v)
  BY <1>1, <1>3, <1>4, <1>6
  DEF Like, Sound, Memberships, WithUser, WithBond, Logins, Copies, Labels
<1>7. \A v : Like(proc[p], v) /\ v.pc = "bond" => Sound(v)
  BY <1>3, <1>6
<1> QED
  BY <1>1, <1>2, <1>5, <1>7, GoingKeeps, EndingKeeps DEF CreateFindBond

LEMMA CreateCheckNameKeeps ==
    ASSUME IInv, NEW p \in Procs, CreateCheckName(p)
    PROVE  Step(p)
<1>1. ~At(p, "idle") /\ proc[p].pc = "name"
  BY DEF CreateCheckName, At
<1>2. TablesOK' /\ Grows
  BY TablesStay DEF IInv, CreateCheckName
<1>3. PICK w : w = proc[p]
  OBVIOUS
<1>4. Sound(w)
  BY <1>1, <1>3, AtWork DEF IInv
<1>5. "account" \in Labels
  BY DEF Labels
<1>6. ASSUME Acceptable(w.row), NEW v, Like(w, v), v.pc = "account" PROVE Sound(v)
  <2>1. WellRow(v.row) /\ v.org \in Orgs
    BY <1>1, <1>3, <1>4, <1>6 DEF Like, Sound, WellRow, Acceptable
  <2> QED
    BY <1>6, <2>1 DEF Sound, Memberships, WithUser, WithBond, Logins, Copies
<1>7. Acceptable(proc[p].row) => \A v : Like(proc[p], v) /\ v.pc = "account" => Sound(v)
  BY <1>3, <1>6
<1> QED
  BY <1>1, <1>2, <1>5, <1>7, GoingKeeps, EndingKeeps DEF CreateCheckName

LEMMA CreateAccountKeeps ==
    ASSUME IInv, NEW p \in Procs, CreateAccount(p)
    PROVE  Step(p) /\ proc'[p].pc = "bond"
<1>0. TablesOK /\ LocalsOK
  BY DEF IInv
<1>1. ~At(p, "idle") /\ proc[p].pc = "account"
  BY DEF CreateAccount, At
<1>2. PICK w : w = proc[p]
  OBVIOUS
<1>3. WellRow(w.row) /\ w.org \in Orgs
  BY <1>0, <1>1, <1>2, AtWork DEF Sound
<1>4. PICK n : n = Len(users) + 1
  OBVIOUS
<1>5. PICK r : r = w.row
  OBVIOUS
<1>6. TablesOK' /\ Grows /\ n \in DOMAIN users' /\ n \in Nat
  <2>1. CreateUser(r) /\ UNCHANGED <<bonds, account>>
    BY <1>2, <1>5 DEF CreateAccount
  <2> QED
    BY <1>0, <1>3, <1>4, <1>5, <2>1, AccountAdded
<1>7. "bond" \in Labels
  BY DEF Labels, Memberships
<1>8. GoesWith(p, "bond", n)
  BY <1>4 DEF CreateAccount
<1>9. /\ Turn(p) /\ proc'[p] \in WorkRow /\ proc'[p].pc = "bond" /\ proc'[p].user = n
      /\ proc'[p].org = w.org
  BY <1>0, <1>1, <1>2, <1>6, <1>7, <1>8, GoesWithIs
<1>10. PICK v : v = proc'[p]
  OBVIOUS
<1>11. v \in WorkRow /\ v.pc = "bond" /\ v.org \in Orgs /\ v.user = n
  BY <1>3, <1>9, <1>10
<1>12. Sound(v)'
  BY <1>6, <1>11 DEF Sound, WithBond, Logins, Copies
<1>13. Held(p)'
  BY <1>10, <1>11, <1>12 DEF Held
<1> QED
  BY <1>6, <1>9, <1>13 DEF Step

\* A membership is stored: nobody has it yet.
LEMMA CreateMembershipKeeps ==
    ASSUME IInv, NEW p \in Procs, CreateMembership(p)
    PROVE  Step(p)
<1>0. TablesOK /\ LocalsOK
  BY DEF IInv
<1>1. ~At(p, "idle") /\ proc[p].pc = "bond"
  BY DEF CreateMembership, At
<1>2. PICK o, u : o = proc[p].org /\ u = proc[p].user
  OBVIOUS
<1>3. o \in Orgs /\ u \in DOMAIN users /\ u \in Nat
  BY <1>0, <1>1, <1>2, AtWork, IdsOf DEF Sound, Memberships, WithUser, Labels
<1>4. PICK b \in BOOLEAN : b = (proc[p].ask = "admin")
  OBVIOUS
<1>5. PICK r : r = Bond(o, u, b, 0, TRUE)
  OBVIOUS
<1>6. r \in BondRow /\ r.org = o /\ r.user = u
  BY <1>3, <1>5 DEF Bond, BondRow
<1>7. /\ GetByOrgAndUser(o, u) = 0 /\ bonds' = Append(bonds, r)
      /\ Ends(p) /\ users' = users /\ account' = account
  BY <1>2, <1>4, <1>5, <1>6 DEF CreateMembership, CreateBond
<1>8. \A c \in DOMAIN bonds : bonds[c].live /\ bonds[c].org = o => bonds[c].user # u
  BY <1>0, <1>7, FoundBond
<1>9. PICK t : t = bonds'
  OBVIOUS
<1>10. PICK n : n = Len(bonds) + 1
  OBVIOUS
<1>11. /\ t \in Seq(BondRow) /\ DOMAIN t = DOMAIN bonds \cup {n} /\ t[n] = r
       /\ \A c \in DOMAIN bonds : t[c] = bonds[c]
  <2>1. bonds \in Seq(BondRow) /\ t = Append(bonds, r)
    BY <1>0, <1>7, <1>9 DEF TablesOK
  <2> QED
    BY <1>6, <1>10, <2>1, Appended
<1>12. \A c \in DOMAIN t : t[c].user \in DOMAIN users
  BY <1>0, <1>3, <1>6, <1>11 DEF TablesOK, BondsOK
<1>13. ASSUME NEW c \in DOMAIN t, NEW d \in DOMAIN t, c # d, t[c].live, t[d].live
       PROVE  t[c].org # t[d].org \/ t[c].user # t[d].user
  <2>1. CASE c \in DOMAIN bonds /\ d \in DOMAIN bonds
    BY <1>0, <1>11, <1>13, <2>1 DEF TablesOK, BondsOK
  <2>2. CASE c = n /\ d \in DOMAIN bonds
    BY <1>6, <1>8, <1>11, <1>13, <2>2
  <2>3. CASE d = n /\ c \in DOMAIN bonds
    BY <1>6, <1>8, <1>11, <1>13, <2>3
  <2> QED
    BY <1>11, <1>13, <2>1, <2>2, <2>3
<1>14. BondsOK'
  BY <1>7, <1>9, <1>12, <1>13 DEF BondsOK
<1>15. TablesOK' /\ Grows
  BY <1>0, <1>7, <1>9, <1>11, <1>14 DEF TablesOK, Grows
<1> QED
  BY <1>1, <1>7, <1>15, EndingKeeps

-----------------------------------------------------------------------------
(***************************************************************************)
(* The statements of UpdateMember and of RemoveMember.                     *)
(***************************************************************************)
LEMMA UpdateKeeps ==
    ASSUME IInv, NEW p \in Procs, NEW o \in Orgs, NEW u \in DOMAIN users,
           NEW admin \in {"admin", "member", "keep"}, Update(p, o, u, admin)
    PROVE  Step(p) /\ proc'[p].pc = "profile"
<1>0. TablesOK /\ LocalsOK
  BY DEF IInv
<1>1. PICK b : b = GetByOrgAndUser(o, u)
  OBVIOUS
<1>2. b # 0 /\ b \in Nat /\ b \in DOMAIN bonds /\ bonds[b].user = u
  BY <1>0, <1>1, FoundBond DEF Update, BondsOf
<1>3. PICK r : r = bonds[b]
  OBVIOUS
<1>4. r \in BondRow /\ r.user = u
  BY <1>0, <1>2, <1>3, IdsOf
<1>5. PICK a : a = IF admin = "keep" THEN r.admin ELSE admin = "admin"
  OBVIOUS
<1>6. a \in BOOLEAN
  BY <1>4, <1>5 DEF BondRow
<1>7. PICK m : m = [r EXCEPT !.admin = a]
  OBVIOUS
<1>8. m \in BondRow /\ m.user = u
  BY <1>4, <1>6, <1>7 DEF BondRow
<1>9. Asked(bonds[b], admin) = m
  BY <1>3, <1>5, <1>7 DEF Asked
<1>10. PICK x : x = Work("profile", o, u, Nobody, admin)
  OBVIOUS
<1>11. x \in WorkRow /\ x.pc = "profile" /\ x.org = o /\ x.user = u
  <2>1. "profile" \in Labels /\ admin \in Asks
    BY DEF Labels, Memberships, Asks
  <2>2. u \in Nat /\ o \in Orgs \cup {Nobody} /\ Nobody \in UserRow \cup {Nobody}
    BY <1>0, IdsOf
  <2> QED
    BY <1>10, <2>1, <2>2, WorkIs
<1>12. PICK w : w = [x EXCEPT !.bond = b, !.member = m]
  OBVIOUS
<1>13. /\ w \in WorkRow /\ w.pc = "profile" /\ w.org = o /\ w.user = u
       /\ w.bond = b /\ w.member = m
  BY <1>2, <1>8, <1>11, <1>12 DEF WorkRow
<1>14. At(p, "idle") /\ Starts(p, w)
  BY <1>1, <1>9, <1>10, <1>12 DEF Update
<1>15. TablesOK' /\ Grows
  BY <1>0, TablesStay DEF Update
<1>16. Turn(p) /\ Like(w, proc'[p]) /\ proc'[p].pc = "profile"
  BY <1>0, <1>13, <1>14, StartsIs
<1>17. Sound(w)
  BY <1>2, <1>8, <1>13 DEF Sound, Copies, Logins
<1>18. Held(p)'
  <2>1. PICK v : v = proc'[p]
    OBVIOUS
  <2>2. v \in WorkRow /\ Sound(v)
    BY <1>13, <1>16, <1>17, <2>1, SoundLike DEF Like
  <2> QED
    BY <1>15, <2>1, <2>2, SoundStays DEF Held
<1> QED
  BY <1>15, <1>16, <1>18 DEF Step

LEMMA Loads ==
    ASSUME IInv, NEW p \in Procs, UpdateLoad(p)
    PROVE  /\ proc[p].user \in DOMAIN users /\ users[proc[p].user] \in UserRow
           /\ Turn(p) /\ proc'[p] \in WorkRow /\ proc'[p].pc = "saveUser"
           /\ proc'[p].row = users[proc[p].user]
           /\ proc'[p].org = proc[p].org /\ proc'[p].user = proc[p].user
           /\ proc'[p].bond = proc[p].bond /\ proc'[p].member = proc[p].member
<1>0. TablesOK /\ LocalsOK
  BY DEF IInv
<1>1. ~At(p, "idle") /\ proc[p].pc = "profile"
  BY DEF UpdateLoad, At
<1>2. proc[p].user \in DOMAIN users
  BY <1>0, <1>1, AtWork DEF Sound, WithUser, Labels, Memberships
<1>3. PICK r : r = users[proc[p].user]
  OBVIOUS
<1>4. r \in UserRow
  BY <1>0, <1>2, <1>3, IdsOf
<1>5. proc' = [proc EXCEPT ![p].pc = "saveUser", ![p].row = r]
  BY <1>3 DEF UpdateLoad
<1> QED
  BY <1>0, <1>1, <1>2, <1>3, <1>4, <1>5, LoadIs

LEMMA UpdateLoadKeeps ==
    ASSUME IInv, NEW p \in Procs, UpdateLoad(p)
    PROVE  Step(p)
<1>0. TablesOK /\ LocalsOK
  BY DEF IInv
<1>1. TablesOK' /\ Grows
  BY <1>0, TablesStay DEF UpdateLoad
<1>2. PICK w, v : w = proc[p] /\ v = proc'[p]
  OBVIOUS
<1>3. w.pc = "profile" /\ ~At(p, "idle")
  BY <1>2 DEF UpdateLoad, At
<1>4. Sound(w)
  BY <1>0, <1>2, <1>3, AtWork
<1>5. /\ Turn(p) /\ v \in WorkRow /\ v.pc = "saveUser" /\ v.row = users[w.user]
      /\ v.org = w.org /\ v.user = w.user /\ v.bond = w.bond /\ v.member = w.member
      /\ w.user \in DOMAIN users
  BY <1>2, Loads
<1>6. WellRow(v.row)
  BY <1>0, <1>5, IdsOf DEF WellRow, TablesOK
<1>7. /\ w.org \in Orgs /\ w.bond \in DOMAIN bonds
      /\ w.member \in BondRow /\ w.member.user \in DOMAIN users
  BY <1>3, <1>4 DEF Sound, WithBond, Memberships
<1>8. Sound(v)
  BY <1>5, <1>6, <1>7 DEF Sound, Logins
<1>9. Held(p)'
  BY <1>1, <1>2, <1>5, <1>8, SoundStays DEF Held
<1> QED
  BY <1>1, <1>5, <1>9 DEF Step

LEMMA UpdateSaveUserKeeps ==
    ASSUME IInv, NEW p \in Procs, UpdateSaveUser(p)
    PROVE  Step(p)
<1>0. TablesOK /\ LocalsOK
  BY DEF IInv
<1>1. PICK w : w = proc[p]
  OBVIOUS
<1>2. w.pc = "saveUser" /\ ~At(p, "idle")
  BY <1>1 DEF UpdateSaveUser, At
<1>3. Sound(w)
  BY <1>0, <1>1, <1>2, AtWork
<1>4. WellRow(w.row) /\ w.user \in DOMAIN users
  BY <1>2, <1>3 DEF Sound, Copies, WithUser, Labels, Memberships
<1>5. TablesOK' /\ Grows
  <2>1. PICK u, r : u = w.user /\ r = w.row
    OBVIOUS
  <2>2. users' = [users EXCEPT ![u] = r] /\ UNCHANGED <<bonds, account>>
    BY <1>1, <2>1 DEF UpdateSaveUser, UpdateUser, Saved
  <2> QED
    BY <1>0, <1>4, <2>1, <2>2, AccountSaved
<1>6. ASSUME NEW v, Like(w, v), v.pc = "saveBond" PROVE Sound(v)
  BY <1>2, <1>3, <1>6
  DEF Like, Sound, Memberships, WithUser, WithBond, Logins, Copies, Labels
<1>7. "saveBond" \in Labels
  BY DEF Labels, Memberships
<1>8. \A v : Like(proc[p], v) /\ v.pc = "saveBond" => Sound(v)
  BY <1>1, <1>6
<1> QED
  BY <1>2, <1>5, <1>7, <1>8, GoingKeeps DEF UpdateSaveUser

\* A membership is saved, maybe one that was removed meanwhile: no other is
\* like it.
LEMMA UpdateSaveBondKeeps ==
    ASSUME IInv, NEW p \in Procs, UpdateSaveBond(p)
    PROVE  Step(p)
<1>0. TablesOK /\ LocalsOK
  BY DEF IInv
<1>1. PICK b, m : b = proc[p].bond /\ m = proc[p].member
  OBVIOUS
<1>2. ~At(p, "idle") /\ proc[p].pc = "saveBond"
  BY DEF UpdateSaveBond, At
<1>3. b \in DOMAIN bonds /\ m \in BondRow /\ m.user \in DOMAIN users
  BY <1>0, <1>1, <1>2, AtWork DEF Sound, WithBond
<1>4. PICK o, u : o = m.org /\ u = m.user
  OBVIOUS
<1>5. PICK g : g = GetByOrgAndUser(o, u)
  OBVIOUS
<1>6. /\ g \in {0, b} /\ bonds' = [bonds EXCEPT ![b] = m]
      /\ Ends(p) /\ users' = users /\ account' = account
  BY <1>1, <1>4, <1>5 DEF UpdateSaveBond, UpdateBond
<1>7. \A c \in DOMAIN bonds : bonds[c].live /\ bonds[c].org = o /\ bonds[c].user = u => c = b
  <2>1. g # 0 => g \in BondsOf(o) /\ bonds[g].user = u
    BY <1>0, <1>5, FoundBond
  <2>2. g = 0 => \A c \in DOMAIN bonds :
                    bonds[c].live /\ bonds[c].org = o => bonds[c].user # u
    BY <1>0, <1>5, NoBond
  <2>3. CASE g = 0
    BY <2>2, <2>3
  <2>4. CASE g = b /\ g # 0
    <3>1. bonds[b].live /\ bonds[b].org = o /\ bonds[b].user = u
      BY <2>1, <2>4 DEF BondsOf
    <3> QED
      BY <1>0, <1>3, <3>1 DEF TablesOK, BondsOK
  <2> QED
    BY <1>6, <2>3, <2>4
<1>8. PICK t : t = bonds'
  OBVIOUS
<1>9. /\ t \in Seq(BondRow) /\ DOMAIN t = DOMAIN bonds /\ t[b] = m
      /\ \A c \in DOMAIN bonds : c # b => t[c] = bonds[c]
  <2>1. bonds \in Seq(BondRow) /\ t = [bonds EXCEPT ![b] = m]
    BY <1>0, <1>6, <1>8 DEF TablesOK
  <2> QED
    BY <1>3, <2>1, Replaced
<1>10. \A c \in DOMAIN t : t[c].user \in DOMAIN users
  BY <1>0, <1>3, <1>9 DEF TablesOK, BondsOK
<1>11. ASSUME NEW c \in DOMAIN t, NEW d \in DOMAIN t, c # d, t[c].live, t[d].live
       PROVE  t[c].org # t[d].org \/ t[c].user # t[d].user
  <2>1. CASE c # b /\ d # b
    BY <1>0, <1>9, <1>11, <2>1 DEF TablesOK, BondsOK
  <2>2. CASE c = b
    BY <1>4, <1>7, <1>9, <1>11, <2>2
  <2>3. CASE d = b
    BY <1>4, <1>7, <1>9, <1>11, <2>3
  <2> QED
    BY <2>1, <2>2, <2>3
<1>12. BondsOK'
  BY <1>6, <1>8, <1>10, <1>11 DEF BondsOK
<1>13. TablesOK' /\ Grows
  BY <1>0, <1>6, <1>8, <1>9, <1>12 DEF TablesOK, Grows
<1> QED
  BY <1>2, <1>6, <1>13, EndingKeeps

\* A request that begins with no row.
LEMMA PlainKeeps ==
    ASSUME IInv, NEW p \in Procs, NEW l \in {"count", "reset"}, At(p, "idle"),
           NEW o \in Orgs \cup {Nobody}, NEW u \in DOMAIN users, NEW a \in Asks,
           l = "count" => o \in Orgs, l = "reset" => a \in Passwords,
           Starts(p, Work(l, o, u, Nobody, a)), UNCHANGED <<users, bonds, account>>
    PROVE  Step(p) /\ proc'[p].pc = l
<1>0. TablesOK /\ LocalsOK
  BY DEF IInv
<1>1. PICK w : w = Work(l, o, u, Nobody, a)
  OBVIOUS
<1>2. w \in WorkRow /\ w.pc = l /\ w.org = o /\ w.user = u /\ w.ask = a
  <2>1. l \in Labels
    BY DEF Labels, Memberships
  <2>2. u \in Nat
    BY <1>0, IdsOf
  <2>3. w = [pc |-> l, org |-> o, user |-> u, bond |-> 0, row |-> Nobody,
             member |-> Nobody, ask |-> a, alone |-> TRUE]
    BY <1>1 DEF Work
  <2> QED
    BY <2>1, <2>2, <2>3 DEF WorkRow
<1>3. TablesOK' /\ Grows
  BY <1>0, TablesStay
<1>4. Starts(p, w)
  BY <1>1
<1>5. Turn(p) /\ Like(w, proc'[p]) /\ proc'[p].pc = l
  BY <1>0, <1>2, <1>4, StartsIs
<1>6. Sound(w)
  BY <1>2 DEF Sound, Copies, Logins, WithBond, Memberships, WithUser
<1>7. Held(p)'
  <2>1. PICK v : v = proc'[p]
    OBVIOUS
  <2>2. v \in WorkRow /\ Sound(v)
    BY <1>2, <1>5, <1>6, <2>1, SoundLike DEF Like
  <2> QED
    BY <1>3, <2>1, <2>2, SoundStays DEF Held
<1> QED
  BY <1>3, <1>5, <1>7 DEF Step

LEMMA RemoveKeeps ==
    ASSUME IInv, NEW p \in Procs, NEW o \in Orgs, NEW u \in DOMAIN users, NEW caller,
           Remove(p, o, u, caller)
    PROVE  Step(p) /\ proc'[p].pc = "count"
BY PlainKeeps DEF Remove, Asks

LEMMA ResetKeeps ==
    ASSUME IInv, NEW p \in Procs, NEW u \in DOMAIN users, NEW pw \in Passwords, Reset(p, u, pw)
    PROVE  Step(p) /\ proc'[p].pc = "reset"
BY PlainKeeps DEF Reset, Asks

LEMMA RemoveCountKeeps ==
    ASSUME IInv, NEW p \in Procs, RemoveCount(p)
    PROVE  Step(p)
<1>1. ~At(p, "idle") /\ proc[p].pc = "count"
  BY DEF RemoveCount, At
<1>2. TablesOK' /\ Grows
  BY TablesStay DEF IInv, RemoveCount
<1>3. PICK w : w = proc[p]
  OBVIOUS
<1>4. Sound(w)
  BY <1>1, <1>3, AtWork DEF IInv
<1>5. "delete" \in Labels
  BY DEF Labels, Memberships
<1>6. ASSUME NEW v, Like(w, v), v.pc = "delete" PROVE Sound(v)
  BY <1>1, <1>3, <1>4, <1>6
  DEF Like, Sound, Memberships, WithUser, WithBond, Logins, Copies, Labels
<1>7. \A v : Like(proc[p], v) /\ v.pc = "delete" => Sound(v)
  BY <1>3, <1>6
<1> QED
  BY <1>1, <1>2, <1>5, <1>7, GoingKeeps, EndingKeeps DEF RemoveCount

\* What a removal leaves of the memberships.
LEMMA Deleted ==
    ASSUME TablesOK, NEW o, NEW u, DeleteByOrgAndUser(o, u)
    PROVE  /\ bonds' \in Seq(BondRow) /\ DOMAIN bonds' = DOMAIN bonds
           /\ \A b \in DOMAIN bonds :
                 /\ bonds'[b].org = bonds[b].org /\ bonds'[b].user = bonds[b].user
                 /\ bonds'[b].live => bonds[b].live
                 /\ bonds[b].org # o \/ bonds[b].user # u => bonds'[b] = bonds[b]
<1>1. PICK t : t = bonds'
  OBVIOUS
<1>2. t = [b \in DOMAIN bonds |->
              IF bonds[b].org = o /\ bonds[b].user = u
              THEN [bonds[b] EXCEPT !.live = FALSE] ELSE bonds[b]]
  BY <1>1 DEF DeleteByOrgAndUser
<1>3. ASSUME NEW b \in DOMAIN bonds
      PROVE  /\ t[b] \in BondRow
             /\ t[b].org = bonds[b].org /\ t[b].user = bonds[b].user
             /\ t[b].live => bonds[b].live
             /\ bonds[b].org # o \/ bonds[b].user # u => t[b] = bonds[b]
  <2>1. PICK r : r = bonds[b]
    OBVIOUS
  <2>2. r \in BondRow
    BY <2>1, IdsOf
  <2>3. PICK s : s = [r EXCEPT !.live = FALSE]
    OBVIOUS
  <2>4. s \in BondRow /\ s.org = r.org /\ s.user = r.user /\ ~s.live
    BY <2>2, <2>3 DEF BondRow
  <2>5. t[b] = IF r.org = o /\ r.user = u THEN s ELSE r
    BY <1>2, <2>1, <2>3
  <2> QED
    BY <2>1, <2>2, <2>4, <2>5
<1>4. t = [b \in DOMAIN bonds |-> t[b]]
  BY <1>2
<1>5. t \in Seq(BondRow) /\ DOMAIN t = DOMAIN bonds
  <2>1. bonds \in Seq(BondRow)
    BY DEF TablesOK
  <2> QED
    BY <1>3, <1>4, <2>1, Rewritten
<1> QED
  BY <1>1, <1>3, <1>5

LEMMA RemoveDeleteKeeps ==
    ASSUME IInv, NEW p \in Procs, RemoveDelete(p)
    PROVE  Step(p)
<1>0. TablesOK /\ LocalsOK
  BY DEF IInv
<1>1. ~At(p, "idle") /\ Ends(p) /\ users' = users /\ account' = account
  BY DEF RemoveDelete, At
<1>2. PICK t : t = bonds'
  OBVIOUS
<1>3. /\ t \in Seq(BondRow) /\ DOMAIN t = DOMAIN bonds
      /\ \A b \in DOMAIN bonds : /\ t[b].org = bonds[b].org /\ t[b].user = bonds[b].user
                                 /\ t[b].live => bonds[b].live
  BY <1>0, <1>2, Deleted DEF RemoveDelete
<1>4. \A b, c \in DOMAIN t :
         /\ t[b].user \in DOMAIN users
         /\ b # c /\ t[b].live /\ t[c].live => t[b].org # t[c].org \/ t[b].user # t[c].user
  BY <1>0, <1>3 DEF TablesOK, BondsOK
<1>5. BondsOK'
  BY <1>1, <1>2, <1>4 DEF BondsOK
<1>6. TablesOK' /\ Grows
  BY <1>0, <1>1, <1>2, <1>3, <1>5 DEF TablesOK, Grows
<1> QED
  BY <1>1, <1>6, EndingKeeps

\* A password is set: what an account with a username has stays one.
LEMMA ResetIs ==
    ASSUME IInv, NEW p \in Procs, ResetSave(p)
    PROVE  /\ TablesOK' /\ Grows /\ DOMAIN users' = DOMAIN users
           /\ \A u \in DOMAIN users :
                 /\ users'[u].phone = users[u].phone /\ users'[u].name = users[u].name
                 /\ users'[u].ids = users[u].ids
<1>0. TablesOK /\ LocalsOK
  BY DEF IInv
<1>1. ~At(p, "idle") /\ proc[p].pc = "reset"
  BY DEF ResetSave, At
<1>2. PICK a, pw : a = proc[p].user /\ pw = proc[p].ask
  OBVIOUS
<1>3. a \in DOMAIN users /\ pw \in Passwords
  BY <1>0, <1>1, <1>2, AtWork DEF Sound, WithUser, Labels
<1>4. PICK r : r = users[a]
  OBVIOUS
<1>5. r \in UserRow
  BY <1>0, <1>3, <1>4, IdsOf
<1>6. PICK s : s = [r EXCEPT !.password = pw]
  OBVIOUS
<1>7. /\ WellRow(s)
      /\ s.phone = r.phone /\ s.name = r.name /\ s.ids = r.ids
  <2>1. /\ s \in UserRow /\ s.password = pw
        /\ s.phone = r.phone /\ s.name = r.name /\ s.ids = r.ids
    BY <1>3, <1>5, <1>6 DEF UserRow
  <2> QED
    BY <1>3, <2>1, PasswordsKnown DEF WellRow
<1>8. users' = [users EXCEPT ![a] = s]
  <2>1. users' = [users EXCEPT ![a].password = pw]
    BY <1>2 DEF ResetSave
  <2> QED
    BY <1>4, <1>6, <2>1, Zenon
<1>9. UNCHANGED <<bonds, account>>
  BY DEF ResetSave
<1>10. /\ TablesOK' /\ Grows /\ DOMAIN users' = DOMAIN users
       /\ users'[a] = s /\ \A u \in DOMAIN users : u # a => users'[u] = users[u]
  BY <1>0, <1>3, <1>7, <1>8, <1>9, AccountSaved
<1> QED
  BY <1>4, <1>7, <1>10

LEMMA ResetSaveKeeps ==
    ASSUME IInv, NEW p \in Procs, ResetSave(p)
    PROVE  Step(p)
BY ResetIs, EndingKeeps DEF ResetSave, At

-----------------------------------------------------------------------------
(***************************************************************************)
(* The statements of LoginOrCreate.  LedTo is what its query promises: of  *)
(* the accounts with an id of that person's, the first.                    *)
(***************************************************************************)
LedTo(d, a) ==
    /\ a \in DOMAIN users
    /\ Same(users[a], d)
    /\ \A u \in DOMAIN users : Same(users[u], d) => a <= u

LEMMA AddIdsIs ==
    ASSUME NEW r \in UserRow, NEW d \in People
    PROVE  /\ AddIds(r, LoginIds, d) \in UserRow
           /\ AddIds(r, LoginIds, d).phone = r.phone
           /\ AddIds(r, LoginIds, d).name = r.name
           /\ AddIds(r, LoginIds, d).password = r.password
           /\ r.ids \subseteq AddIds(r, LoginIds, d).ids
           /\ AddIds(r, LoginIds, d).ids \subseteq r.ids \cup LoginIdsOf(d)
<1>1. PICK missing \in SUBSET LoginIds : missing = {k \in LoginIds : \A id \in r.ids : id[1] # k}
  OBVIOUS
<1>2. PICK ids : ids = r.ids \cup (missing \X {d})
  OBVIOUS
<1>3. ids \in SUBSET ({"userid", "union", "open"} \X People)
  <2>1. r.ids \in SUBSET ({"userid", "union", "open"} \X People)
    BY DEF UserRow
  <2>2. (missing \X {d}) \in SUBSET ({"userid", "union", "open"} \X People)
    BY IdsKnown
  <2> QED
    BY <1>2, <2>1, <2>2
<1>4. r.ids \subseteq ids /\ ids \subseteq r.ids \cup LoginIdsOf(d)
  BY <1>2 DEF LoginIdsOf
<1>5. PICK s : s = [r EXCEPT !.ids = ids]
  OBVIOUS
<1>6. /\ s \in UserRow /\ s.ids = ids
      /\ s.phone = r.phone /\ s.name = r.name /\ s.password = r.password
  BY <1>3, <1>5 DEF UserRow
<1>7. AddIds(r, LoginIds, d) = s
  BY <1>1, <1>2, <1>5 DEF AddIds
<1> QED
  BY <1>4, <1>6, <1>7

LEMMA NewcomerIs ==
    ASSUME NEW d \in People, NEW r, r = User(PhoneOf[d], NoName, NoPassword, LoginIdsOf(d))
    PROVE  WellRow(r) /\ Same(r, d)
<1>1. LoginIdsOf(d) \in SUBSET ({"userid", "union", "open"} \X People) /\ LoginIdsOf(d) # {}
  <2>1. PICK k \in LoginIds : TRUE
    BY IdsKnown
  <2>2. <<k, d>> \in LoginIdsOf(d)
    BY DEF LoginIdsOf
  <2>3. LoginIdsOf(d) \in SUBSET ({"userid", "union", "open"} \X People)
    BY IdsKnown DEF LoginIdsOf
  <2> QED
    BY <2>2, <2>3
<1>2. PICK ids : ids = LoginIdsOf(d)
  OBVIOUS
<1>3. PICK ph : ph = PhoneOf[d]
  OBVIOUS
<1>4. ph \in Phones \cup {NoPhone}
  BY <1>3, PhonesKnown
<1>5. r = [phone |-> ph, name |-> NoName, password |-> NoPassword, ids |-> ids]
  BY <1>2, <1>3 DEF User
<1>6. r \in UserRow /\ r.name = NoName /\ r.ids = ids
  BY <1>1, <1>2, <1>4, <1>5 DEF UserRow
<1> QED
  BY <1>1, <1>2, <1>6 DEF WellRow, Same

LEMMA LoginIs ==
    ASSUME IInv, NEW p \in Procs, NEW d \in People, Login(p, d)
    PROVE  /\ Step(p)
           /\ proc'[p].ask = d
           /\ \/ /\ proc'[p].pc = "newcomer"
                 /\ WellRow(proc'[p].row) /\ Same(proc'[p].row, d)
                 /\ \A u \in DOMAIN users : ~Same(users[u], d)
              \/ /\ proc'[p].pc \in {"refresh", "session"}
                 /\ LedTo(d, proc'[p].user)
                 /\ proc'[p].row = AddIds(users[proc'[p].user], LoginIds, d)
<1>0. TablesOK /\ LocalsOK
  BY DEF IInv
<1>1. PICK u : u = FindDingTalkUser(d)
  OBVIOUS
<1>2. /\ u \in Nat /\ (u # 0 => LedTo(d, u))
      /\ u = 0 => \A v \in DOMAIN users : ~Same(users[v], d)
  <2>1. PICK S \in SUBSET DOMAIN users : S = {v \in DOMAIN users : Same(users[v], d)}
    OBVIOUS
  <2>2. u = First(S)
    BY <1>1, <2>1 DEF FindDingTalkUser
  <2>3. /\ u \in Nat /\ (u = 0 <=> S = {})
        /\ u # 0 => u \in S /\ \A j \in S : u <= j
    BY <1>0, <2>2, FoundUser
  <2> QED
    BY <2>1, <2>3 DEF LedTo
<1>3. PICK r : r = IF u = 0 THEN User(PhoneOf[d], NoName, NoPassword, LoginIdsOf(d))
                   ELSE AddIds(users[u], LoginIds, d)
  OBVIOUS
<1>4. PICK l \in {"newcomer", "session", "refresh"} :
         l = IF u = 0 THEN "newcomer" ELSE IF r = users[u] THEN "session" ELSE "refresh"
  OBVIOUS
<1>5. /\ WellRow(r)
      /\ u = 0 => Same(r, d)
  <2>1. CASE u = 0
    BY <1>3, <2>1, NewcomerIs
  <2>2. CASE u # 0
    <3>1. PICK s : s = users[u]
      OBVIOUS
    <3>2. WellRow(s) /\ s \in UserRow
      BY <1>0, <1>2, <2>2, <3>1, IdsOf DEF WellRow, LedTo, TablesOK
    <3>3. r = AddIds(s, LoginIds, d)
      BY <1>3, <2>2, <3>1
    <3>4. r \in UserRow /\ r.name = s.name /\ r.password = s.password
      BY <3>2, <3>3, AddIdsIs
    <3> QED
      BY <2>2, <3>2, <3>4 DEF WellRow
  <2> QED
    BY <2>1, <2>2
<1>6. PICK w : w = Work(l, Nobody, u, r, d)
  OBVIOUS
<1>7. w \in WorkRow /\ w.pc = l /\ w.user = u /\ w.row = r /\ w.ask = d
  <2>1. l \in Labels /\ d \in Asks
    BY DEF Labels, Logins, Asks
  <2>2. r \in UserRow
    BY <1>5 DEF WellRow
  <2>3. w = [pc |-> l, org |-> Nobody, user |-> u, bond |-> 0, row |-> r,
             member |-> Nobody, ask |-> d, alone |-> TRUE]
    BY <1>6 DEF Work
  <2> QED
    BY <1>2, <2>1, <2>2, <2>3 DEF WorkRow
<1>8. At(p, "idle") /\ Starts(p, w) /\ UNCHANGED <<users, bonds, account>>
  BY <1>1, <1>3, <1>4, <1>6 DEF Login
<1>9. TablesOK' /\ Grows
  BY <1>0, <1>8, TablesStay
<1>10. Turn(p) /\ Like(w, proc'[p]) /\ proc'[p].pc = l
  BY <1>0, <1>7, <1>8, StartsIs
<1>11. Sound(w)
  <2>1. l # "newcomer" => u \in DOMAIN users
    BY <1>2, <1>4 DEF LedTo
  <2> QED
    BY <1>5, <1>7, <2>1 DEF Sound, Copies, Memberships, WithUser, WithBond
<1>12. Held(p)'
  <2>1. PICK v : v = proc'[p]
    OBVIOUS
  <2>2. v \in WorkRow /\ Sound(v)
    BY <1>7, <1>10, <1>11, <2>1, SoundLike DEF Like
  <2> QED
    BY <1>9, <2>1, <2>2, SoundStays DEF Held
<1>13. Step(p)
  BY <1>9, <1>10, <1>12 DEF Step
<1>14. proc'[p].ask = d /\ proc'[p].user = u /\ proc'[p].row = r
  BY <1>7, <1>10 DEF Like
<1>15. CASE u = 0
  BY <1>2, <1>4, <1>5, <1>10, <1>13, <1>14, <1>15
<1>16. CASE u # 0
  BY <1>2, <1>3, <1>4, <1>10, <1>13, <1>14, <1>16
<1> QED
  BY <1>15, <1>16

LEMMA LoginCreateKeeps ==
    ASSUME IInv, NEW p \in Procs, LoginCreate(p)
    PROVE  Step(p)
<1>0. TablesOK /\ LocalsOK
  BY DEF IInv
<1>1. ~At(p, "idle") /\ proc[p].pc = "newcomer"
  BY DEF LoginCreate, At
<1>2. PICK w : w = proc[p]
  OBVIOUS
<1>3. WellRow(w.row) /\ w.ask \in People
  BY <1>0, <1>1, <1>2, AtWork DEF Sound, Logins
<1>4. PICK n : n = Len(users) + 1
  OBVIOUS
<1>5. PICK r : r = w.row
  OBVIOUS
<1>6. TablesOK' /\ Grows /\ n \in DOMAIN users' /\ n \in Nat
  <2>1. CreateUser(r) /\ UNCHANGED <<bonds, account>>
    BY <1>2, <1>5 DEF LoginCreate
  <2> QED
    BY <1>0, <1>3, <1>4, <1>5, <2>1, AccountAdded
<1>7. "session" \in Labels
  BY DEF Labels, Logins
<1>8. GoesWith(p, "session", n)
  BY <1>4 DEF LoginCreate
<1>9. /\ Turn(p) /\ proc'[p] \in WorkRow /\ proc'[p].pc = "session" /\ proc'[p].user = n
      /\ proc'[p].ask = w.ask
  BY <1>0, <1>1, <1>2, <1>6, <1>7, <1>8, GoesWithIs
<1>10. PICK v : v = proc'[p]
  OBVIOUS
<1>11. v \in WorkRow /\ v.pc = "session" /\ v.ask \in People /\ v.user = n
  BY <1>3, <1>9, <1>10
<1>12. Sound(v)'
  BY <1>6, <1>11 DEF Sound, WithBond, Memberships, Copies
<1>13. Held(p)'
  BY <1>10, <1>11, <1>12 DEF Held
<1> QED
  BY <1>6, <1>9, <1>13 DEF Step

\* A refresh saves its copy of the row, or is refused and saves nothing.
LEMMA LoginRefreshKeeps ==
    ASSUME IInv, NEW p \in Procs, LoginRefresh(p)
    PROVE  Step(p)
<1>0. TablesOK /\ LocalsOK
  BY DEF IInv
<1>1. PICK w : w = proc[p]
  OBVIOUS
<1>2. w.pc = "refresh" /\ ~At(p, "idle")
  BY <1>1 DEF LoginRefresh, At
<1>3. Sound(w)
  BY <1>0, <1>1, <1>2, AtWork
<1>4. WellRow(w.row) /\ w.user \in DOMAIN users /\ w.ask \in People
  BY <1>2, <1>3 DEF Sound, Copies, WithUser, Labels, Logins
<1>5. TablesOK' /\ Grows
  <2>1. PICK u, r : u = w.user /\ r = w.row
    OBVIOUS
  <2>2. CASE UpdateUser(u, r)
    <3>1. users' = [users EXCEPT ![u] = r] /\ UNCHANGED <<bonds, account>>
      BY <2>2 DEF LoginRefresh, UpdateUser, Saved
    <3> QED
      BY <1>0, <1>4, <2>1, <3>1, AccountSaved
  <2>3. CASE UNCHANGED users
    BY <1>0, <2>3, TablesStay DEF LoginRefresh
  <2> QED
    BY <1>1, <2>1, <2>2, <2>3 DEF LoginRefresh
<1>6. ASSUME NEW v, Like(w, v), v.pc = "session" PROVE Sound(v)
  BY <1>2, <1>4, <1>6 DEF Like, Sound, Memberships, WithBond, Copies
<1>7. "session" \in Labels
  BY DEF Labels, Logins
<1>8. \A v : Like(proc[p], v) /\ v.pc = "session" => Sound(v)
  BY <1>1, <1>6
<1> QED
  BY <1>2, <1>5, <1>7, <1>8, GoingKeeps DEF LoginRefresh

LEMMA LoginSessionKeeps ==
    ASSUME IInv, NEW p \in Procs, LoginSession(p)
    PROVE  Step(p)
<1>0. TablesOK /\ LocalsOK
  BY DEF IInv
<1>1. ~At(p, "idle") /\ proc[p].pc = "session" /\ Ends(p)
  BY DEF LoginSession, At
<1>2. PICK d, u : d = proc[p].ask /\ u = proc[p].user
  OBVIOUS
<1>3. d \in People /\ u \in Nat
  BY <1>0, <1>1, <1>2, AtWork DEF Sound, Logins, WorkRow
<1>4. account' = account \/ account' = [account EXCEPT ![d] = u]
  BY <1>2 DEF LoginSession
<1>5. account' \in [People -> Nat]
  BY <1>0, <1>3, <1>4 DEF TablesOK
<1>6. TablesOK' /\ Grows
  BY <1>0, <1>5 DEF LoginSession, TablesOK, BondsOK, Grows
<1> QED
  BY <1>1, <1>6, EndingKeeps

LEMMA FailKeeps ==
    ASSUME IInv, NEW p \in Procs, Fail(p)
    PROVE  Step(p)
BY TablesStay, EndingKeeps DEF Fail, IInv

-----------------------------------------------------------------------------
(***************************************************************************)
(* The inductive invariant.                                                *)
(***************************************************************************)
Begins(p) ==
    \/ ToolCreateMember(p) \/ ToolUpdateMember(p) \/ ToolRemoveMember(p)
    \/ CreateMember(p) \/ UpdateMember(p) \/ RemoveMember(p)

\* Creations, updates and removals that begin.
LEMMA BeginsKeeps ==
    ASSUME IInv, NEW p \in Procs, Begins(p)
    PROVE  /\ Step(p) /\ proc'[p].pc \in {"name", "member", "profile", "count"}
           /\ At(p, "idle") /\ UNCHANGED <<users, bonds, account>>
<1>1. ASSUME NEW o \in Orgs, NEW ph \in Phones \cup {NoPhone},
             NEW n \in Names \cup {NoName}, NEW pw \in Passwords \cup {NoPassword},
             NEW admin \in {"admin", "member"}, Create(p, o, ph, n, pw, admin)
      PROVE  /\ Step(p) /\ proc'[p].pc \in {"name", "member", "profile", "count"}
             /\ At(p, "idle") /\ UNCHANGED <<users, bonds, account>>
  BY <1>1, CreateKeeps DEF Create
<1>2. ASSUME NEW o \in Orgs, NEW u \in DOMAIN users,
             NEW admin \in {"admin", "member", "keep"}, Update(p, o, u, admin)
      PROVE  /\ Step(p) /\ proc'[p].pc \in {"name", "member", "profile", "count"}
             /\ At(p, "idle") /\ UNCHANGED <<users, bonds, account>>
  BY <1>2, UpdateKeeps DEF Update
<1>3. ASSUME NEW o \in Orgs, NEW u \in DOMAIN users, NEW caller, Remove(p, o, u, caller)
      PROVE  /\ Step(p) /\ proc'[p].pc \in {"name", "member", "profile", "count"}
             /\ At(p, "idle") /\ UNCHANGED <<users, bonds, account>>
  BY <1>3, RemoveKeeps DEF Remove
<1>4. CASE ToolCreateMember(p)
  BY <1>1, <1>4 DEF ToolCreateMember
<1>5. CASE CreateMember(p)
  BY <1>1, <1>5 DEF CreateMember
<1>6. CASE ToolUpdateMember(p)
  BY <1>2, <1>6 DEF ToolUpdateMember
<1>7. CASE UpdateMember(p)
  BY <1>2, <1>7 DEF UpdateMember
<1>8. CASE ToolRemoveMember(p)
  BY <1>3, <1>8 DEF ToolRemoveMember
<1>9. CASE RemoveMember(p)
  BY <1>3, <1>9 DEF RemoveMember
<1> QED
  BY <1>4, <1>5, <1>6, <1>7, <1>8, <1>9 DEF Begins

Acts(p) ==
    Begins(p) \/ ContinueMember(p) \/ ResetPassword(p) \/ LoginOrCreate(p) \/ Fail(p)

LEMMA NextIs == Next <=> \E p \in Procs : Acts(p)
BY DEF Next, Acts, Begins

LEMMA ActsKeeps ==
    ASSUME IInv, NEW p \in Procs, Acts(p)
    PROVE  Step(p)
<1>1. CASE Begins(p)
  BY <1>1, BeginsKeeps
<1>2. CASE ContinueMember(p)
  BY <1>2, CreateFindBondKeeps, CreateCheckNameKeeps, CreateAccountKeeps,
     CreateMembershipKeeps, UpdateLoadKeeps, UpdateSaveUserKeeps, UpdateSaveBondKeeps,
     RemoveCountKeeps, RemoveDeleteKeeps DEF ContinueMember
<1>3. CASE ResetPassword(p)
  BY <1>3, ResetKeeps, ResetSaveKeeps DEF ResetPassword
<1>4. CASE LoginOrCreate(p)
  BY <1>4, LoginIs, LoginCreateKeeps, LoginRefreshKeeps, LoginSessionKeeps DEF LoginOrCreate
<1>5. CASE Fail(p)
  BY <1>5, FailKeeps
<1> QED
  BY <1>1, <1>2, <1>3, <1>4, <1>5 DEF Acts

LEMMA NothingKeeps ==
    ASSUME IInv, UNCHANGED vars
    PROVE  IInv'
BY DEF IInv, TablesOK, BondsOK, LocalsOK, Held, Sound, vars

LEMMA NextKeeps ==
    ASSUME IInv, [Next]_vars
    PROVE  IInv'
BY NextIs, ActsKeeps, StepKeeps, NothingKeeps

LEMMA InitHolds == Init => IInv
<1> SUFFICES ASSUME Init PROVE IInv
  OBVIOUS
<1>1. ASSUME NEW n \in Names, NEW pw \in Passwords
      PROVE  WellRow(Founder(n, pw))
  <2>1. PICK r : r = Founder(n, pw)
    OBVIOUS
  <2>2. r \in UserRow /\ r.password = pw
    BY <2>1 DEF Founder, User, UserRow
  <2> QED
    BY <2>1, <2>2, PasswordsKnown DEF WellRow
<1>2. ASSUME NEW d \in People
      PROVE  WellRow(Synced(d))
  <2>1. PICK r : r = Synced(d)
    OBVIOUS
  <2>2. PICK ids : ids = {"userid", "union"} \X {d}
    OBVIOUS
  <2>3. ids \in SUBSET ({"userid", "union", "open"} \X People)
    BY <2>2
  <2>4. PICK ph : ph = PhoneOf[d]
    OBVIOUS
  <2>5. ph \in Phones \cup {NoPhone}
    BY <2>4, PhonesKnown
  <2>6. r = [phone |-> ph, name |-> NoName, password |-> NoPassword, ids |-> ids]
    BY <2>1, <2>2, <2>4 DEF Synced, User
  <2>7. r \in UserRow /\ r.name = NoName
    BY <2>3, <2>5, <2>6 DEF UserRow
  <2> QED
    BY <2>1, <2>7 DEF WellRow
<1>3. PICK n \in Names, pw \in Passwords :
         \/ users = <<Founder(n, pw)>>
         \/ \E d \in People : users = <<Founder(n, pw), Synced(d)>>
  BY DEF Init
<1>4. /\ users \in Seq(UserRow) /\ 1 \in DOMAIN users
      /\ \A u \in DOMAIN users : WellRow(users[u])
  <2>1. PICK r : r = Founder(n, pw)
    OBVIOUS
  <2>2. WellRow(r) /\ r \in UserRow
    BY <1>1, <2>1 DEF WellRow
  <2>3. CASE users = <<r>>
    BY <2>2, <2>3
  <2>4. ASSUME NEW d \in People, users = <<r, Synced(d)>>
        PROVE  /\ users \in Seq(UserRow) /\ 1 \in DOMAIN users
               /\ \A u \in DOMAIN users : WellRow(users[u])
    <3>1. PICK s : s = Synced(d)
      OBVIOUS
    <3>2. WellRow(s) /\ s \in UserRow
      BY <1>2, <3>1 DEF WellRow
    <3>3. users = <<r, s>>
      BY <2>4, <3>1
    <3> QED
      BY <2>2, <3>2, <3>3
  <2> QED
    BY <1>3, <2>1, <2>3, <2>4
<1>5. bonds \in Seq(BondRow) /\ DOMAIN bonds = {1} /\ bonds[1].user = 1
  <2>1. PICK o \in Orgs : bonds = <<Bond(o, 1, TRUE, 0, TRUE)>>
    BY DEF Init
  <2>2. PICK r : r = Bond(o, 1, TRUE, 0, TRUE)
    OBVIOUS
  <2>3. r \in BondRow /\ r.user = 1
    BY <2>2 DEF Bond, BondRow
  <2>4. bonds = <<r>>
    BY <2>1, <2>2
  <2> QED
    BY <2>3, <2>4
<1>6. BondsOK
  BY <1>4, <1>5 DEF BondsOK
<1>7. account \in [People -> Nat]
  BY DEF Init
<1>8. TablesOK
  BY <1>4, <1>5, <1>6, <1>7 DEF TablesOK, WellRow
<1>9. LocalsOK
  BY DEF Init, LocalsOK, Held
<1> QED
  BY <1>8, <1>9 DEF IInv

THEOREM MembersInductive == Spec => []IInv
<1>1. Init => IInv
  BY InitHolds
<1>2. IInv /\ [Next]_vars => IInv'
  BY NextKeeps
<1> QED
  BY <1>1, <1>2, PTL DEF Spec

\* However requests overlap, and wherever they fail, the tables are what
\* their types say: an account with a username has a password, and of the
\* bonds for one membership one at most is live (CreateMember, UpdateMember,
\* the unique indexes).
THEOREM MemberTypes == Spec => []TypeOK
<1>1. IInv => TypeOK
  <2> SUFFICES ASSUME IInv PROVE TypeOK
    OBVIOUS
  <2>1. TablesOK
    BY DEF IInv
  <2>2. \A p \in Procs : ~At(p, "idle") => proc[p].alone \in BOOLEAN
    BY AtWork DEF IInv, WorkRow
  <2> QED
    BY <2>1, <2>2 DEF TypeOK, TablesOK, BondsOK
<1> QED
  BY <1>1, MembersInductive, PTL

-----------------------------------------------------------------------------
(***************************************************************************)
(* What a request knows that overlaps no other.                            *)
(***************************************************************************)
Knows(p) ==
    Alone(p) =>
       /\ At(p, "delete") => ~LastAdmin(proc[p].org, proc[p].user)
       /\ At(p, "saveUser") => proc[p].row = users[proc[p].user]
       /\ At(p, "refresh") => proc[p].row = AddIds(users[proc[p].user], LoginIds, proc[p].ask)
       /\ proc[p].pc \in {"refresh", "session"} => LedTo(proc[p].ask, proc[p].user)
       /\ At(p, "newcomer") => /\ Same(proc[p].row, proc[p].ask)
                               /\ \A u \in DOMAIN users : ~Same(users[u], proc[p].ask)

Solo == \A p \in Procs : Alone(p) => \A q \in Procs \ {p} : At(q, "idle")

Undisturbed == Solo /\ \A p \in Procs : Knows(p)

Knowing == {"delete", "saveUser", "refresh", "session", "newcomer"}

LEMMA AdminsSame ==
    ASSUME bonds' = bonds, NEW o
    PROVE  Admins(o)' = Admins(o)
<1>1. BondsOf(o)' = BondsOf(o)
  BY DEF BondsOf
<1> QED
  BY <1>1 DEF Admins

LEMMA LastAdminSame ==
    ASSUME bonds' = bonds, NEW o, NEW u
    PROVE  LastAdmin(o, u)' = LastAdmin(o, u)
BY AdminsSame DEF LastAdmin

LEMMA UpdateLoadKnows ==
    ASSUME IInv, NEW p \in Procs, UpdateLoad(p)
    PROVE  Knows(p)'
<1>1. /\ proc'[p].pc = "saveUser" /\ proc'[p].row = users[proc'[p].user]
  BY Loads
<1>2. users' = users
  BY DEF UpdateLoad
<1> QED
  BY <1>1, <1>2 DEF Knows, At

LEMMA RemoveCountKnows ==
    ASSUME IInv, NEW p \in Procs, RemoveCount(p)
    PROVE  Knows(p)'
<1>1. ~At(p, "idle") /\ bonds' = bonds
  BY DEF RemoveCount, At
<1>2. CASE Ends(p)
  BY <1>1, <1>2, EndsIs DEF IInv, Knows
<1>3. CASE ~LastAdmin(proc[p].org, proc[p].user) /\ Goes(p, "delete")
  <2>1. "delete" \in Labels
    BY DEF Labels, Memberships
  <2>2. Like(proc[p], proc'[p]) /\ proc'[p].pc = "delete"
    BY <1>1, <1>3, <2>1, GoesIs DEF IInv
  <2>3. PICK o, u : o = proc'[p].org /\ u = proc'[p].user
    OBVIOUS
  <2>4. ~LastAdmin(o, u)
    BY <1>3, <2>2, <2>3 DEF Like
  <2>5. ~LastAdmin(o, u)'
    BY <1>1, <2>4, LastAdminSame
  <2> QED
    BY <2>2, <2>3, <2>5 DEF Knows, At
<1> QED
  BY <1>2, <1>3 DEF RemoveCount

LEMMA LoginKnows ==
    ASSUME IInv, NEW p \in Procs, NEW d \in People, Login(p, d)
    PROVE  Knows(p)'
<1>1. users' = users
  BY DEF Login
<1>2. PICK v : v = proc'[p]
  OBVIOUS
<1>3. /\ v.ask = d
      /\ \/ /\ v.pc = "newcomer" /\ Same(v.row, d)
            /\ \A u \in DOMAIN users : ~Same(users[u], d)
         \/ /\ v.pc \in {"refresh", "session"} /\ LedTo(d, v.user)
            /\ v.row = AddIds(users[v.user], LoginIds, d)
  BY <1>2, LoginIs
<1>4. LedTo(d, v.user) => LedTo(d, v.user)'
  BY <1>1 DEF LedTo
<1> QED
  BY <1>1, <1>2, <1>3, <1>4 DEF Knows, At

\* A newcomer gets the only account that is theirs.
LEMMA LoginCreateKnows ==
    ASSUME IInv, Undisturbed, NEW p \in Procs, LoginCreate(p)
    PROVE  Knows(p)'
<1>0. TablesOK /\ LocalsOK
  BY DEF IInv
<1>1. ~At(p, "idle") /\ proc[p].pc = "newcomer"
  BY DEF LoginCreate, At
<1>2. PICK d, r : d = proc[p].ask /\ r = proc[p].row
  OBVIOUS
<1>3. WellRow(r)
  BY <1>0, <1>1, <1>2, AtWork DEF Sound
<1>4. PICK n : n = Len(users) + 1
  OBVIOUS
<1>5. PICK t : t = users'
  OBVIOUS
<1>6. /\ n \in DOMAIN t /\ n \in Nat /\ t[n] = r
      /\ \A u \in DOMAIN t : u # n => u \in DOMAIN users /\ t[u] = users[u]
  <2>1. CreateUser(r) /\ UNCHANGED <<bonds, account>>
    BY <1>2 DEF LoginCreate
  <2>2. /\ DOMAIN users' = DOMAIN users \cup {n} /\ users'[n] = r /\ n \in Nat
        /\ \A u \in DOMAIN users : users'[u] = users[u]
    BY <1>0, <1>3, <1>4, <2>1, AccountAdded
  <2> QED
    BY <1>5, <2>2
<1>7. /\ Turn(p) /\ proc'[p].pc = "session" /\ proc'[p].user = n /\ proc'[p].ask = d
  <2>1. "session" \in Labels /\ GoesWith(p, "session", n)
    BY <1>4 DEF Labels, Logins, LoginCreate
  <2> QED
    BY <1>0, <1>1, <1>2, <1>6, <2>1, GoesWithIs
<1>8. ASSUME Alone(p)' PROVE LedTo(d, n)'
  <2>1. Alone(p)
    BY <1>1, <1>7, <1>8 DEF Turn
  <2>2. Same(r, d) /\ \A u \in DOMAIN users : ~Same(users[u], d)
    BY <1>1, <1>2, <2>1 DEF Undisturbed, Knows, At
  <2>3. \A u \in DOMAIN t : Same(t[u], d) => n <= u
    BY <1>6, <2>2
  <2> QED
    BY <1>5, <1>6, <2>2, <2>3 DEF LedTo
<1> QED
  BY <1>7, <1>8 DEF Knows, At

\* Saving a row that is a person's at the account that was theirs.
LEMMA LedToStays ==
    ASSUME TablesOK, NEW d, NEW a, LedTo(d, a), NEW u \in DOMAIN users, NEW r,
           DOMAIN users' = DOMAIN users, users'[u] = r,
           \A v \in DOMAIN users : v # u => users'[v] = users[v],
           u = a => Same(r, d), Same(r, d) => a <= u
    PROVE  LedTo(d, a)'
BY DEF LedTo

LEMMA LoginRefreshKnows ==
    ASSUME IInv, Undisturbed, NEW p \in Procs, LoginRefresh(p)
    PROVE  Knows(p)'
<1>0. TablesOK /\ LocalsOK
  BY DEF IInv
<1>1. ~At(p, "idle") /\ proc[p].pc = "refresh"
  BY DEF LoginRefresh, At
<1>2. PICK d, r, u : d = proc[p].ask /\ r = proc[p].row /\ u = proc[p].user
  OBVIOUS
<1>3. WellRow(r) /\ u \in DOMAIN users /\ d \in People
  BY <1>0, <1>1, <1>2, AtWork DEF Sound, Copies, WithUser, Labels, Logins
<1>4. Turn(p) /\ proc'[p].pc = "session" /\ proc'[p].user = u /\ proc'[p].ask = d
  <2>1. "session" \in Labels /\ Goes(p, "session")
    BY DEF Labels, Logins, LoginRefresh
  <2> QED
    BY <1>0, <1>1, <1>2, <2>1, GoesIs DEF Like
<1>5. ASSUME Alone(p)' PROVE LedTo(d, u)'
  <2>1. Alone(p)
    BY <1>1, <1>4, <1>5 DEF Turn
  <2>2. LedTo(d, u) /\ r = AddIds(users[u], LoginIds, d)
    BY <1>1, <1>2, <2>1 DEF Undisturbed, Knows, At
  <2>3. CASE UpdateUser(u, r)
    <3>1. /\ DOMAIN users' = DOMAIN users /\ users'[u] = r
          /\ \A v \in DOMAIN users : v # u => users'[v] = users[v]
      <4>1. users' = [users EXCEPT ![u] = r] /\ UNCHANGED <<bonds, account>>
        BY <2>3 DEF LoginRefresh, UpdateUser, Saved
      <4> QED
        BY <1>0, <1>3, <4>1, AccountSaved
    <3>2. Same(r, d)
      <4>1. PICK s : s = users[u]
        OBVIOUS
      <4>2. s \in UserRow /\ Same(s, d) /\ r = AddIds(s, LoginIds, d)
        BY <1>0, <1>3, <2>2, <4>1, IdsOf DEF LedTo
      <4>3. s.ids \subseteq r.ids
        BY <1>3, <4>2, AddIdsIs
      <4> QED
        BY <4>2, <4>3 DEF Same
    <3>3. u <= u
      BY <1>0, <1>3, IdsOf
    <3> QED
      BY <1>0, <1>3, <2>2, <3>1, <3>2, <3>3, LedToStays
  <2>4. CASE UNCHANGED users
    BY <2>2, <2>4 DEF LedTo
  <2> QED
    BY <1>2, <2>3, <2>4 DEF LoginRefresh
<1> QED
  BY <1>4, <1>5 DEF Knows, At

LEMMA EndsKnows ==
    ASSUME IInv, NEW p \in Procs, ~At(p, "idle"), Ends(p)
    PROVE  Knows(p)'
BY EndsIs DEF IInv, Knows

LEMMA GoesKnows ==
    ASSUME IInv, NEW p \in Procs, NEW l \in Labels \ Knowing, ~At(p, "idle"), Goes(p, l)
    PROVE  Knows(p)'
<1>1. proc'[p].pc \notin Knowing
  BY GoesIs DEF IInv
<1> QED
  BY <1>1 DEF Knows, Knowing, At

LEMMA ActsKnows ==
    ASSUME IInv, Undisturbed, NEW p \in Procs, Acts(p)
    PROVE  Knows(p)'
<1>1. \A l \in {"bond", "account", "saveBond"} : l \in Labels \ Knowing
  BY DEF Labels, Memberships, Knowing
<1>2. CASE Begins(p)
  <2>1. proc'[p].pc \notin Knowing
    BY <1>2, BeginsKeeps DEF Knowing
  <2> QED
    BY <2>1 DEF Knows, Knowing, At
<1>3. CASE CreateFindBond(p)
  BY <1>1, <1>3, GoesKnows, EndsKnows DEF CreateFindBond, At
<1>4. CASE CreateCheckName(p)
  BY <1>1, <1>4, GoesKnows, EndsKnows DEF CreateCheckName, At
<1>5. CASE CreateAccount(p)
  <2>1. proc'[p].pc \notin Knowing
    BY <1>5, CreateAccountKeeps DEF Knowing
  <2> QED
    BY <2>1 DEF Knows, Knowing, At
<1>6. CASE CreateMembership(p) \/ UpdateSaveBond(p) \/ RemoveDelete(p)
  BY <1>6, EndsKnows DEF CreateMembership, UpdateSaveBond, RemoveDelete, At
<1>7. CASE UpdateSaveUser(p)
  BY <1>1, <1>7, GoesKnows DEF UpdateSaveUser, At
<1>8. CASE UpdateLoad(p)
  BY <1>8, UpdateLoadKnows
<1>9. CASE RemoveCount(p)
  BY <1>9, RemoveCountKnows
<1>10. ASSUME NEW u \in DOMAIN users, NEW pw \in Passwords, Reset(p, u, pw)
       PROVE  Knows(p)'
  <2>1. proc'[p].pc \notin Knowing
    BY <1>10, ResetKeeps DEF Knowing
  <2> QED
    BY <2>1 DEF Knows, Knowing, At
<1>11. CASE ResetSave(p) \/ LoginSession(p) \/ Fail(p)
  BY <1>11, EndsKnows DEF ResetSave, LoginSession, Fail, At
<1>12. CASE LoginOrCreate(p)
  BY <1>11, <1>12, LoginKnows, LoginCreateKnows, LoginRefreshKnows DEF LoginOrCreate
<1> QED
  BY <1>2, <1>3, <1>4, <1>5, <1>6, <1>7, <1>8, <1>9, <1>10, <1>11, <1>12
  DEF Acts, ContinueMember, ResetPassword

LEMMA UndisturbedStays ==
    ASSUME IInv, Undisturbed, [Next]_vars
    PROVE  Undisturbed'
<1>1. ASSUME NEW p \in Procs, Acts(p) PROVE Undisturbed'
  <2>0. LocalsOK
    BY DEF IInv
  <2>1. Turn(p) /\ Knows(p)'
    BY <1>1, ActsKeeps, ActsKnows DEF Step
  <2>2. \A q \in Procs \ {p} : Kept(q)
    BY <2>1 DEF Turn
  <2>3. ASSUME NEW q \in Procs \ {p} PROVE ~Alone(q)'
    <3>1. Alone(q)' => Alone(q)
      BY <2>0, <2>2, KeptIs
    <3>2. Alone(q) => At(p, "idle")
      BY DEF Undisturbed, Solo
    <3> QED
      BY <2>1, <3>1, <3>2 DEF Turn
  <2>4. ASSUME Alone(p)', NEW q \in Procs \ {p} PROVE At(q, "idle")'
    <3>1. At(q, "idle")
      <4>1. CASE At(p, "idle")
        BY <2>1, <2>4, <4>1 DEF Turn, Busy
      <4>2. CASE ~At(p, "idle")
        BY <2>1, <2>4, <4>2 DEF Turn, Undisturbed, Solo
      <4> QED
        BY <4>1, <4>2
    <3> QED
      BY <2>0, <2>2, <3>1, KeptIs DEF At
  <2>5. Solo'
    BY <2>3, <2>4 DEF Solo
  <2>6. \A q \in Procs : Knows(q)'
    BY <2>1, <2>3 DEF Knows
  <2> QED
    BY <2>5, <2>6 DEF Undisturbed
<1>2. CASE UNCHANGED vars
  <2>1. Solo'
    BY <1>2 DEF Undisturbed, Solo, Alone, At, vars
  <2>2. ASSUME NEW q \in Procs PROVE Knows(q)'
    <3>1. LastAdmin(proc[q].org, proc[q].user)' = LastAdmin(proc[q].org, proc[q].user)
      <4>1. PICK o, u : o = proc[q].org /\ u = proc[q].user
        OBVIOUS
      <4>2. LastAdmin(o, u)' = LastAdmin(o, u) /\ proc' = proc
        BY <1>2, LastAdminSame DEF vars
      <4> QED
        BY <4>1, <4>2
    <3>2. LedTo(proc[q].ask, proc[q].user)' = LedTo(proc[q].ask, proc[q].user)
      BY <1>2 DEF LedTo, vars
    <3>3. proc' = proc /\ users' = users /\ Knows(q)
      BY <1>2 DEF vars, Undisturbed
    <3> QED
      BY <3>1, <3>2, <3>3 DEF Knows, Alone, At
  <2> QED
    BY <2>1, <2>2 DEF Undisturbed
<1> QED
  BY <1>1, <1>2, NextIs

LEMMA UndisturbedInit == Init => Undisturbed
BY IdleIsNoWork DEF Init, Undisturbed, Solo, Knows, Alone, At

LEMMA UndisturbedAlways == Spec => [](IInv /\ Undisturbed)
<1>1. Init => IInv /\ Undisturbed
  BY InitHolds, UndisturbedInit
<1>2. IInv /\ Undisturbed /\ [Next]_vars => (IInv /\ Undisturbed)'
  BY NextKeeps, UndisturbedStays
<1> QED
  BY <1>1, <1>2, PTL DEF Spec

-----------------------------------------------------------------------------
(***************************************************************************)
(* What a request without company does of the tables.                      *)
(***************************************************************************)
LEMMA IdleActs ==
    ASSUME IInv, NEW p \in Procs, At(p, "idle"), Acts(p)
    PROVE  UNCHANGED <<users, bonds, account>>
<1>1. CASE Begins(p)
  BY <1>1, BeginsKeeps
<1>2. CASE ResetPassword(p)
  BY <1>2 DEF ResetPassword, Reset, ResetSave, At
<1>3. CASE LoginOrCreate(p)
  BY <1>3 DEF LoginOrCreate, Login, LoginCreate, LoginRefresh, LoginSession, At
<1> QED
  BY <1>1, <1>2, <1>3 DEF Acts, ContinueMember, CreateFindBond, CreateCheckName, CreateAccount,
  CreateMembership, UpdateLoad, UpdateSaveUser, UpdateSaveBond, RemoveCount, RemoveDelete,
  Fail, At

LEMMA OthersActs ==
    ASSUME IInv, Undisturbed, NEW p \in Procs, Alone(p), NEW q \in Procs \ {p}, Acts(q)
    PROVE  UNCHANGED <<users, bonds, account>>
BY IdleActs DEF Undisturbed, Solo

LEMMA BeginsIdle ==
    ASSUME NEW p \in Procs, Begins(p)
    PROVE  At(p, "idle")
BY DEF Begins, ToolCreateMember, ToolUpdateMember, ToolRemoveMember, CreateMember, UpdateMember,
   RemoveMember, Create, Update, Remove

LEMMA DeleteActs ==
    ASSUME NEW p \in Procs, At(p, "delete"), Acts(p)
    PROVE  RemoveDelete(p) \/ Fail(p)
BY BeginsIdle DEF Acts, ContinueMember, ResetPassword, LoginOrCreate, CreateFindBond,
   CreateCheckName, CreateAccount, CreateMembership, UpdateLoad, UpdateSaveUser, UpdateSaveBond,
   RemoveCount, Reset, ResetSave, Login, LoginCreate, LoginRefresh, LoginSession, At

\* Of two administrators one stays.
LEMMA AnotherAdmin ==
    ASSUME NEW o, NEW u, Admins(o) # {}, ~LastAdmin(o, u)
    PROVE  \E v \in Admins(o) : v # u
<1>1. PICK A : A = Admins(o)
  OBVIOUS
<1>2. Cardinality({u}) = 1
  BY FS_Singleton
<1>3. ~(u \in A /\ Cardinality(A) <= 1)
  BY <1>1 DEF LastAdmin
<1>4. A # {u}
  BY <1>2, <1>3
<1> QED
  BY <1>1, <1>4

LEMMA AdminsLeft ==
    ASSUME IInv, NEW p \in Procs, RemoveDelete(p),
           ~LastAdmin(proc[p].org, proc[p].user), NEW o \in Orgs, Admins(o) # {}
    PROVE  Admins(o)' # {}
<1>0. TablesOK
  BY DEF IInv
<1>1. PICK oo, u : oo = proc[p].org /\ u = proc[p].user
  OBVIOUS
<1>2. \E v \in Admins(o) : oo # o \/ v # u
  <2>1. CASE oo = o
    BY <1>1, <2>1, AnotherAdmin
  <2>2. CASE oo # o
    BY <2>2
  <2> QED
    BY <2>1, <2>2
<1>3. PICK b \in DOMAIN bonds : /\ bonds[b].live /\ bonds[b].org = o /\ bonds[b].admin
                                /\ oo # o \/ bonds[b].user # u
  BY <1>2 DEF Admins, BondsOf
<1>4. PICK t : t = bonds'
  OBVIOUS
<1>5. DOMAIN t = DOMAIN bonds /\ t[b] = bonds[b]
  <2>1. DeleteByOrgAndUser(oo, u)
    BY <1>1 DEF RemoveDelete
  <2> QED
    BY <1>0, <1>3, <1>4, <2>1, Deleted
<1>6. b \in BondsOf(o)' /\ bonds'[b].admin
  BY <1>3, <1>4, <1>5 DEF BondsOf
<1> QED
  BY <1>6 DEF Admins

\* Whatever overlaps, a removal that no other request overlaps leaves an
\* organization that had an administrator with one (RemoveMember).
THEOREM AnAdminStays == Spec => LastAdminStays
<1> DEFINE Left(p, o) == At(p, "delete") /\ proc[p].alone /\ Admins(o) # {} => Admins(o)' # {}
<1>1. ASSUME IInv, Undisturbed, [Next]_vars, NEW p \in Procs, NEW o \in Orgs
      PROVE  Left(p, o)
  <2> SUFFICES ASSUME At(p, "delete"), proc[p].alone, Admins(o) # {} PROVE Admins(o)' # {}
    OBVIOUS
  <2>1. Alone(p) /\ ~LastAdmin(proc[p].org, proc[p].user)
    BY <1>1 DEF Alone, At, Undisturbed, Knows
  <2>2. ASSUME NEW q \in Procs \ {p}, Acts(q) PROVE bonds' = bonds
    BY <1>1, <2>1, <2>2, OthersActs
  <2>3. CASE bonds' = bonds
    BY <2>3, AdminsSame
  <2>4. CASE RemoveDelete(p)
    BY <1>1, <2>1, <2>4, AdminsLeft
  <2>5. CASE Fail(p)
    BY <2>3, <2>5 DEF Fail
  <2>6. CASE Acts(p)
    BY <2>4, <2>5, <2>6, DeleteActs
  <2>7. CASE UNCHANGED vars
    BY <2>3, <2>7 DEF vars
  <2> QED
    BY <1>1, <2>2, <2>3, <2>6, <2>7, NextIs
<1>2. IInv /\ Undisturbed /\ [Next]_vars => \A p \in Procs, o \in Orgs : Left(p, o)
  BY <1>1
<1>3. IInv /\ Undisturbed /\ [Next]_vars =>
         [\A p \in Procs, o \in Orgs :
             At(p, "delete") /\ proc[p].alone /\ Admins(o) # {} => Admins(o)' # {}]_vars
  BY <1>2
<1> QED
  BY <1>3, UndisturbedAlways, PTL DEF Spec, LastAdminStays

-----------------------------------------------------------------------------
\* Of a saved row: what was to stay.
KeepsTheRest(old, new, reset) ==
    /\ new.phone = old.phone /\ new.name = old.name
    /\ old.ids \subseteq new.ids
    /\ new.password = old.password \/ reset

LEMMA AddedKeepsTheRest ==
    ASSUME TablesOK, NEW r, WellRow(r), CreateUser(r), UNCHANGED <<bonds, account>>,
           NEW u \in DOMAIN users
    PROVE  users'[u] = users[u]
BY AccountAdded

LEMMA SavedKeepsTheRest ==
    ASSUME IInv, Undisturbed, NEW p \in Procs, Alone(p), Acts(p), NEW u \in DOMAIN users
    PROVE  KeepsTheRest(users[u], users'[u], At(p, "reset"))
<1>0. TablesOK /\ LocalsOK
  BY DEF IInv
<1>1. ~At(p, "idle")
  BY DEF Alone
<1>2. CASE users' = users
  BY <1>2 DEF KeepsTheRest
<1>3. PICK r, a : r = proc[p].row /\ a = proc[p].user
  OBVIOUS
<1>4. CASE CreateAccount(p) \/ LoginCreate(p)
  <2>1. WellRow(r)
    BY <1>0, <1>1, <1>3, <1>4, AtWork DEF CreateAccount, LoginCreate, At, Sound
  <2>2. users'[u] = users[u]
    BY <1>0, <1>3, <1>4, <2>1, AddedKeepsTheRest DEF CreateAccount, LoginCreate
  <2> QED
    BY <2>2 DEF KeepsTheRest
<1>5. ASSUME WellRow(r), a \in DOMAIN users, UpdateUser(a, r), UNCHANGED <<bonds, account>>
      PROVE  users'[u] = IF u = a THEN r ELSE users[u]
  <2>1. users' = [users EXCEPT ![a] = r]
    BY <1>5 DEF UpdateUser, Saved
  <2> QED
    BY <1>0, <1>5, <2>1, AccountSaved
<1>6. CASE UpdateSaveUser(p)
  <2>1. WellRow(r) /\ a \in DOMAIN users /\ r = users[a]
    <3>1. Sound(proc[p]) /\ proc[p].pc = "saveUser"
      BY <1>0, <1>1, <1>6, AtWork DEF UpdateSaveUser, At
    <3>2. r = users[a]
      BY <1>3, <3>1 DEF Undisturbed, Knows, At
    <3> QED
      BY <1>3, <3>1, <3>2 DEF Sound, Copies, WithUser, Labels, Memberships
  <2>2. users'[u] = users[u]
    BY <1>3, <1>5, <1>6, <2>1 DEF UpdateSaveUser
  <2> QED
    BY <2>2 DEF KeepsTheRest
<1>7. CASE LoginRefresh(p) /\ users' # users
  <2>1. PICK d : d = proc[p].ask
    OBVIOUS
  <2>2. WellRow(r) /\ a \in DOMAIN users /\ d \in People /\ r = AddIds(users[a], LoginIds, d)
    <3>1. Sound(proc[p]) /\ proc[p].pc = "refresh"
      BY <1>0, <1>1, <1>7, AtWork DEF LoginRefresh, At
    <3>2. r = AddIds(users[a], LoginIds, d)
      BY <1>3, <2>1, <3>1 DEF Undisturbed, Knows, At
    <3> QED
      BY <1>3, <2>1, <3>1, <3>2 DEF Sound, Copies, WithUser, Labels, Logins
  <2>3. users'[u] = IF u = a THEN r ELSE users[u]
    BY <1>3, <1>5, <1>7, <2>2 DEF LoginRefresh
  <2>4. PICK s : s = users[a]
    OBVIOUS
  <2>5. s \in UserRow /\ r = AddIds(s, LoginIds, d)
    BY <1>0, <2>2, <2>4, IdsOf
  <2>6. KeepsTheRest(s, r, FALSE)
    BY <2>2, <2>5, AddIdsIs DEF KeepsTheRest
  <2> QED
    BY <2>3, <2>4, <2>6 DEF KeepsTheRest
<1>8. CASE ResetSave(p)
  <2>1. /\ users'[u].phone = users[u].phone /\ users'[u].name = users[u].name
        /\ users'[u].ids = users[u].ids
    BY <1>8, ResetIs
  <2>2. At(p, "reset")
    BY <1>8 DEF ResetSave
  <2> QED
    BY <2>1, <2>2 DEF KeepsTheRest
<1>9. \/ users' = users \/ CreateAccount(p) \/ LoginCreate(p) \/ UpdateSaveUser(p)
      \/ LoginRefresh(p) \/ ResetSave(p)
  BY <1>1, BeginsIdle DEF Acts, ContinueMember, ResetPassword, LoginOrCreate, CreateFindBond,
     CreateCheckName, CreateMembership, UpdateLoad, UpdateSaveBond, RemoveCount, RemoveDelete,
     Reset, Login, LoginSession, Fail
<1> QED
  BY <1>2, <1>4, <1>6, <1>7, <1>8, <1>9

\* A request that overlaps no other changes of an account only what it is
\* about, although it saves a copy of the row that it read in another
\* statement (UpdateMember, LoginOrCreate).
THEOREM TheRestIsKept == Spec => SavesKeepTheRest
<1>1. ASSUME IInv, Undisturbed, [Next]_vars, NEW p \in Procs, Alone(p), NEW u \in DOMAIN users
      PROVE  KeepsTheRest(users[u], users'[u], At(p, "reset"))
  <2>1. CASE users' = users
    BY <2>1 DEF KeepsTheRest
  <2>2. ASSUME NEW q \in Procs \ {p}, Acts(q) PROVE users' = users
    BY <1>1, <2>2, OthersActs
  <2>3. CASE Acts(p)
    BY <1>1, <2>3, SavedKeepsTheRest
  <2>4. CASE UNCHANGED vars
    BY <2>1, <2>4 DEF vars
  <2> QED
    BY <1>1, <2>1, <2>2, <2>3, <2>4, NextIs
<1>2. ASSUME IInv, Undisturbed, [Next]_vars, NEW p \in Procs, ~At(p, "idle"), proc[p].alone,
             NEW u \in DOMAIN users
      PROVE  LET old == users[u]
                 new == users'[u] IN
             /\ new.phone = old.phone /\ new.name = old.name
             /\ old.ids \subseteq new.ids
             /\ new.password = old.password \/ At(p, "reset")
  BY <1>1, <1>2 DEF Alone, KeepsTheRest
<1>3. IInv /\ Undisturbed /\ [Next]_vars =>
        [\A p \in Procs : ~At(p, "idle") /\ proc[p].alone /\ proc'[p] # proc[p] =>
            \A u \in DOMAIN users :
               LET old == users[u]
                   new == users'[u] IN
               /\ new.phone = old.phone /\ new.name = old.name
               /\ old.ids \subseteq new.ids
               /\ new.password = old.password \/ At(p, "reset")]_vars
  BY <1>2
<1> QED
  BY <1>3, UndisturbedAlways, PTL DEF Spec, SavesKeepTheRest

-----------------------------------------------------------------------------
(***************************************************************************)
(* What nobody can take from a person: the account of their last           *)
(* undisturbed login is the first with an id of theirs, and so it will be  *)
(* when the copies that are in flight have been saved.                     *)
(***************************************************************************)
Spares(p, d, a) ==
    proc[p].pc \in Copies =>
       /\ proc[p].user = a => Same(proc[p].row, d)
       /\ Same(proc[p].row, d) => a <= proc[p].user

Known ==
    \A d \in People : account[d] # 0 =>
       LedTo(d, account[d]) /\ \A p \in Procs : Spares(p, d, account[d])

LEMMA OnlyFirst ==
    ASSUME TablesOK, NEW d, NEW a, NEW b, LedTo(d, a), LedTo(d, b)
    PROVE  a = b
<1>1. a \in Nat /\ b \in Nat
  BY IdsOf DEF LedTo
<1>2. a <= b /\ b <= a
  BY DEF LedTo
<1> QED
  BY <1>1, <1>2

LEMMA LedToAlike ==
    ASSUME NEW d, NEW a, LedTo(d, a), DOMAIN users' = DOMAIN users,
           \A u \in DOMAIN users : users'[u].ids = users[u].ids
    PROVE  LedTo(d, a)'
BY DEF LedTo, Same

LEMMA LedToAppended ==
    ASSUME TablesOK, NEW d, NEW a, LedTo(d, a), NEW r, WellRow(r), CreateUser(r),
           UNCHANGED <<bonds, account>>
    PROVE  LedTo(d, a)'
<1>1. PICK n : n = Len(users) + 1
  OBVIOUS
<1>2. PICK t : t = users'
  OBVIOUS
<1>3. /\ DOMAIN t = DOMAIN users \cup {n} /\ n \in Nat
      /\ \A u \in DOMAIN users : t[u] = users[u] /\ u < n
  BY <1>1, <1>2, AccountAdded
<1>4. a \in DOMAIN users /\ a \in Nat /\ a < n
  BY <1>3, IdsOf DEF LedTo
<1>5. \A u \in DOMAIN t : Same(t[u], d) => a <= u
  BY <1>3, <1>4 DEF LedTo
<1> QED
  BY <1>2, <1>3, <1>4, <1>5 DEF LedTo

LEMMA LedToSaved ==
    ASSUME TablesOK, NEW d, NEW a, LedTo(d, a), NEW u \in DOMAIN users, NEW r, WellRow(r),
           UpdateUser(u, r), UNCHANGED <<bonds, account>>,
           u = a => Same(r, d), Same(r, d) => a <= u
    PROVE  LedTo(d, a)'
<1>1. users' = [users EXCEPT ![u] = r]
  BY DEF UpdateUser, Saved
<1>2. /\ DOMAIN users' = DOMAIN users /\ users'[u] = r
      /\ \A v \in DOMAIN users : v # u => users'[v] = users[v]
  BY <1>1, AccountSaved
<1> QED
  BY <1>2, LedToStays

\* Whatever p does, the account stays theirs.
LEMMA ActsLedTo ==
    ASSUME IInv, NEW p \in Procs, Acts(p), NEW d \in People, NEW a, LedTo(d, a), Spares(p, d, a)
    PROVE  LedTo(d, a)'
<1>0. TablesOK /\ LocalsOK
  BY DEF IInv
<1>1. CASE users' = users
  BY <1>1, LedToAlike
<1>2. CASE At(p, "idle")
  BY <1>1, <1>2, IdleActs
<1>3. PICK r, u : r = proc[p].row /\ u = proc[p].user
  OBVIOUS
<1>4. CASE CreateAccount(p) \/ LoginCreate(p)
  <2>1. WellRow(r)
    <3>1. ~At(p, "idle") /\ proc[p].pc \in {"account", "newcomer"}
      BY <1>4 DEF CreateAccount, LoginCreate, At
    <3> QED
      BY <1>0, <1>3, <3>1, AtWork DEF Sound
  <2> QED
    BY <1>0, <1>3, <1>4, <2>1, LedToAppended DEF CreateAccount, LoginCreate
<1>5. CASE (UpdateSaveUser(p) \/ LoginRefresh(p)) /\ users' # users
  <2>1. ~At(p, "idle") /\ proc[p].pc \in Copies
    BY <1>5 DEF UpdateSaveUser, LoginRefresh, At, Copies
  <2>2. Sound(proc[p])
    BY <1>0, <2>1, AtWork
  <2>3. WellRow(r) /\ u \in DOMAIN users
    BY <1>3, <2>1, <2>2 DEF Sound, Copies, WithUser, Labels, Logins, Memberships
  <2>4. (u = a => Same(r, d)) /\ (Same(r, d) => a <= u)
    BY <1>3, <2>1 DEF Spares
  <2>5. UpdateUser(u, r) /\ UNCHANGED <<bonds, account>>
    BY <1>3, <1>5 DEF UpdateSaveUser, LoginRefresh
  <2> QED
    BY <1>0, <2>3, <2>4, <2>5, LedToSaved
<1>6. CASE ResetSave(p)
  BY <1>6, ResetIs, LedToAlike
<1>7. \/ users' = users \/ CreateAccount(p) \/ LoginCreate(p) \/ UpdateSaveUser(p)
      \/ LoginRefresh(p) \/ ResetSave(p) \/ At(p, "idle")
  BY BeginsIdle DEF Acts, ContinueMember, ResetPassword, LoginOrCreate, CreateFindBond,
     CreateCheckName, CreateMembership, UpdateLoad, UpdateSaveBond, RemoveCount, RemoveDelete,
     Reset, Login, LoginSession, Fail
<1> QED
  BY <1>1, <1>2, <1>4, <1>5, <1>6, <1>7

\* A copy that is read is the person's if the account is, and then only.
LEMMA LoadSpares ==
    ASSUME IInv, NEW p \in Procs, UpdateLoad(p), NEW d \in People, NEW a, LedTo(d, a)
    PROVE  Spares(p, d, a)'
<1>1. PICK v : v = proc'[p]
  OBVIOUS
<1>2. v.user \in DOMAIN users /\ v.row = users[v.user]
  BY <1>1, Loads
<1>3. (v.user = a => Same(v.row, d)) /\ (Same(v.row, d) => a <= v.user)
  BY <1>2 DEF LedTo
<1> QED
  BY <1>1, <1>3 DEF Spares

LEMMA LoginSpares ==
    ASSUME IInv, NEW p \in Procs, NEW e \in People, Login(p, e),
           NEW d \in People, NEW a, LedTo(d, a)
    PROVE  Spares(p, d, a)'
<1>0. TablesOK
  BY DEF IInv
<1>1. PICK v : v = proc'[p]
  OBVIOUS
<1>2. \/ v.pc = "newcomer"
      \/ LedTo(e, v.user) /\ v.row = AddIds(users[v.user], LoginIds, e)
  BY <1>1, LoginIs
<1>3. CASE v.pc = "newcomer"
  BY <1>1, <1>3 DEF Spares, Copies
<1>4. CASE LedTo(e, v.user) /\ v.row = AddIds(users[v.user], LoginIds, e)
  <2>1. PICK s, r, u : s = users[v.user] /\ r = v.row /\ u = v.user
    OBVIOUS
  <2>2. s \in UserRow /\ u \in DOMAIN users /\ u \in Nat
    BY <1>0, <1>4, <2>1, IdsOf DEF LedTo
  <2>3. s.ids \subseteq r.ids /\ r.ids \subseteq s.ids \cup LoginIdsOf(e)
    BY <1>4, <2>1, <2>2, AddIdsIs
  <2>4. u = a => Same(r, d)
    BY <2>1, <2>3 DEF LedTo, Same
  <2>5. ASSUME Same(r, d) PROVE a <= u
    <3>1. CASE d = e
      <4>1. a = u
        BY <1>0, <1>4, <2>1, <3>1, OnlyFirst
      <4> QED
        BY <2>2, <4>1
    <3>2. CASE d # e
      <4>1. LoginIdsOf(e) \cap LoginIdsOf(d) = {}
        BY <3>2 DEF LoginIdsOf
      <4>2. Same(s, d)
        BY <2>3, <2>5, <4>1 DEF Same
      <4> QED
        BY <2>1, <2>2, <4>2 DEF LedTo
    <3> QED
      BY <3>1, <3>2
  <2> QED
    BY <1>1, <2>1, <2>4, <2>5 DEF Spares
<1> QED
  BY <1>2, <1>3, <1>4

LEMMA SparesNothing ==
    ASSUME NEW p, proc'[p].pc \notin Copies, NEW d, NEW a
    PROVE  Spares(p, d, a)'
BY DEF Spares

LEMMA ActsSpares ==
    ASSUME IInv, NEW p \in Procs, Acts(p), NEW d \in People, NEW a, LedTo(d, a)
    PROVE  Spares(p, d, a)'
<1>0. LocalsOK
  BY DEF IInv
<1>1. /\ \A l \in {"bond", "account", "saveBond", "delete", "session"} : l \in Labels \ Copies
      /\ \A l \in {"idle", "name", "member", "profile", "count", "reset"} : l \notin Copies
  BY DEF Labels, Memberships, Logins, Copies
<1>2. ASSUME NEW l \in {"bond", "account", "saveBond", "delete", "session"},
             ~At(p, "idle"), Goes(p, l) \/ \E n \in Nat : GoesWith(p, l, n)
      PROVE  proc'[p].pc \notin Copies
  BY <1>0, <1>1, <1>2, GoesIs, GoesWithIs
<1>3. ASSUME ~At(p, "idle"), Ends(p) PROVE proc'[p].pc \notin Copies
  BY <1>0, <1>1, <1>3, EndsIs DEF At
<1>4. CASE Begins(p)
  BY <1>1, <1>4, BeginsKeeps, SparesNothing
<1>5. CASE CreateFindBond(p) \/ CreateCheckName(p) \/ UpdateSaveUser(p) \/ RemoveCount(p)
  BY <1>2, <1>3, <1>5, SparesNothing
  DEF CreateFindBond, CreateCheckName, UpdateSaveUser, RemoveCount, At
<1>6. CASE CreateAccount(p) \/ LoginCreate(p)
  <2>1. Len(users) + 1 \in Nat
    BY IdsOf DEF IInv
  <2> QED
    BY <1>2, <1>6, <2>1, SparesNothing DEF CreateAccount, LoginCreate, At
<1>7. CASE LoginRefresh(p)
  BY <1>2, <1>7, SparesNothing DEF LoginRefresh, At
<1>8. CASE CreateMembership(p) \/ UpdateSaveBond(p) \/ RemoveDelete(p) \/ ResetSave(p)
           \/ LoginSession(p) \/ Fail(p)
  BY <1>3, <1>8, SparesNothing
  DEF CreateMembership, UpdateSaveBond, RemoveDelete, ResetSave, LoginSession, Fail, At
<1>9. CASE UpdateLoad(p)
  BY <1>9, LoadSpares
<1>10. ASSUME NEW u \in DOMAIN users, NEW pw \in Passwords, Reset(p, u, pw)
       PROVE  Spares(p, d, a)'
  BY <1>1, <1>10, ResetKeeps, SparesNothing
<1>11. ASSUME NEW e \in People, Login(p, e)
       PROVE  Spares(p, d, a)'
  BY <1>11, LoginSpares
<1> QED
  BY <1>4, <1>5, <1>6, <1>7, <1>8, <1>9, <1>10, <1>11
  DEF Acts, ContinueMember, ResetPassword, LoginOrCreate

\* What is remembered is what an undisturbed login was led to.
LEMMA AccountSet ==
    ASSUME IInv, Undisturbed, NEW p \in Procs, Acts(p), NEW d \in People,
           account'[d] # account[d]
    PROVE  /\ LoginSession(p) /\ Alone(p)
           /\ proc[p].ask = d /\ account'[d] = proc[p].user
           /\ LedTo(d, proc[p].user)
<1>1. CASE LoginSession(p)
  <2>1. PICK e, u : e = proc[p].ask /\ u = proc[p].user
    OBVIOUS
  <2>2. Alone(p) /\ account' = [account EXCEPT ![e] = u]
    BY <1>1, <2>1 DEF LoginSession, Alone, At
  <2>3. account \in [People -> Nat]
    BY DEF IInv, TablesOK
  <2>4. e = d /\ account'[d] = u
    BY <2>2, <2>3
  <2>5. LedTo(e, u)
    BY <1>1, <2>1, <2>2 DEF Undisturbed, Knows, LoginSession, At
  <2> QED
    BY <1>1, <2>1, <2>2, <2>4, <2>5
<1>2. CASE ~LoginSession(p)
  <2>1. account' = account
    <3>1. CASE At(p, "idle")
      BY <3>1, IdleActs
    <3>2. CASE ~At(p, "idle")
      BY <1>2, <3>2, BeginsIdle DEF Acts, ContinueMember, ResetPassword, LoginOrCreate,
      CreateFindBond, CreateCheckName, CreateAccount, CreateMembership, UpdateLoad,
      UpdateSaveUser, UpdateSaveBond, RemoveCount, RemoveDelete, Reset, ResetSave,
      Login, LoginCreate, LoginRefresh, Fail
    <3> QED
      BY <3>1, <3>2
  <2> QED
    BY <2>1
<1> QED
  BY <1>1, <1>2

LEMMA KnownActs ==
    ASSUME IInv, Undisturbed, Known, NEW p \in Procs, Acts(p), NEW d \in People
    PROVE  /\ account[d] # 0 => account'[d] = account[d]
           /\ account'[d] # 0 => /\ LedTo(d, account[d])'
                                 /\ \A q \in Procs : Spares(q, d, account[d])'
<1>0. TablesOK /\ LocalsOK
  BY DEF IInv
<1>1. PICK a, b : a = account[d] /\ b = account'[d]
  OBVIOUS
<1>2. a # 0 => LedTo(d, a) /\ \A q \in Procs : Spares(q, d, a)
  BY <1>1 DEF Known
<1>3. a # 0 => b = a
  BY <1>0, <1>1, <1>2, AccountSet, OnlyFirst
<1>4. CASE a # 0
  <2>1. LedTo(d, a)' /\ Spares(p, d, a)'
    BY <1>2, <1>4, ActsLedTo, ActsSpares
  <2>2. ASSUME NEW q \in Procs \ {p} PROVE Spares(q, d, a)'
    <3>1. Kept(q)
      BY ActsKeeps DEF Step, Turn
    <3>2. CASE At(q, "idle")
      <4>1. proc'[q].pc = "idle"
        BY <1>0, <3>1, <3>2, KeptIs DEF At
      <4> QED
        BY <4>1 DEF Spares, Copies
    <3>3. CASE ~At(q, "idle")
      <4>1. proc'[q].pc = proc[q].pc /\ proc'[q].row = proc[q].row /\ proc'[q].user = proc[q].user
        BY <1>0, <3>1, <3>3, KeptIs
      <4>2. Spares(q, d, a)
        BY <1>2, <1>4
      <4> QED
        BY <4>1, <4>2 DEF Spares
    <3> QED
      BY <3>2, <3>3
  <2>3. LedTo(d, b)' /\ \A q \in Procs : Spares(q, d, b)'
    BY <1>3, <1>4, <2>1, <2>2
  <2> QED
    BY <1>1, <1>3, <2>3
<1>5. CASE a = 0 /\ b # 0
  <2>1. LoginSession(p) /\ Alone(p) /\ LedTo(d, b)
    BY <1>1, <1>5, AccountSet
  <2>2. LedTo(d, b)'
    BY <2>1, LedToAlike DEF LoginSession
  <2>3. proc'[p].pc = "idle"
    BY <1>0, <2>1, EndsIs DEF LoginSession, At
  <2>4. ASSUME NEW q \in Procs \ {p} PROVE proc'[q].pc = "idle"
    <3>1. At(q, "idle")
      BY <2>1 DEF Undisturbed, Solo
    <3>2. Kept(q)
      BY ActsKeeps DEF Step, Turn
    <3> QED
      BY <1>0, <3>1, <3>2, KeptIs DEF At
  <2>5. \A q \in Procs : Spares(q, d, b)'
    BY <2>3, <2>4 DEF Spares, Copies
  <2> QED
    BY <1>1, <1>5, <2>2, <2>5
<1> QED
  BY <1>1, <1>4, <1>5

LEMMA KnownStays ==
    ASSUME IInv, Undisturbed, Known, [Next]_vars
    PROVE  Known' /\ \A d \in People : account[d] # 0 => account'[d] = account[d]
<1>1. ASSUME NEW p \in Procs, Acts(p)
      PROVE  Known' /\ \A d \in People : account[d] # 0 => account'[d] = account[d]
  <2>1. \A d \in People : account'[d] # 0 =>
           LedTo(d, account[d])' /\ \A q \in Procs : Spares(q, d, account[d])'
    BY <1>1, KnownActs
  <2>2. Known'
    BY <2>1 DEF Known
  <2> QED
    BY <1>1, <2>2, KnownActs
<1>2. CASE UNCHANGED vars
  BY <1>2 DEF Known, LedTo, Spares, vars
<1> QED
  BY <1>1, <1>2, NextIs

\* Once an undisturbed DingTalk login has led a person to an account, every
\* later undisturbed one leads to the same, whatever is saved, reset, added
\* or synchronized meanwhile (findDingTalkUser, LoginOrCreate).
THEOREM SamePersonAlways == Spec => SamePersonSameAccount
<1>1. Init => IInv /\ Undisturbed /\ Known
  <2>1. Init => Known
    BY DEF Init, Known
  <2> QED
    BY <2>1, InitHolds, UndisturbedInit
<1>2. IInv /\ Undisturbed /\ Known /\ [Next]_vars => (IInv /\ Undisturbed /\ Known)'
  BY NextKeeps, UndisturbedStays, KnownStays
<1>3. IInv /\ Undisturbed /\ Known /\ [Next]_vars =>
         [\A d \in People : account[d] # 0 => account'[d] = account[d]]_vars
  BY KnownStays
<1> QED
  BY <1>1, <1>2, <1>3, PTL DEF Spec, SamePersonSameAccount
=============================================================================
