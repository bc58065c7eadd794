---------------------------- MODULE SharingProofs ----------------------------
(***************************************************************************)
(* A proof that administrators are where their application is distributed, *)
(* that tables are described, and that rows are touched by requests for    *)
(* the organization whose they are: for any number of goroutines,          *)
(* applications, organizations, users, tables and rows.                    *)
(*                                                                         *)
(* What makes the first inductive is what a request that is alone may rely *)
(* on (Undisturbed): nothing else is in flight, the distribution it has    *)
(* read is still there, and its list names every administrator that is     *)
(* left.  The second needs what such a request knows of its table          *)
(* (Careful), see below.                                                   *)
(***************************************************************************)
EXTENDS SharingInvariants, FiniteSetTheorems, TLAPS

SharingLabels == {"saveOrg", "distribute", "listAdmins", "dismiss", "member", "appoint"}
Operations == {"drop", "insert", "update", "delete", "addColumn"}
DataLabels == Operations \cup {"describe", "undo", "authorize", "metadata", "forget"}

\* The records of Work; what the data service keeps in one is of no matter here.
RequestLike(w) ==
    [pc : SharingLabels \cup DataLabels, app : Apps \cup {Nothing}, org : Orgs,
     users : SUBSET Users, table : Tables \cup {Nothing}, cols : {w.cols},
     then : {w.then}, row : {w.row}, more : {w.more}, alone : BOOLEAN]

LocalOK(w) ==
    /\ w \in RequestLike(w)
    /\ w.pc \in SharingLabels => w.table = Nothing
    /\ w.pc \in SharingLabels \ {"saveOrg"} => w.app \in Apps
    /\ w.pc \in {"authorize", "metadata"} => w.then \in Operations

Undisturbed(p) ==
    ~At(p, "idle") /\ proc[p].alone =>
       /\ \A q \in Procs \ {p} : At(q, "idle")
       /\ proc[p].pc \in {"member", "appoint"} => Pair(p) \in dists
       /\ At(p, "dismiss") => AdminsOf(proc[p].app, proc[p].org) \subseteq proc[p].users

TablesOK ==
    /\ dists \subseteq Apps \X Orgs
    /\ admins \subseteq Apps \X Orgs \X Users

LocalsOK ==
    /\ proc = [p \in Procs |-> proc[p]]
    /\ \A p \in Procs : proc[p] = Idle \/ LocalOK(proc[p])

IInv == TablesOK /\ LocalsOK /\ (\A p \in Procs : Undisturbed(p)) /\ AdminsWhereDistributed

-----------------------------------------------------------------------------
(***************************************************************************)
(* Goroutines.                                                             *)
(***************************************************************************)
LEMMA IdleOrNot ==
    ASSUME NEW w
    PROVE  /\ w = Idle => w.pc = "idle" /\ ~LocalOK(w)
           /\ LocalOK(w) => w.pc # "idle"
<1>1. "idle" \notin SharingLabels \cup DataLabels
  BY DEF SharingLabels, DataLabels, Operations
<1>2. Idle.pc = "idle"
  BY DEF Idle
<1> QED
  BY <1>1, <1>2 DEF LocalOK, RequestLike

\* What another request, or a change from elsewhere, does to those in flight.
LEMMA Disturbs ==
    ASSUME LocalsOK, NEW q \in Procs
    PROVE  /\ proc[q] = Idle => Disturbed(q) = Idle
           /\ LocalOK(proc[q]) =>
                 /\ LocalOK(Disturbed(q))
                 /\ Disturbed(q).pc = proc[q].pc
                 /\ Disturbed(q).app = proc[q].app
                 /\ Disturbed(q).org = proc[q].org
                 /\ ~Disturbed(q).alone
<1>1. proc[q] = Idle => Disturbed(q) = Idle
  BY IdleOrNot DEF Disturbed, At
<1>2. ASSUME LocalOK(proc[q])
      PROVE  /\ LocalOK(Disturbed(q))
             /\ Disturbed(q).pc = proc[q].pc
             /\ Disturbed(q).app = proc[q].app
             /\ Disturbed(q).org = proc[q].org
             /\ ~Disturbed(q).alone
  <2> DEFINE w == proc[q]
             v == [w EXCEPT !.alone = FALSE]
  <2>1. Disturbed(q) = v
    BY <1>2, IdleOrNot DEF Disturbed, At
  <2>2. LocalOK(w)
    BY <1>2
  <2> HIDE DEF w
  <2>3. LocalOK(v) /\ v.pc = w.pc /\ v.app = w.app /\ v.org = w.org /\ ~v.alone
    BY <2>2 DEF LocalOK, RequestLike
  <2> QED
    BY <2>1, <2>3 DEF w
<1> QED
  BY <1>1, <1>2

\* A request goes on, with its list or without.
LEMMA Relabelled ==
    ASSUME NEW w, LocalOK(w), NEW label \in SharingLabels \cup DataLabels,
           NEW v, v = [w EXCEPT !.pc = label],
           label \in SharingLabels => w.table = Nothing /\ w.app \in Apps,
           label \in {"authorize", "metadata"} => w.then \in Operations
    PROVE  /\ LocalOK(v) /\ v.pc = label /\ v.app = w.app /\ v.org = w.org
           /\ v.users = w.users /\ v.alone = w.alone
BY DEF LocalOK, RequestLike

LEMMA Shortened ==
    ASSUME NEW w, LocalOK(w), w.table = Nothing, w.pc = "dismiss", NEW who \in SUBSET Users,
           NEW v, v = [w EXCEPT !.users = who]
    PROVE  /\ LocalOK(v) /\ v.pc = "dismiss" /\ v.app = w.app /\ v.org = w.org
           /\ v.users = who /\ v.alone = w.alone
BY DEF LocalOK, RequestLike

LEMMA MoreToDo ==
    ASSUME NEW w, LocalOK(w), w.pc \notin SharingLabels \cup {"authorize", "metadata"}, NEW n,
           NEW v, v = [w EXCEPT !.more = n]
    PROVE  LocalOK(v) /\ v.pc = w.pc /\ v.app = w.app /\ v.org = w.org /\ v.alone = w.alone
BY DEF LocalOK, RequestLike

LEMMA NewWork ==
    ASSUME NEW label \in SharingLabels, NEW a \in Apps \cup {Nothing}, NEW o \in Orgs,
           NEW who \in SUBSET Users, label # "saveOrg" => a \in Apps
    PROVE  LET w == Work(label, a, o, who) IN
           /\ LocalOK(w) /\ w.pc = label /\ w.app = a /\ w.org = o /\ w.users = who
           /\ w.alone => Busy = {}
<1> DEFINE w == Work(label, a, o, who)
<1>1. /\ w.pc = label /\ w.app = a /\ w.org = o /\ w.users = who /\ w.table = Nothing
      /\ w.alone = (Busy = {})
  BY DEF Work
<1>2. w \in RequestLike(w)
  BY DEF Work, RequestLike
<1>3. label \notin {"authorize", "metadata"}
  BY DEF SharingLabels
<1> QED
  BY <1>1, <1>2, <1>3 DEF LocalOK

\* Whom a step does not move keeps what it is about.
Stays(q) ==
    /\ proc'[q].pc = proc[q].pc
    /\ ~At(q, "idle") => proc'[q].app = proc[q].app /\ proc'[q].org = proc[q].org

LEMMA AllDisturbed ==
    ASSUME LocalsOK, proc' = [q \in Procs |-> Disturbed(q)]
    PROVE  LocalsOK' /\ \A q \in Procs : Stays(q) /\ Undisturbed(q)'
<1>1. \A q \in Procs : proc'[q] = Disturbed(q)
  OBVIOUS
<1>2. \A q \in Procs : proc[q] = Idle => proc'[q] = Idle
  BY <1>1, Disturbs
<1>3. \A q \in Procs : LocalOK(proc[q]) =>
         LocalOK(proc'[q]) /\ Stays(q) /\ ~proc'[q].alone
  BY <1>1, Disturbs DEF Stays
<1>4. \A q \in Procs : proc[q] = Idle \/ LocalOK(proc[q])
  BY DEF LocalsOK
<1>5. \A q \in Procs : Stays(q) /\ Undisturbed(q)'
  <2> TAKE q \in Procs
  <2>1. CASE proc[q] = Idle
    BY <1>2, <2>1, IdleOrNot DEF Stays, Undisturbed, At
  <2>2. CASE LocalOK(proc[q])
    BY <1>3, <2>2 DEF Undisturbed
  <2> QED
    BY <1>4, <2>1, <2>2
<1>6. LocalsOK'
  <2>1. proc' = [q \in Procs |-> proc'[q]]
    OBVIOUS
  <2>2. \A q \in Procs : proc'[q] = Idle \/ LocalOK(proc'[q])
    BY <1>2, <1>3, <1>4
  <2> QED
    BY <2>1, <2>2 DEF LocalsOK
<1> QED
  BY <1>5, <1>6

LEMMA OneStarts ==
    ASSUME LocalsOK, NEW p \in Procs, At(p, "idle"), NEW w, LocalOK(w),
           proc' = [q \in Procs |-> IF q = p THEN w ELSE Disturbed(q)],
           w.alone => Busy = {},
           w.pc \in {"member", "appoint"} => <<w.app, w.org>> \in dists',
           w.pc # "dismiss"
    PROVE  /\ LocalsOK' /\ proc'[p] = w
           /\ \A q \in Procs \ {p} : Stays(q)
           /\ \A q \in Procs : Undisturbed(q)'
<1>0. proc'[p] = w
  OBVIOUS
<1>1. \A q \in Procs \ {p} : proc'[q] = Disturbed(q)
  OBVIOUS
<1>2. \A q \in Procs \ {p} : proc[q] = Idle => proc'[q] = Idle
  BY <1>1, Disturbs
<1>3. \A q \in Procs \ {p} : LocalOK(proc[q]) =>
         LocalOK(proc'[q]) /\ Stays(q) /\ ~proc'[q].alone
  BY <1>1, Disturbs DEF Stays
<1>4. \A q \in Procs : proc[q] = Idle \/ LocalOK(proc[q])
  BY DEF LocalsOK
<1>5. \A q \in Procs \ {p} : Stays(q) /\ Undisturbed(q)'
  <2> TAKE q \in Procs \ {p}
  <2>1. CASE proc[q] = Idle
    BY <1>2, <2>1, IdleOrNot DEF Stays, Undisturbed, At
  <2>2. CASE LocalOK(proc[q])
    BY <1>3, <2>2 DEF Undisturbed
  <2> QED
    BY <1>4, <2>1, <2>2
<1>6. LocalsOK'
  <2>1. proc' = [q \in Procs |-> proc'[q]]
    OBVIOUS
  <2>2. \A q \in Procs : proc'[q] = Idle \/ LocalOK(proc'[q])
    BY <1>0, <1>2, <1>3, <1>4
  <2> QED
    BY <2>1, <2>2 DEF LocalsOK
<1>7. Undisturbed(p)'
  <2> SUFFICES ASSUME w.alone
               PROVE  Undisturbed(p)'
    BY <1>0 DEF Undisturbed
  <2>1. \A q \in Procs : At(q, "idle")
    BY DEF Busy
  <2>2. \A q \in Procs \ {p} : At(q, "idle")'
    BY <2>1, <1>5 DEF At, Stays
  <2> QED
    BY <1>0, <2>2 DEF Undisturbed, At, Pair
<1> QED
  BY <1>0, <1>5, <1>6, <1>7

\* A goroutine that goes on or ends: if it is alone, the others are idle.
LEMMA OneMoves ==
    ASSUME LocalsOK, \A q \in Procs : Undisturbed(q),
           NEW p \in Procs, ~At(p, "idle"), NEW w, w = Idle \/ LocalOK(w),
           proc' = [proc EXCEPT ![p] = w],
           LocalOK(w) /\ w.alone =>
              /\ proc[p].alone
              /\ w.pc \in {"member", "appoint"} => <<w.app, w.org>> \in dists'
              /\ w.pc = "dismiss" => AdminsOf(w.app, w.org)' \subseteq w.users
    PROVE  /\ LocalsOK' /\ proc'[p] = w
           /\ \A q \in Procs \ {p} : Stays(q)
           /\ \A q \in Procs : Undisturbed(q)'
<1>1. proc'[p] = w /\ \A q \in Procs \ {p} : proc'[q] = proc[q]
  BY DEF LocalsOK
<1>2. LocalsOK'
  <2>1. proc' = [q \in Procs |-> proc'[q]]
    BY DEF LocalsOK
  <2>2. \A q \in Procs : proc'[q] = Idle \/ LocalOK(proc'[q])
    BY <1>1 DEF LocalsOK
  <2> QED
    BY <2>1, <2>2 DEF LocalsOK
<1>3. \A q \in Procs \ {p} : Stays(q)
  BY <1>1 DEF Stays
<1>4. ASSUME NEW q \in Procs \ {p}
      PROVE  Undisturbed(q)'
  <2>1. ~At(q, "idle") => ~proc[q].alone
    BY DEF Undisturbed
  <2> QED
    BY <1>1, <2>1 DEF Undisturbed, At
<1>5. Undisturbed(p)'
  <2> SUFFICES ASSUME w.pc # "idle", w.alone
               PROVE  Undisturbed(p)'
    BY <1>1 DEF Undisturbed, At
  <2>1. LocalOK(w)
    BY IdleOrNot
  <2>2. \A q \in Procs \ {p} : At(q, "idle")
    BY <2>1 DEF Undisturbed
  <2>3. \A q \in Procs \ {p} : At(q, "idle")'
    BY <1>1, <2>2 DEF At
  <2>4. w.pc = "dismiss" => AdminsOf(w.app, w.org)' \subseteq w.users
    BY <2>1
  <2>5. /\ Pair(p)' = <<w.app, w.org>>
        /\ AdminsOf(proc[p].app, proc[p].org)' = AdminsOf(w.app, w.org)'
    BY <1>1 DEF Pair, AdminsOf
  <2> QED
    BY <1>1, <2>1, <2>3, <2>4, <2>5 DEF Undisturbed, At
<1> QED
  BY <1>1, <1>2, <1>3, <1>4, <1>5

-----------------------------------------------------------------------------
(***************************************************************************)
(* AdminsWhereDistributed, for one application and organization.           *)
(***************************************************************************)
Led(a, o) == \E u \in Users : <<a, o, u>> \in admins

Under(q, a, o) == proc[q].pc \in {"listAdmins", "dismiss"} /\ Pair(q) = <<a, o>>

Fine(a, o) ==
    \/ a \in apps => <<a, o>> \in dists
    \/ <<a, o>> \in untidy
    \/ \E q \in Procs : Under(q, a, o)

AllFine == \A a, o : Led(a, o) => Fine(a, o)

LEMMA FineIsTidy == TablesOK => (AdminsWhereDistributed <=> AllFine)
<1> SUFFICES ASSUME TablesOK PROVE AdminsWhereDistributed <=> AllFine
  OBVIOUS
<1>1. \A d \in admins : d = <<d[1], d[2], d[3]>> /\ d[3] \in Users
  BY DEF TablesOK
<1>2. \A a, o : a \in apps => (a \in ListApps("tenant", o) <=> <<a, o>> \in dists)
  BY DEF ListApps
<1>3. ASSUME AdminsWhereDistributed, NEW a, NEW o, Led(a, o)
      PROVE  Fine(a, o)
  <2>1. PICK u \in Users : <<a, o, u>> \in admins
    BY <1>3 DEF Led
  <2>2. \/ a \in apps => a \in ListApps("tenant", o)
        \/ <<a, o>> \in untidy
        \/ \E q \in Procs : Under(q, a, o)
    BY <1>3, <2>1 DEF AdminsWhereDistributed, Under
  <2> QED
    BY <1>2, <2>2 DEF Fine
<1>4. ASSUME AllFine
      PROVE  AdminsWhereDistributed
  <2> SUFFICES ASSUME NEW d \in admins
               PROVE  \/ d[1] \in apps => d[1] \in ListApps("tenant", d[2])
                      \/ <<d[1], d[2]>> \in untidy
                      \/ \E q \in Procs : Under(q, d[1], d[2])
    BY DEF AdminsWhereDistributed, Under
  <2>1. Led(d[1], d[2])
    BY <1>1 DEF Led
  <2> QED
    BY <1>2, <1>4, <2>1 DEF AllFine, Fine
<1> QED
  BY <1>3, <1>4 DEF AllFine

LEMMA StaysUnder ==
    ASSUME NEW q \in Procs, Stays(q), NEW a, NEW o, Under(q, a, o)
    PROVE  Under(q, a, o)'
BY DEF Stays, Under, Pair, At

\* What was fine stays so, and what is new is fine.
LEMMA TidyKept ==
    ASSUME TablesOK, TablesOK', AdminsWhereDistributed,
           \A a, o : Led(a, o)' =>
              \/ Fine(a, o)'
              \/ /\ Led(a, o)
                 /\ (a \in apps => <<a, o>> \in dists) => (a \in apps' => <<a, o>> \in dists')
                 /\ <<a, o>> \in untidy => <<a, o>> \in untidy'
                 /\ \A q \in Procs : Under(q, a, o) => Under(q, a, o)'
    PROVE  AdminsWhereDistributed'
<1>1. ASSUME NEW a, NEW o, Led(a, o)'
      PROVE  Fine(a, o)'
  <2>1. CASE /\ Led(a, o)
             /\ (a \in apps => <<a, o>> \in dists) => (a \in apps' => <<a, o>> \in dists')
             /\ <<a, o>> \in untidy => <<a, o>> \in untidy'
             /\ \A q \in Procs : Under(q, a, o) => Under(q, a, o)'
    <3>1. Fine(a, o)
      BY <2>1, FineIsTidy DEF AllFine
    <3>2. CASE \E q \in Procs : Under(q, a, o)
      BY <2>1, <3>2 DEF Fine
    <3> QED
      BY <2>1, <3>1, <3>2 DEF Fine
  <2> QED
    BY <1>1, <2>1
<1>2. AllFine'
  BY <1>1 DEF AllFine
<1> QED
  BY <1>2, FineIsTidy, PTL

\* A change, or a request of one statement, that appoints nobody.
LEMMA AtOnceStep ==
    ASSUME IInv, AtOnce, admins' \subseteq admins, untidy' = untidy, TablesOK',
           apps' \subseteq apps,
           \A a, o : Led(a, o)' /\ <<a, o>> \in dists => <<a, o>> \in dists'
    PROVE  IInv'
<1>1. LocalsOK' /\ \A q \in Procs : Stays(q) /\ Undisturbed(q)'
  BY AllDisturbed DEF IInv, AtOnce
<1>2. \A a, o : Led(a, o)' => Led(a, o)
  BY DEF Led
<1>3. \A a, o : \A q \in Procs : Under(q, a, o) => Under(q, a, o)'
  BY <1>1, StaysUnder
<1>4. AdminsWhereDistributed'
  BY <1>2, <1>3, TidyKept DEF IInv
<1> QED
  BY <1>1, <1>4 DEF IInv

\* A request begins; only a withdrawal touches a table.
LEMMA StartStep ==
    ASSUME IInv, NEW p \in Procs, At(p, "idle"), NEW w, LocalOK(w), Starts(p, w),
           w.alone => Busy = {}, w.pc # "dismiss",
           w.pc \in {"member", "appoint"} => <<w.app, w.org>> \in dists',
           admins' = admins, untidy' = untidy, apps' = apps,
           \/ dists' = dists
           \/ w.pc = "listAdmins" /\ dists' = dists \ {<<w.app, w.org>>}
    PROVE  IInv'
<1>0. TablesOK /\ LocalsOK /\ AdminsWhereDistributed
  BY DEF IInv
<1>1. /\ LocalsOK' /\ proc'[p] = w
      /\ \A q \in Procs \ {p} : Stays(q)
      /\ \A q \in Procs : Undisturbed(q)'
  BY <1>0, OneStarts DEF Starts
<1>2. TablesOK'
  BY <1>0 DEF TablesOK
<1>3. ASSUME NEW a, NEW o, Led(a, o)'
      PROVE  \/ Fine(a, o)'
             \/ /\ Led(a, o)
                /\ (a \in apps => <<a, o>> \in dists) => (a \in apps' => <<a, o>> \in dists')
                /\ <<a, o>> \in untidy => <<a, o>> \in untidy'
                /\ \A q \in Procs : Under(q, a, o) => Under(q, a, o)'
  <2>1. Led(a, o)
    BY <1>3 DEF Led
  <2>2. ASSUME NEW q \in Procs, Under(q, a, o)
        PROVE  Under(q, a, o)'
    <3>1. q # p
      BY <2>2 DEF Under, At
    <3> QED
      BY <1>1, <2>2, <3>1, StaysUnder
  <2>3. CASE w.pc = "listAdmins" /\ <<w.app, w.org>> = <<a, o>>
    <3>1. Under(p, a, o)'
      BY <1>1, <2>3 DEF Under, Pair
    <3> QED
      BY <3>1 DEF Fine
  <2>4. CASE ~(w.pc = "listAdmins" /\ <<w.app, w.org>> = <<a, o>>)
    BY <2>1, <2>2, <2>4
  <2> QED
    BY <2>3, <2>4
<1>4. AdminsWhereDistributed'
  BY <1>0, <1>2, <1>3, TidyKept
<1> QED
  BY <1>1, <1>2, <1>4 DEF IInv

\* A goroutine goes on, or ends.
LEMMA MoveStep ==
    ASSUME IInv, NEW p \in Procs, ~At(p, "idle"), NEW w, w = Idle \/ LocalOK(w),
           proc' = [proc EXCEPT ![p] = w],
           LocalOK(w) /\ w.alone =>
              /\ proc[p].alone
              /\ w.pc \in {"member", "appoint"} => <<w.app, w.org>> \in dists'
              /\ w.pc = "dismiss" => AdminsOf(w.app, w.org)' \subseteq w.users,
           TablesOK',
           \A a, o : Led(a, o)' =>
              \/ Fine(a, o)'
              \/ /\ Led(a, o)
                 /\ (a \in apps => <<a, o>> \in dists) => (a \in apps' => <<a, o>> \in dists')
                 /\ <<a, o>> \in untidy => <<a, o>> \in untidy'
                 /\ Under(p, a, o) => Under(p, a, o)'
    PROVE  IInv'
<1>0. /\ TablesOK /\ LocalsOK /\ AdminsWhereDistributed
      /\ \A q \in Procs : Undisturbed(q)
  BY DEF IInv
<1>1. /\ LocalsOK' /\ proc'[p] = w
      /\ \A q \in Procs \ {p} : Stays(q)
      /\ \A q \in Procs : Undisturbed(q)'
  BY <1>0, OneMoves
<1>2. \A a, o : \A q \in Procs \ {p} : Under(q, a, o) => Under(q, a, o)'
  BY <1>1, StaysUnder
<1>3. AdminsWhereDistributed'
  BY <1>0, <1>2, TidyKept
<1> QED
  BY <1>1, <1>3 DEF IInv

\* ... without a change of what is shared.
LEMMA QuietStep ==
    ASSUME IInv, NEW p \in Procs, ~At(p, "idle"), NEW w, w = Idle \/ LocalOK(w),
           proc' = [proc EXCEPT ![p] = w],
           LocalOK(w) /\ w.alone =>
              /\ proc[p].alone
              /\ w.pc \in {"member", "appoint"} =>
                    /\ proc[p].pc \in {"member", "appoint"}
                    /\ w.app = proc[p].app /\ w.org = proc[p].org
              /\ w.pc # "dismiss",
           proc[p].pc \notin {"listAdmins", "dismiss"},
           apps' = apps, dists' = dists, admins' = admins, untidy' = untidy
    PROVE  IInv'
<1>1. TablesOK'
  BY DEF IInv, TablesOK
<1>2. LocalOK(w) /\ w.alone /\ w.pc \in {"member", "appoint"} => <<w.app, w.org>> \in dists'
  BY DEF IInv, Undisturbed, Pair, At
<1>3. \A a, o : Led(a, o)' => Led(a, o) /\ ~Under(p, a, o)
  BY DEF Led, Under
<1> QED
  BY <1>1, <1>2, <1>3, MoveStep

\* What LocalsOK says of a goroutine that is somewhere.
LEMMA Somewhere ==
    ASSUME IInv, NEW p \in Procs, ~At(p, "idle")
    PROVE  /\ LocalOK(proc[p])
           /\ proc = [q \in Procs |-> proc[q]]
           /\ proc[p].org \in Orgs /\ proc[p].users \subseteq Users
BY IdleOrNot DEF IInv, LocalsOK, At, LocalOK, RequestLike

-----------------------------------------------------------------------------
(***************************************************************************)
(* The actions of Sharing.                                                 *)
(***************************************************************************)
\* A deletion and what it takes with it: where an administrator's row is
\* left, its distribution is.
LEMMA CascadeStep ==
    ASSUME IInv, AtOnce, apps' \subseteq apps, untidy' = untidy, Cascades
    PROVE  IInv'
<1>0. TablesOK
  BY DEF IInv
<1>1. PICK A, L : A = apps' /\ L = LiveOrgs'
  OBVIOUS
<1>2. /\ dists' = IF keyed THEN {d \in dists : d[1] \in A /\ d[2] \in L} ELSE dists
      /\ admins' = IF keyed THEN {d \in admins : d[1] \in A /\ d[2] \in L} ELSE admins
  BY <1>1 DEF Cascades
<1>3. dists' \subseteq dists /\ admins' \subseteq admins
  BY <1>2
<1>4. TablesOK'
  BY <1>0, <1>3 DEF TablesOK
<1>5. \A a, o : Led(a, o)' /\ <<a, o>> \in dists => <<a, o>> \in dists'
  BY <1>2 DEF Led
<1> QED
  BY <1>3, <1>4, <1>5, AtOnceStep

LEMMA ChangeSteps ==
    ASSUME IInv,
           \/ \E o \in Orgs : CreateOrg(o) \/ DeleteOrg(o)
           \/ Around
           \/ \E a \in Apps, o \in Orgs, u \in Users : RemoveAppAdmin(a, o, u)
    PROVE  IInv'
<1>0. TablesOK
  BY DEF IInv
<1>1. CASE \E o \in Orgs : CreateOrg(o)
  <2>1. AtOnce /\ apps' = apps /\ dists' = dists /\ admins' = admins /\ untidy' = untidy
    BY <1>1 DEF CreateOrg
  <2> QED
    BY <1>0, <2>1, AtOnceStep DEF TablesOK
<1>2. CASE \E o \in Orgs : DeleteOrg(o)
  <2>1. PICK o \in Orgs : DeleteOrg(o)
    BY <1>2
  <2>2. AtOnce /\ apps' \subseteq apps /\ untidy' = untidy /\ Cascades
    BY <2>1 DEF DeleteOrg
  <2> QED
    BY <2>2, CascadeStep
<1>3. CASE \E a \in Apps : AppDeleted(a)
  <2>1. PICK a \in Apps : AppDeleted(a)
    BY <1>3
  <2>2. AtOnce /\ apps' \subseteq apps /\ untidy' = untidy /\ Cascades
    BY <2>1 DEF AppDeleted
  <2> QED
    BY <2>2, CascadeStep
<1>4. CASE \E o \in Orgs, u \in Users : MemberJoins(o, u) \/ MemberLeaves(o, u)
  <2>1. AtOnce /\ apps' = apps /\ dists' = dists /\ admins' = admins /\ untidy' = untidy
    BY <1>4 DEF MemberJoins, MemberLeaves
  <2> QED
    BY <1>0, <2>1, AtOnceStep DEF TablesOK
<1>5. CASE \E a \in Apps, o \in Orgs, u \in Users : RemoveAppAdmin(a, o, u)
  <2>1. /\ AtOnce /\ apps' = apps /\ dists' = dists /\ admins' \subseteq admins
        /\ untidy' = untidy
    BY <1>5 DEF RemoveAppAdmin
  <2> QED
    BY <1>0, <2>1, AtOnceStep DEF TablesOK
<1> QED
  BY <1>1, <1>2, <1>3, <1>4, <1>5 DEF Around

LEMMA UpdateOrgStep ==
    ASSUME IInv, NEW p \in Procs, NEW o \in Orgs, UpdateOrg(p, o)
    PROVE  IInv'
<1> DEFINE w == Work("saveOrg", Nothing, o, {})
<1>1. "saveOrg" \in SharingLabels
  BY DEF SharingLabels
<1>2. LocalOK(w) /\ w.pc = "saveOrg" /\ (w.alone => Busy = {})
  BY <1>1, NewWork
<1>3. /\ At(p, "idle") /\ Starts(p, w)
      /\ apps' = apps /\ dists' = dists /\ admins' = admins /\ untidy' = untidy
  BY DEF UpdateOrg, sharing
<1> HIDE DEF w
<1> QED
  BY <1>2, <1>3, StartStep

LEMMA RequestSteps ==
    ASSUME IInv, NEW p \in Procs, NEW a \in Apps, NEW o \in Orgs,
           \/ DistributeApp(p, a, o) \/ UndistributeApp(p, a, o)
           \/ \E u \in Users : SetAppAdmin(p, a, o, u)
    PROVE  IInv'
<1>1. {"distribute", "listAdmins", "member"} \subseteq SharingLabels
  BY DEF SharingLabels
<1>2. CASE DistributeApp(p, a, o)
  <2> DEFINE w == Work("distribute", a, o, {})
  <2>1. LocalOK(w) /\ w.pc = "distribute" /\ (w.alone => Busy = {})
    BY <1>1, NewWork
  <2>2. /\ At(p, "idle") /\ Starts(p, w)
        /\ apps' = apps /\ dists' = dists /\ admins' = admins /\ untidy' = untidy
    BY <1>2 DEF DistributeApp, sharing
  <2> HIDE DEF w
  <2> QED
    BY <2>1, <2>2, StartStep
<1>3. CASE UndistributeApp(p, a, o)
  <2> DEFINE w == Work("listAdmins", a, o, {})
  <2>1. /\ LocalOK(w) /\ w.pc = "listAdmins" /\ w.app = a /\ w.org = o
        /\ w.alone => Busy = {}
    BY <1>1, NewWork
  <2>2. /\ At(p, "idle") /\ Starts(p, w)
        /\ apps' = apps /\ dists' = dists \ {<<a, o>>} /\ admins' = admins /\ untidy' = untidy
    BY <1>3 DEF UndistributeApp
  <2> HIDE DEF w
  <2> QED
    BY <2>1, <2>2, StartStep
<1>4. CASE \E u \in Users : SetAppAdmin(p, a, o, u)
  <2>1. PICK u \in Users : SetAppAdmin(p, a, o, u)
    BY <1>4
  <2> DEFINE w == Work("member", a, o, {u})
  <2>2. /\ LocalOK(w) /\ w.pc = "member" /\ w.app = a /\ w.org = o
        /\ w.alone => Busy = {}
    BY <1>1, NewWork
  <2>3. /\ At(p, "idle") /\ Starts(p, w) /\ <<a, o>> \in dists
        /\ apps' = apps /\ dists' = dists /\ admins' = admins /\ untidy' = untidy
    BY <2>1 DEF SetAppAdmin, sharing
  <2> HIDE DEF w
  <2> QED
    BY <2>2, <2>3, StartStep
<1> QED
  BY <1>2, <1>3, <1>4

-----------------------------------------------------------------------------
\* What a request does next: nothing else is shared.
LEMMA PlainSteps ==
    ASSUME IInv, NEW p \in Procs, UpdateOrgSave(p) \/ SetAdminMember(p)
    PROVE  IInv'
<1>1. CASE UpdateOrgSave(p)
  <2>1. /\ ~At(p, "idle") /\ proc[p].pc \notin {"listAdmins", "dismiss"}
        /\ proc' = [proc EXCEPT ![p] = Idle]
        /\ apps' = apps /\ dists' = dists /\ admins' = admins /\ untidy' = untidy
    BY <1>1 DEF UpdateOrgSave, At, Ends
  <2>2. ~LocalOK(Idle)
    BY IdleOrNot
  <2> QED
    BY <2>1, <2>2, QuietStep
<1>2. CASE SetAdminMember(p)
  <2> DEFINE w == [proc[p] EXCEPT !.pc = "appoint"]
  <2>1. /\ ~At(p, "idle") /\ proc[p].pc = "member"
        /\ proc' = [proc EXCEPT ![p].pc = "appoint"]
        /\ apps' = apps /\ dists' = dists /\ admins' = admins /\ untidy' = untidy
    BY <1>2 DEF SetAdminMember, At, Continues, sharing
  <2>2. LocalOK(proc[p]) /\ proc = [q \in Procs |-> proc[q]]
    BY <2>1, Somewhere
  <2>3. "appoint" \in SharingLabels /\ "member" \in SharingLabels
    BY DEF SharingLabels
  <2>4. proc[p].table = Nothing /\ proc[p].app \in Apps
    BY <2>1, <2>2, <2>3 DEF LocalOK
  <2>5. proc' = [proc EXCEPT ![p] = w]
    BY Zenon, <2>1
  <2>6. /\ LocalOK(w) /\ w.pc = "appoint" /\ w.app = proc[p].app
        /\ w.org = proc[p].org /\ w.alone = proc[p].alone
    <3>1. "appoint" \notin {"authorize", "metadata"}
      OBVIOUS
    <3> QED
      BY <2>2, <2>3, <2>4, <3>1, Relabelled
  <2> HIDE DEF w
  <2>7. /\ ~At(p, "idle") /\ proc[p].pc = "member"
        /\ apps' = apps /\ dists' = dists /\ admins' = admins /\ untidy' = untidy
    BY <2>1
  <2> QED
    BY <2>5, <2>6, <2>7, QuietStep
<1> QED
  BY <1>1, <1>2

\* A distribution is created.
LEMMA CreateDistributionStep ==
    ASSUME IInv, NEW p \in Procs, CreateDistribution(p)
    PROVE  IInv'
<1>1. /\ ~At(p, "idle") /\ proc[p].pc \notin {"listAdmins", "dismiss"}
      /\ proc[p].pc = "distribute"
      /\ dists' = dists \cup {Pair(p)}
      /\ proc' = [proc EXCEPT ![p] = Idle]
      /\ apps' = apps /\ admins' = admins /\ untidy' = untidy
  BY DEF CreateDistribution, At, Ends
<1>0. proc[p].app \in Apps /\ proc[p].org \in Orgs
  BY <1>1, Somewhere DEF LocalOK, SharingLabels
<1>2. TablesOK'
  BY <1>0, <1>1 DEF IInv, TablesOK, Pair
<1>3. ~LocalOK(Idle)
  BY IdleOrNot
<1>4. \A a, o : Led(a, o)' => Led(a, o) /\ ~Under(p, a, o)
  BY <1>1 DEF Led, Under
<1> QED
  BY <1>1, <1>2, <1>3, <1>4, MoveStep

\* An administrator is appointed; alone, where the application is distributed.
LEMMA CreateAdminStep ==
    ASSUME IInv, NEW p \in Procs, CreateAdmin(p)
    PROVE  IInv'
<1>0. PICK x, y : x = proc[p].app /\ y = proc[p].org
  OBVIOUS
<1>1. /\ ~At(p, "idle") /\ proc[p].pc = "appoint"
      /\ admins' = admins \cup ({x} \X {y} \X proc[p].users)
      /\ untidy' = IF proc[p].alone THEN untidy ELSE untidy \cup {<<x, y>>}
      /\ proc' = [proc EXCEPT ![p] = Idle]
      /\ apps' = apps /\ dists' = dists
  BY <1>0 DEF CreateAdmin, At, Ends, Pair
<1>2. proc[p].users \subseteq Users /\ x \in Apps /\ y \in Orgs
  BY <1>0, <1>1, Somewhere DEF LocalOK, SharingLabels
<1>3. TablesOK'
  BY <1>1, <1>2 DEF IInv, TablesOK
<1>4. ~LocalOK(Idle)
  BY IdleOrNot
<1>5. proc[p].alone => <<x, y>> \in dists
  BY <1>0, <1>1 DEF IInv, Undisturbed, Pair
<1>6. Fine(x, y)'
  BY <1>1, <1>5 DEF Fine
<1>7. ASSUME NEW a, NEW o, Led(a, o)'
      PROVE  \/ Fine(a, o)'
             \/ Led(a, o) /\ (<<a, o>> \in untidy => <<a, o>> \in untidy') /\ ~Under(p, a, o)
  <2>1. CASE a = x /\ o = y
    BY <2>1, <1>6
  <2>2. CASE ~(a = x /\ o = y)
    <3>1. PICK u \in Users : <<a, o, u>> \in admins'
      BY <1>7 DEF Led
    <3>2. <<a, o, u>> \in admins
      BY <3>1, <2>2, <1>1
    <3>3. ~Under(p, a, o)
      BY <1>1 DEF Under
    <3>4. untidy \subseteq untidy'
      BY <1>1
    <3> QED
      BY <3>2, <3>3, <3>4 DEF Led
  <2> QED
    BY <2>1, <2>2
<1> QED
  BY <1>1, <1>3, <1>4, <1>7, MoveStep

\* A request that stops: in the middle of a withdrawal it leaves a mark.
LEMMA SharingRefusedStep ==
    ASSUME IInv, NEW p \in Procs, SharingRefused(p)
    PROVE  IInv'
<1>1. /\ ~At(p, "idle")
      /\ untidy' = IF proc[p].pc \in {"listAdmins", "dismiss"}
                   THEN untidy \cup {Pair(p)} ELSE untidy
      /\ proc' = [proc EXCEPT ![p] = Idle]
      /\ apps' = apps /\ dists' = dists /\ admins' = admins
  BY DEF SharingRefused, At, Ends
<1>2. TablesOK'
  BY <1>1 DEF IInv, TablesOK
<1>3. ~LocalOK(Idle)
  BY IdleOrNot
<1>4. ASSUME NEW a, NEW o, Led(a, o)'
      PROVE  \/ Fine(a, o)'
             \/ Led(a, o) /\ (<<a, o>> \in untidy => <<a, o>> \in untidy') /\ ~Under(p, a, o)
  <2>1. Led(a, o)
    BY <1>1, <1>4 DEF Led
  <2>2. CASE Under(p, a, o)
    <3>1. <<a, o>> \in untidy'
      BY <1>1, <2>2 DEF Under
    <3> QED
      BY <3>1 DEF Fine
  <2>3. untidy \subseteq untidy'
    BY <1>1
  <2> QED
    BY <2>1, <2>2, <2>3
<1> QED
  BY <1>1, <1>2, <1>3, <1>4, MoveStep

\* The administrators are listed: whoever is left will be dismissed.
LEMMA UndistributeListStep ==
    ASSUME IInv, NEW p \in Procs, UndistributeList(p)
    PROVE  IInv'
<1>0. PICK x, y, who : x = proc[p].app /\ y = proc[p].org /\ who = AdminsOf(x, y)
  OBVIOUS
<1>1. /\ ~At(p, "idle") /\ proc[p].pc = "listAdmins"
      /\ IF who = {} THEN Ends(p) /\ Withdrawn(p)
         ELSE /\ proc' = [proc EXCEPT ![p].pc = "dismiss", ![p].users = who]
              /\ UNCHANGED <<left, untidy>>
      /\ apps' = apps /\ dists' = dists /\ admins' = admins
  BY <1>0 DEF UndistributeList, At
<1>2. TablesOK'
  BY <1>1 DEF IInv, TablesOK
<1>3. \A a, o : Led(a, o)' => Led(a, o)
  BY <1>1 DEF Led
<1>4. \A a, o : Under(p, a, o) <=> a = x /\ o = y
  BY <1>0, <1>1 DEF Under, Pair
<1>5. CASE who = {}
  <2>1. /\ proc' = [proc EXCEPT ![p] = Idle]
        /\ untidy' = IF proc[p].alone THEN untidy \ {<<x, y>>} ELSE untidy \cup {<<x, y>>}
    BY <1>0, <1>1, <1>5 DEF Ends, Withdrawn, Pair
  <2>2. ~LocalOK(Idle)
    BY IdleOrNot
  <2>3. ~Led(x, y)
    BY <1>0, <1>5 DEF Led, AdminsOf
  <2>4. \A a, o : Led(a, o)' =>
           Led(a, o) /\ (<<a, o>> \in untidy => <<a, o>> \in untidy') /\ ~Under(p, a, o)
    BY <1>3, <1>4, <2>1, <2>3
  <2> QED
    BY <1>1, <1>2, <2>1, <2>2, <2>4, MoveStep
<1>6. CASE who # {}
  <2>0. PICK w : w = [proc[p] EXCEPT !.pc = "dismiss", !.users = who]
    OBVIOUS
  <2>1. proc' = [proc EXCEPT ![p].pc = "dismiss", ![p].users = who] /\ untidy' = untidy
    BY <1>1, <1>6
  <2>2. LocalOK(proc[p]) /\ proc = [q \in Procs |-> proc[q]]
    BY <1>1, Somewhere
  <2>3. "dismiss" \in SharingLabels /\ "listAdmins" \in SharingLabels
    BY DEF SharingLabels
  <2>4. proc[p].table = Nothing
    BY <1>1, <2>2, <2>3 DEF LocalOK
  <2>5. proc' = [proc EXCEPT ![p] = w]
    BY <2>0, <2>1, <2>2 DEF LocalOK, RequestLike
  <2>6. who \in SUBSET Users
    BY <1>0 DEF AdminsOf
  <2>7. /\ LocalOK(w) /\ w.pc = "dismiss" /\ w.app = x /\ w.org = y
        /\ w.users = who /\ w.alone = proc[p].alone
    <3>1. LocalOK(proc[p])
      BY <2>2
    <3>2. /\ LocalOK(w) /\ w.pc = "dismiss" /\ w.app = proc[p].app /\ w.org = proc[p].org
          /\ w.users = who /\ w.alone = proc[p].alone
      <4>0. PICK v0 : v0 = proc[p]
        OBVIOUS
      <4>1. v0 \in RequestLike(v0) /\ v0.app \in Apps /\ v0.table = Nothing
        BY <1>1, <2>3, <2>4, <3>1, <4>0 DEF LocalOK, SharingLabels
      <4>2. w = [v0 EXCEPT !.pc = "dismiss", !.users = who]
        BY <2>0, <4>0
      <4>3. /\ w.pc = "dismiss" /\ w.app = v0.app /\ w.org = v0.org /\ w.table = v0.table
            /\ w.users = who /\ w.alone = v0.alone /\ w \in RequestLike(w)
        BY <2>3, <2>6, <4>1, <4>2 DEF RequestLike
      <4>4. "dismiss" \notin {"authorize", "metadata"}
        OBVIOUS
      <4> QED
        BY <4>0, <4>1, <4>3, <4>4 DEF LocalOK
    <3> QED
      BY <1>0, <3>2
  <2>8. AdminsOf(w.app, w.org)' \subseteq w.users
    BY <1>0, <1>1, <2>7 DEF AdminsOf
  <2>9. Under(p, x, y)'
    BY <2>2, <2>5, <2>7 DEF Under, Pair
  <2>10. \A a, o : Led(a, o)' => Led(a, o) /\ (Under(p, a, o) => Under(p, a, o)')
    BY <1>3, <1>4, <2>9
  <2> QED
    BY <1>1, <1>2, <2>1, <2>5, <2>7, <2>8, <2>10, MoveStep
<1> QED
  BY <1>5, <1>6

\* An administrator is dismissed: when it was the last of the list, and the
\* withdrawal was alone, nobody is left.
LEMMA UndistributeNextStep ==
    ASSUME IInv, NEW p \in Procs, UndistributeNext(p)
    PROVE  IInv'
<1>0. PICK x, y, who : x = proc[p].app /\ y = proc[p].org /\ who = proc[p].users
  OBVIOUS
<1>1. PICK u \in who :
         /\ ~At(p, "idle") /\ proc[p].pc = "dismiss"
         /\ admins' = admins \ {<<x, y, u>>}
         /\ IF who \ {u} = {} THEN Ends(p) /\ Withdrawn(p)
            ELSE proc' = [proc EXCEPT ![p].users = who \ {u}] /\ UNCHANGED <<left, untidy>>
         /\ apps' = apps /\ dists' = dists
  BY <1>0 DEF UndistributeNext, At, Remaining
<1>2. TablesOK'
  BY <1>1 DEF IInv, TablesOK
<1>3. \A a, o : Led(a, o)' => Led(a, o)
  BY <1>1 DEF Led
<1>4. \A a, o : Under(p, a, o) <=> a = x /\ o = y
  BY <1>0, <1>1 DEF Under, Pair
<1>5. proc[p].alone => \A v \in Users : <<x, y, v>> \in admins => v \in who
  BY <1>0, <1>1 DEF IInv, Undisturbed, AdminsOf, At
<1>6. CASE who \ {u} = {}
  <2>1. /\ proc' = [proc EXCEPT ![p] = Idle]
        /\ untidy' = IF proc[p].alone THEN untidy \ {<<x, y>>} ELSE untidy \cup {<<x, y>>}
    BY <1>0, <1>1, <1>6 DEF Ends, Withdrawn, Pair
  <2>2. ~LocalOK(Idle)
    BY IdleOrNot
  <2>3. proc[p].alone => ~Led(x, y)'
    BY <1>1, <1>5, <1>6 DEF Led
  <2>4. ~proc[p].alone => Fine(x, y)'
    BY <2>1 DEF Fine
  <2>5. \A a, o : Led(a, o)' =>
           \/ Fine(a, o)'
           \/ Led(a, o) /\ (<<a, o>> \in untidy => <<a, o>> \in untidy') /\ ~Under(p, a, o)
    BY <1>3, <1>4, <2>1, <2>3, <2>4
  <2> QED
    BY <1>1, <1>2, <2>1, <2>2, <2>5, MoveStep
<1>7. CASE who \ {u} # {}
  <2>0. PICK rest, w : rest = who \ {u} /\ w = [proc[p] EXCEPT !.users = rest]
    OBVIOUS
  <2>1. proc' = [proc EXCEPT ![p].users = rest] /\ untidy' = untidy
    BY <1>1, <1>7, <2>0
  <2>2. LocalOK(proc[p]) /\ proc = [q \in Procs |-> proc[q]] /\ who \subseteq Users
    BY <1>0, <1>1, Somewhere
  <2>3. "dismiss" \in SharingLabels
    BY DEF SharingLabels
  <2>4. proc[p].table = Nothing
    BY <1>1, <2>2, <2>3 DEF LocalOK
  <2>5. proc' = [proc EXCEPT ![p] = w]
    BY Zenon, <2>0, <2>1
  <2>6. rest \in SUBSET Users
    BY <2>0, <2>2
  <2>7. /\ LocalOK(w) /\ w.pc = "dismiss" /\ w.app = x /\ w.org = y
        /\ w.users = rest /\ w.alone = proc[p].alone
    <3>1. LocalOK(proc[p]) /\ proc[p].pc = "dismiss" /\ w = [proc[p] EXCEPT !.users = rest]
      BY <1>1, <2>0, <2>2
    <3> QED
      BY <1>0, <2>4, <2>6, <3>1, Shortened
  <2>8. w.alone => AdminsOf(w.app, w.org)' \subseteq w.users
    BY <1>1, <1>5, <2>0, <2>7 DEF AdminsOf
  <2>9. Under(p, x, y)'
    BY <2>2, <2>5, <2>7 DEF Under, Pair
  <2>10. \A a, o : Led(a, o)' => Led(a, o) /\ (Under(p, a, o) => Under(p, a, o)')
    BY <1>3, <1>4, <2>9
  <2> QED
    BY <1>1, <1>2, <2>1, <2>5, <2>7, <2>8, <2>10, MoveStep
<1> QED
  BY <1>6, <1>7

-----------------------------------------------------------------------------
(***************************************************************************)
(* The actions of AppData touch nothing that is shared; they count when it *)
(* comes to who is alone.                                                  *)
(***************************************************************************)
LEMMA CallOK ==
    ASSUME NEW label \in DataLabels, NEW a \in Apps, NEW o \in Orgs, NEW t \in Tables,
           NEW v, v = Call(label, a, o, t)
    PROVE  v \in RequestLike(v) /\ v.pc = label /\ v.alone = (Busy = {})
<1>1. PICK w : w = Work(label, a, o, {})
  OBVIOUS
<1>2. w \in RequestLike(w) /\ w.pc = label /\ w.alone = (Busy = {})
  BY <1>1 DEF Work, RequestLike
<1>3. v = [w EXCEPT !.table = t]
  BY <1>1 DEF Call
<1> QED
  BY <1>2, <1>3 DEF RequestLike

LEMMA OperationOK ==
    ASSUME NEW then \in Operations, NEW a \in Apps, NEW o \in Orgs, NEW t \in Tables, NEW i,
           NEW v, v = Operation(then, a, o, t, i)
    PROVE  v \in RequestLike(v) /\ v.pc = "metadata" /\ v.then = then /\ v.alone = (Busy = {})
<1>0. "metadata" \in DataLabels
  BY DEF DataLabels
<1>1. PICK w : w = Call("metadata", a, o, t)
  OBVIOUS
<1>2. w \in RequestLike(w) /\ w.pc = "metadata" /\ w.alone = (Busy = {})
  BY <1>0, <1>1, CallOK
<1>3. v = [w EXCEPT !.then = then, !.row = i]
  BY <1>1 DEF Operation
<1> QED
  BY <1>2, <1>3 DEF RequestLike

LEMMA DataStarts ==
    ASSUME IInv, NEW p \in Procs, At(p, "idle"), UNCHANGED sharing,
           NEW w, Starts(p, w), w \in RequestLike(w), w.alone = (Busy = {}),
           \/ w.pc = "describe"
           \/ w.pc \in {"metadata", "authorize"} /\ w.then \in Operations
    PROVE  IInv'
<1>1. LocalOK(w)
  BY DEF LocalOK, SharingLabels
<1>2. apps' = apps /\ dists' = dists /\ admins' = admins /\ untidy' = untidy
  BY DEF sharing
<1> QED
  BY <1>1, <1>2, StartStep

LEMMA CreateTableStep ==
    ASSUME IInv, NEW p \in Procs, NEW a \in Apps, NEW o \in Orgs, NEW t \in Tables, NEW cols,
           CreateTable(p, a, o, t, cols)
    PROVE  IInv'
<1>1. PICK w, v : w = Call("describe", a, o, t) /\ v = [w EXCEPT !.cols = cols]
  OBVIOUS
<1>2. w \in RequestLike(w) /\ w.pc = "describe" /\ w.alone = (Busy = {})
  BY <1>1, CallOK DEF DataLabels
<1>3. v \in RequestLike(v) /\ v.pc = "describe" /\ v.alone = (Busy = {})
  BY <1>1, <1>2 DEF RequestLike
<1>4. At(p, "idle") /\ UNCHANGED sharing /\ Starts(p, v)
  BY <1>1 DEF CreateTable
<1> QED
  BY <1>3, <1>4, DataStarts

LEMMA BeginsStep ==
    ASSUME IInv, NEW p \in Procs, NEW a \in Apps, NEW o \in Orgs, NEW t \in Tables,
           NEW then \in Operations, NEW i, NEW c, NEW who \in SUBSET Users,
           \/ Begins(p, Operation(then, a, o, t, i))
           \/ Begins(p, [Operation(then, a, o, t, i) EXCEPT !.cols = c])
           \/ Begins(p, [Operation(then, a, o, t, i) EXCEPT !.more = c])
           \/ Begins(p, [Operation(then, a, o, t, i) EXCEPT !.pc = "authorize", !.users = who])
    PROVE  IInv'
<1>1. PICK w : w = Operation(then, a, o, t, i)
  OBVIOUS
<1>2. /\ w \in RequestLike(w) /\ w.pc = "metadata" /\ w.then \in Operations
      /\ w.alone = (Busy = {})
  BY <1>1, OperationOK
<1>3. PICK v : /\ Begins(p, v)
              /\ \/ v = w
                 \/ v = [w EXCEPT !.cols = c]
                 \/ v = [w EXCEPT !.more = c]
                 \/ v = [w EXCEPT !.pc = "authorize", !.users = who]
  BY <1>1
<1>4. /\ v \in RequestLike(v) /\ v.pc \in {"metadata", "authorize"} /\ v.then \in Operations
      /\ v.alone = (Busy = {})
  <2>1. CASE v = w
    BY <1>2, <2>1
  <2>2. CASE v = [w EXCEPT !.cols = c]
    BY <1>2, <2>2 DEF RequestLike
  <2>3. CASE v = [w EXCEPT !.more = c]
    BY <1>2, <2>3 DEF RequestLike
  <2>4. CASE v = [w EXCEPT !.pc = "authorize", !.users = who]
    BY <1>2, <2>4 DEF RequestLike, DataLabels
  <2> QED
    BY <1>3, <2>1, <2>2, <2>3, <2>4
<1>5. At(p, "idle") /\ UNCHANGED sharing /\ Starts(p, v)
  BY <1>3 DEF Begins
<1> QED
  BY <1>4, <1>5, DataStarts

LEMMA ExecRawStep ==
    ASSUME IInv, NEW n, ExecRaw(n)
    PROVE  IInv'
<1>1. AtOnce /\ apps' = apps /\ dists' = dists /\ admins' = admins /\ untidy' = untidy
  BY DEF ExecRaw, sharing
<1>2. TablesOK'
  BY <1>1 DEF IInv, TablesOK
<1> QED
  BY <1>1, <1>2, AtOnceStep

LEMMA DataRequestStep ==
    ASSUME IInv, NEW p \in Procs, DataRequest(p)
    PROVE  IInv'
<1> DEFINE Op(then, a, o, t, i) == Operation(then, a, o, t, i)
<1>1. /\ "drop" \in Operations /\ "addColumn" \in Operations /\ "insert" \in Operations
      /\ "update" \in Operations /\ "delete" \in Operations
  BY DEF Operations
<1>2. ASSUME NEW a \in Apps, NEW o \in Orgs, NEW t \in Tables, NEW then \in Operations, NEW i,
             Begins(p, Op(then, a, o, t, i))
      PROVE  IInv'
  BY <1>2, BeginsStep
<1>3. ASSUME NEW a \in Apps, NEW o \in Orgs, NEW t \in Tables, NEW c,
             Begins(p, [Op("addColumn", a, o, t, 0) EXCEPT !.cols = c])
      PROVE  IInv'
  BY <1>1, <1>3, BeginsStep
<1>4. ASSUME NEW a \in Apps, NEW o \in Orgs, NEW t \in Tables,
             Begins(p, [Op("insert", a, o, t, 0) EXCEPT !.more = 1])
      PROVE  IInv'
  BY <1>1, <1>4, BeginsStep
<1>5. ASSUME NEW a \in Apps, NEW o \in Orgs, NEW t \in Tables, NEW then \in Operations, NEW i,
             NEW u \in Users, Asks(p, u, Operation(then, a, o, t, i))
      PROVE  IInv'
  <2>1. Begins(p, [Operation(then, a, o, t, i) EXCEPT !.pc = "authorize", !.users = {u}])
    BY <1>5 DEF Asks
  <2> QED
    BY <2>1, BeginsStep
<1>6. CASE ToolTable(p)
  <2>1. PICK a \in Apps, o \in Orgs, t \in Tables :
           \/ \E cols \in SUBSET Columns : CreateTable(p, a, o, t, cols)
           \/ ExecRaw(Physical(a, t))
           \/ Begins(p, Op("drop", a, o, t, 0))
           \/ \E c \in Columns : Begins(p, [Op("addColumn", a, o, t, 0) EXCEPT !.cols = {c}])
    BY <1>6 DEF ToolTable
  <2> HIDE DEF Op
  <2>2. CASE \E c \in Columns : Begins(p, [Op("addColumn", a, o, t, 0) EXCEPT !.cols = {c}])
    <3>1. PICK c \in Columns : Begins(p, [Op("addColumn", a, o, t, 0) EXCEPT !.cols = {c}])
      BY <2>2
    <3> QED
      BY Zenon, <3>1, <1>3
  <2>3. CASE \E cols \in SUBSET Columns : CreateTable(p, a, o, t, cols)
    BY <2>3, CreateTableStep
  <2>4. CASE Begins(p, Op("drop", a, o, t, 0))
    BY Zenon, <1>1, <1>2, <2>4
  <2> QED
    BY <2>1, <2>2, <2>3, <2>4, ExecRawStep
<1>7. CASE ToolRows(p)
  <2>1. PICK a \in Apps, o \in Orgs, t \in Tables :
           \/ Begins(p, Op("insert", a, o, t, 0))
           \/ Begins(p, [Op("insert", a, o, t, 0) EXCEPT !.more = 1])
           \/ \E i : \/ Begins(p, Op("update", a, o, t, i))
                     \/ Begins(p, Op("delete", a, o, t, i))
    BY <1>7 DEF ToolRows
  <2> HIDE DEF Op
  <2> QED
    BY Zenon, <1>1, <1>2, <1>4, <2>1
<1>8. CASE RouteRows(p)
  <2>1. PICK u \in Users, a \in Apps, o \in Orgs, t \in Tables :
           \/ Asks(p, u, Operation("insert", a, o, t, 0))
           \/ \E i, then : then \in {"update", "delete"} /\ Asks(p, u, Operation(then, a, o, t, i))
    BY <1>8 DEF RouteRows
  <2>2. PICK then, i : then \in Operations /\ Asks(p, u, Operation(then, a, o, t, i))
    BY <1>1, <2>1
  <2> QED
    BY Zenon, <1>5, <2>2
<1> QED
  BY <1>6, <1>7, <1>8 DEF DataRequest

LEMMA DataMoves ==
    ASSUME IInv, NEW p \in Procs, ~At(p, "idle"), UNCHANGED sharing,
           proc[p].pc \notin SharingLabels, NEW label \in DataLabels \ {"authorize", "metadata"},
           \/ Ends(p)
           \/ Continues(p, label)
           \/ Continues(p, "metadata") /\ At(p, "authorize")
           \/ proc' = [proc EXCEPT ![p].more = @ - 1] /\ At(p, "insert")
    PROVE  IInv'
<1>1. /\ LocalOK(proc[p]) /\ proc = [q \in Procs |-> proc[q]]
      /\ apps' = apps /\ dists' = dists /\ admins' = admins /\ untidy' = untidy
      /\ proc[p].pc \notin {"listAdmins", "dismiss"}
  BY Somewhere DEF sharing, SharingLabels
<1>2. DataLabels \cap SharingLabels = {} /\ {"metadata", "insert"} \subseteq DataLabels
  BY DEF DataLabels, SharingLabels, Operations
<1>3. "insert" \notin {"authorize", "metadata"}
  OBVIOUS
<1>4. CASE Ends(p)
  <2>1. proc' = [proc EXCEPT ![p] = Idle] /\ ~LocalOK(Idle)
    BY <1>4, IdleOrNot DEF Ends
  <2> QED
    BY <1>1, <2>1, QuietStep
<1>5. ASSUME NEW v, LocalOK(v), v.pc \in DataLabels, v.alone = proc[p].alone,
             proc' = [proc EXCEPT ![p] = v]
      PROVE  IInv'
  <2>1. v.pc \notin {"member", "appoint", "dismiss"}
    BY <1>2, <1>5 DEF SharingLabels
  <2> QED
    BY <1>1, <1>5, <2>1, QuietStep
<1>6. CASE Continues(p, label)
  <2>1. PICK w, v : w = proc[p] /\ v = [w EXCEPT !.pc = label]
    OBVIOUS
  <2>2. LocalOK(v) /\ v.pc = label /\ v.alone = w.alone
    BY <1>1, <1>2, <2>1, Relabelled
  <2>3. proc' = [proc EXCEPT ![p] = v]
    BY <1>6, <2>1, Zenon DEF Continues
  <2> QED
    BY <1>5, <2>1, <2>2, <2>3
<1>7. CASE Continues(p, "metadata") /\ At(p, "authorize")
  <2>1. PICK w, v : w = proc[p] /\ v = [w EXCEPT !.pc = "metadata"]
    OBVIOUS
  <2>2. w.then \in Operations
    BY <1>1, <1>7, <2>1 DEF LocalOK, At
  <2>3. LocalOK(v) /\ v.pc = "metadata" /\ v.alone = w.alone
    BY <1>1, <1>2, <2>1, <2>2, Relabelled
  <2>4. proc' = [proc EXCEPT ![p] = v]
    BY <1>7, <2>1, Zenon DEF Continues
  <2> QED
    BY <1>2, <1>5, <2>1, <2>3, <2>4
<1>8. CASE proc' = [proc EXCEPT ![p].more = @ - 1] /\ At(p, "insert")
  <2>1. PICK w, v : w = proc[p] /\ v = [w EXCEPT !.more = w.more - 1]
    OBVIOUS
  <2>2. w.pc \notin SharingLabels \cup {"authorize", "metadata"} /\ w.pc \in DataLabels
    BY <1>2, <1>3, <1>8, <2>1 DEF At
  <2>3. LocalOK(v) /\ v.pc = w.pc /\ v.alone = w.alone
    BY <1>1, <2>1, <2>2, MoreToDo
  <2>4. proc' = [proc EXCEPT ![p] = v]
    BY <1>8, <2>1, Zenon
  <2> QED
    BY <1>5, <2>1, <2>2, <2>3, <2>4
<1> QED
  BY <1>4, <1>6, <1>7, <1>8

LEMMA DataStepStep ==
    ASSUME IInv, NEW p \in Procs, DataStep(p)
    PROVE  IInv'
<1>1. SharingLabels \cap DataLabels = {}
  BY DEF SharingLabels, DataLabels, Operations
<1>2. /\ UNCHANGED sharing /\ ~At(p, "idle")
      /\ proc[p].pc \in DataLabels \/ proc[p].table # Nothing
  BY DEF DataStep, CreateDescription, CreateUndo, Authorize, GetTableMetadata, DropTable,
         DropDescription, Insert, Update, Delete, AddColumn, DataRefused, At, DataLabels,
         Operations
<1>3. LocalOK(proc[p])
  BY <1>2, Somewhere
<1>4. proc[p].pc \notin SharingLabels
  BY <1>1, <1>2, <1>3 DEF LocalOK
<1>5. {"undo", "forget"} \subseteq DataLabels \ {"authorize", "metadata"}
  BY DEF DataLabels
<1>6. At(p, "metadata") => proc[p].then \in DataLabels \ {"authorize", "metadata"}
  BY <1>3 DEF LocalOK, At, DataLabels, Operations
<1>7. \/ Ends(p) \/ Continues(p, "undo") \/ Continues(p, "forget")
      \/ At(p, "metadata") /\ Continues(p, proc[p].then)
      \/ Continues(p, "metadata") /\ At(p, "authorize")
      \/ proc' = [proc EXCEPT ![p].more = @ - 1] /\ At(p, "insert")
  BY DEF DataStep, CreateDescription, CreateUndo, Authorize, GetTableMetadata, DropTable,
         DropDescription, Insert, Update, Delete, AddColumn, DataRefused
<1> QED
  BY <1>2, <1>4, <1>5, <1>6, <1>7, DataMoves

-----------------------------------------------------------------------------
LEMMA InvInit == Init => IInv
<1> SUFFICES ASSUME Init PROVE IInv
  OBVIOUS
<1>1. /\ apps = Apps /\ untidy = {} /\ proc = [p \in Procs |-> Idle]
      /\ \/ dists = {} /\ admins = {}
         \/ \E who \in SUBSET Users : /\ dists = Apps \X (LiveOrgs \ {Provider})
                                      /\ admins = Apps \X (LiveOrgs \ {Provider}) \X who
  BY DEF Init
<1>2. LiveOrgs \subseteq Orgs
  BY DEF LiveOrgs
<1>3. TablesOK
  BY <1>1, <1>2 DEF TablesOK
<1>4. \A p \in Procs : proc[p] = Idle
  BY <1>1
<1>5. LocalsOK
  BY <1>1, <1>4 DEF LocalsOK
<1>6. \A p \in Procs : Undisturbed(p)
  BY <1>4, IdleOrNot DEF Undisturbed, At
<1>7. \A a, o : Led(a, o) => <<a, o>> \in dists
  BY <1>1 DEF Led
<1>8. AllFine
  BY <1>7 DEF AllFine, Fine
<1> QED
  BY <1>3, <1>5, <1>6, <1>8, FineIsTidy DEF IInv

\* Every step keeps it: those of the requests that share, those that use the
\* data, and changes from elsewhere.
LEMMA InvStep == IInv /\ [Next]_vars => IInv'
<1> SUFFICES ASSUME IInv, [Next]_vars PROVE IInv'
  OBVIOUS
<1>1. CASE UNCHANGED vars
  BY <1>1 DEF vars, sharing, IInv, TablesOK, LocalsOK, Undisturbed, AdminsWhereDistributed,
              ListApps, Pair, At, AdminsOf
<1>2. CASE Around
  BY <1>2, ChangeSteps
<1>3. ASSUME NEW p \in Procs, SharingRequest(p)
      PROVE  IInv'
  <2>1. \/ \E o \in Orgs : CreateOrg(o) \/ DeleteOrg(o)
        \/ \E a \in Apps, o \in Orgs, u \in Users : RemoveAppAdmin(a, o, u)
        \/ \E o \in Orgs : UpdateOrg(p, o)
        \/ \E a \in Apps, o \in Orgs :
              \/ DistributeApp(p, a, o) \/ UndistributeApp(p, a, o)
              \/ \E u \in Users : SetAppAdmin(p, a, o, u)
    BY <1>3 DEF SharingRequest, ToolOrg, RouteOrg, ToolShare, RouteShare
  <2>2. CASE \E o \in Orgs : UpdateOrg(p, o)
    BY <2>2, UpdateOrgStep
  <2>3. CASE \E a \in Apps, o \in Orgs :
                \/ DistributeApp(p, a, o) \/ UndistributeApp(p, a, o)
                \/ \E u \in Users : SetAppAdmin(p, a, o, u)
    BY <2>3, RequestSteps
  <2> QED
    BY <2>1, <2>2, <2>3, ChangeSteps
<1>4. ASSUME NEW p \in Procs, SharingStep(p)
      PROVE  IInv'
  BY <1>4, PlainSteps, CreateDistributionStep, UndistributeListStep, UndistributeNextStep,
     CreateAdminStep, SharingRefusedStep DEF SharingStep
<1> QED
  BY <1>1, <1>2, <1>3, <1>4, DataRequestStep, DataStepStep DEF Next

\* Whoever administers an application for an organization finds it among the
\* organization's, however many requests overlap and whatever stops half-way,
\* but where the history says what happened.
THEOREM AdminsFollowDistributions == Spec => []AdminsWhereDistributed
<1>1. Init => IInv
  BY InvInit
<1>2. IInv /\ [Next]_vars => IInv'
  BY InvStep
<1>3. IInv => AdminsWhereDistributed
  BY DEF IInv
<1> QED
  BY <1>1, <1>2, <1>3, PTL DEF Spec

-----------------------------------------------------------------------------
(***************************************************************************)
(* The data service.  TablesDescribed needs what a creation or a removal   *)
(* that is alone knows of its table (Careful), and that a table nothing    *)
(* unusual has happened to is described once (Agree): its removal would    *)
(* leave a second description behind.                                      *)
(***************************************************************************)
Making == {"describe", "undo", "forget"}

Alone(p) == ~At(p, "idle") /\ proc[p].alone

EntriesOf(n) == {e \in DOMAIN described : Physical(e[1], e[3]) = n}

Agree(n) ==
    /\ n \in DOMAIN stored <=> EntriesOf(n) # {}
    /\ \A e \in EntriesOf(n) : described[e] \subseteq stored[n].cols
    /\ \A e, f \in EntriesOf(n) : e = f

Makes(p, n) == proc[p].pc \in Making /\ Name(p) = n

Agreed == \A n \in PhysicalNames \ marred : Agree(n) \/ \E p \in Procs : Makes(p, n)

Careful(p) ==
    Alone(p) /\ Name(p) \notin marred =>
       /\ At(p, "describe") => /\ Name(p) \in DOMAIN stored
                               /\ proc[p].cols \subseteq stored[Name(p)].cols
       /\ proc[p].pc \in {"describe", "undo"} => EntriesOf(Name(p)) = {}
       /\ At(p, "drop") => Entry(p) \in DOMAIN described
       /\ At(p, "forget") => /\ Name(p) \notin DOMAIN stored
                             /\ EntriesOf(Name(p)) \subseteq {Entry(p)}

\* Rows, tables, and what requests hold.
RowType == [id : Nat, org : Orgs, updated : BOOLEAN]

TableOK(s) ==
    /\ s \in [cols : {s.cols}, rows : SUBSET RowType, serial : Nat]
    /\ \A r \in s.rows : r.id <= s.serial
    /\ \A r1, r2 \in s.rows : r1.id = r2.id => r1 = r2

StoreOK ==
    /\ DOMAIN described \subseteq Apps \X Orgs \X Tables
    /\ DOMAIN stored \subseteq PhysicalNames
    /\ stored = [n \in DOMAIN stored |-> stored[n]]
    /\ \A n \in DOMAIN stored : TableOK(stored[n])

DataLocal(w) ==
    /\ w.pc \in DataLabels => w.app \in Apps /\ w.table \in Tables /\ w.more \in Nat
    /\ w.pc = "distribute" => w.org # Provider

SharedOK ==
    /\ orgs \in [Orgs -> {"new", "live", "gone"}] /\ apps \subseteq Apps
    /\ members \subseteq LiveOrgs \X Users
    /\ dists \subseteq Apps \X (Orgs \ {Provider})
    /\ admins \subseteq Apps \X Orgs \X Users

DataInv ==
    /\ SharedOK /\ StoreOK
    /\ left \in Nat
    /\ \A p \in Procs : DataLocal(proc[p]) /\ Careful(p)
    /\ Agreed

-----------------------------------------------------------------------------
\* Whom a step does not move keeps what it knows, or is no longer alone.
Kept(q) == proc'[q] = proc[q] \/ proc'[q] = Disturbed(q)

SameWork(w, v) ==
    /\ v.pc = w.pc /\ v.app = w.app /\ v.org = w.org /\ v.table = w.table
    /\ v.cols = w.cols /\ v.then = w.then /\ v.row = w.row /\ v.more = w.more

LEMMA DisturbedKeeps ==
    ASSUME LocalsOK, NEW q \in Procs
    PROVE  /\ At(q, "idle") => Disturbed(q) = Idle
           /\ ~At(q, "idle") => SameWork(proc[q], Disturbed(q)) /\ ~Disturbed(q).alone
<1>1. At(q, "idle") => Disturbed(q) = Idle
  BY DEF Disturbed
<1>2. ASSUME ~At(q, "idle")
      PROVE  SameWork(proc[q], Disturbed(q)) /\ ~Disturbed(q).alone
  <2>1. PICK w, v : w = proc[q] /\ v = [w EXCEPT !.alone = FALSE]
    OBVIOUS
  <2>2. Disturbed(q) = v
    BY <1>2, <2>1 DEF Disturbed
  <2>3. w \in RequestLike(w)
    BY <1>2, <2>1, IdleOrNot DEF LocalsOK, At, LocalOK
  <2>4. SameWork(w, v) /\ ~v.alone
    BY <2>1, <2>3 DEF SameWork, RequestLike
  <2> QED
    BY <2>1, <2>2, <2>4
<1> QED
  BY <1>1, <1>2

LEMMA KeptIsHeld ==
    ASSUME LocalsOK, NEW q \in Procs, Kept(q), DataLocal(proc[q])
    PROVE  /\ DataLocal(proc'[q])
           /\ \A n : Makes(q, n) <=> Makes(q, n)'
           /\ Alone(q)' => Alone(q) /\ proc'[q] = proc[q]
<1>0. "idle" \notin DataLabels \cup Making \cup {"distribute"} /\ Idle.pc = "idle"
  BY DEF DataLabels, Operations, Making, Idle
<1>1. CASE proc'[q] = proc[q]
  BY <1>1 DEF Makes, Name, Alone, At
<1>2. CASE proc'[q] = Disturbed(q) /\ At(q, "idle")
  <2>1. proc'[q] = Idle
    BY <1>2, DisturbedKeeps
  <2> QED
    BY <1>0, <1>2, <2>1 DEF DataLocal, Makes, Alone, At
<1>3. CASE proc'[q] = Disturbed(q) /\ ~At(q, "idle")
  <2>1. SameWork(proc[q], proc'[q]) /\ ~proc'[q].alone
    BY <1>3, DisturbedKeeps
  <2> QED
    BY <2>1 DEF SameWork, DataLocal, Makes, Name, Alone
<1> QED
  BY <1>1, <1>2, <1>3 DEF Kept

\* What p does is no matter to the others: whoever is alone has begun last.
LEMMA OthersCareful ==
    ASSUME IInv, NEW q \in Procs, Kept(q), DataLocal(proc[q]),
           \/ \E p \in Procs \ {q} : ~At(p, "idle")
           \/ proc'[q] = Disturbed(q)
    PROVE  Careful(q)'
<1>1. ~Alone(q)'
  <2>1. CASE \E p \in Procs \ {q} : ~At(p, "idle")
    <3>1. ~Alone(q)
      BY <2>1 DEF IInv, Undisturbed, Alone
    <3> QED
      BY <3>1, KeptIsHeld DEF IInv
  <2>2. CASE proc'[q] = Disturbed(q)
    <3>1. LocalsOK
      BY DEF IInv
    <3>2. CASE At(q, "idle")
      BY <2>2, <3>1, <3>2, DisturbedKeeps DEF Alone, At, Idle
    <3>3. CASE ~At(q, "idle")
      BY <2>2, <3>1, <3>3, DisturbedKeeps DEF Alone
    <3> QED
      BY <3>2, <3>3
  <2> QED
    BY <2>1, <2>2
<1> QED
  BY <1>1 DEF Careful

\* A table is described, or in the making.
LEMMA AgreedStep ==
    ASSUME Agreed, marred \subseteq marred',
           \A n \in PhysicalNames \ marred' :
              /\ Agree(n) => Agree(n)' \/ \E q \in Procs : Makes(q, n)'
              /\ \A q \in Procs : Makes(q, n) => Makes(q, n)' \/ Agree(n)'
    PROVE  Agreed'
<1> SUFFICES ASSUME NEW n \in PhysicalNames \ marred'
             PROVE  Agree(n)' \/ \E q \in Procs : Makes(q, n)'
  BY DEF Agreed
<1>1. n \notin marred
  OBVIOUS
<1>2. CASE Agree(n)
  BY <1>2
<1>3. CASE \E q \in Procs : Makes(q, n)
  BY <1>3
<1> QED
  BY <1>1, <1>2, <1>3 DEF Agreed

\* One request moves, the others are kept.
LEMMA DataInvStep ==
    ASSUME IInv, DataInv, NEW p \in Procs, \A q \in Procs \ {p} : Kept(q),
           ~At(p, "idle") \/ \A q \in Procs \ {p} : proc'[q] = Disturbed(q),
           SharedOK', StoreOK', left' \in Nat, marred \subseteq marred',
           DataLocal(proc'[p]), Careful(p)',
           \A n \in PhysicalNames \ marred' :
              /\ Agree(n) => Agree(n)' \/ \E q \in Procs : Makes(q, n)'
              /\ Makes(p, n) => Makes(p, n)' \/ Agree(n)'
    PROVE  DataInv'
<1>0. LocalsOK /\ \A q \in Procs : DataLocal(proc[q])
  BY DEF IInv, DataInv
<1>1. \A q \in Procs : DataLocal(proc'[q])
  BY <1>0, KeptIsHeld
<1>2. \A q \in Procs \ {p} : Careful(q)'
  BY <1>0, OthersCareful
<1>3. \A n : \A q \in Procs \ {p} : Makes(q, n) => Makes(q, n)'
  BY <1>0, KeptIsHeld
<1>4. Agreed'
  BY <1>3, AgreedStep DEF DataInv
<1> QED
  BY <1>1, <1>2, <1>4 DEF DataInv

\* Who moves, and what the others keep.
LEMMA StartsKeeps ==
    ASSUME LocalsOK, left \in Nat, NEW p \in Procs, NEW w, Starts(p, w)
    PROVE  /\ proc'[p] = w /\ left' \in Nat
           /\ \A q \in Procs \ {p} : proc'[q] = Disturbed(q) /\ Kept(q)
BY DEF Starts, Counted, Kept

LEMMA MovesKeeps ==
    ASSUME LocalsOK, NEW p \in Procs, NEW w, proc' = [proc EXCEPT ![p] = w]
    PROVE  proc'[p] = w /\ \A q \in Procs \ {p} : Kept(q)
BY DEF LocalsOK, Kept

LEMMA EndsKeeps ==
    ASSUME LocalsOK, left \in Nat, NEW p \in Procs, Ends(p)
    PROVE  proc'[p] = Idle /\ left' \in Nat /\ \A q \in Procs \ {p} : Kept(q)
BY MovesKeeps DEF Ends

\* A request of one statement, or a change from elsewhere.
LEMMA AtOnceInvStep ==
    ASSUME IInv, DataInv, AtOnce, SharedOK', StoreOK', marred \subseteq marred',
           \A n \in PhysicalNames \ marred' : Agree(n) => Agree(n)'
    PROVE  DataInv'
<1>0. LocalsOK /\ left \in Nat /\ \A q \in Procs : DataLocal(proc[q])
  BY DEF IInv, DataInv
<1>1. left' \in Nat /\ \A q \in Procs : proc'[q] = Disturbed(q) /\ Kept(q)
  BY <1>0 DEF AtOnce, Counted, Kept
<1>2. \A q \in Procs : DataLocal(proc'[q]) /\ \A n : Makes(q, n) => Makes(q, n)'
  BY <1>0, <1>1, KeptIsHeld
<1>3. \A q \in Procs : Careful(q)'
  BY <1>0, <1>1, OthersCareful
<1>4. Agreed'
  BY <1>2, AgreedStep DEF DataInv
<1> QED
  BY <1>1, <1>2, <1>3, <1>4 DEF DataInv

\* What leaves the tables alone.
LEMMA DataStays ==
    ASSUME UNCHANGED data
    PROVE  /\ StoreOK => StoreOK'
           /\ marred' = marred
           /\ \A n : Agree(n) => Agree(n)'
BY DEF data, StoreOK, Agree, EntriesOf

LEMMA SharingAtOnce ==
    ASSUME IInv, DataInv, AtOnce, SharedOK', UNCHANGED data
    PROVE  DataInv'
<1>1. StoreOK' /\ marred' = marred /\ \A n : Agree(n) => Agree(n)'
  BY DataStays DEF DataInv
<1> QED
  BY <1>1, AtOnceInvStep

\* A request that shares is not one that makes a table.
LEMMA SharingMove ==
    ASSUME IInv, DataInv, NEW p \in Procs, \A q \in Procs \ {p} : Kept(q),
           ~At(p, "idle") \/ \A q \in Procs \ {p} : proc'[q] = Disturbed(q),
           proc[p].pc \in SharingLabels \cup {"idle"},
           proc'[p].pc \in SharingLabels \cup {"idle"},
           proc'[p].pc = "distribute" => proc'[p].org # Provider,
           SharedOK', left' \in Nat, UNCHANGED data
    PROVE  DataInv'
<1>0. (SharingLabels \cup {"idle"}) \cap (DataLabels \cup Making) = {}
  BY DEF SharingLabels, DataLabels, Operations, Making
<1>1. StoreOK' /\ marred' = marred /\ \A n : Agree(n) => Agree(n)'
  BY DataStays DEF DataInv
<1>2. DataLocal(proc'[p])
  BY <1>0 DEF DataLocal
<1>3. Careful(p)'
  <2>1. proc'[p].pc \notin {"describe", "undo", "drop", "forget"}
    BY <1>0 DEF DataLabels, Operations
  <2> QED
    BY <2>1 DEF Careful, At
<1>4. \A n : ~Makes(p, n)
  BY <1>0 DEF Makes
<1> QED
  BY <1>1, <1>2, <1>3, <1>4, DataInvStep

-----------------------------------------------------------------------------
(***************************************************************************)
(* What is shared refers to what there is.                                 *)
(***************************************************************************)
LEMMA LiveGrows ==
    ASSUME SharedOK, NEW o \in Orgs, orgs' = [orgs EXCEPT ![o] = "live"],
           UNCHANGED <<apps, members, dists, admins>>
    PROVE  SharedOK'
<1>1. LiveOrgs \subseteq LiveOrgs'
  BY DEF SharedOK, LiveOrgs
<1>2. orgs' \in [Orgs -> {"new", "live", "gone"}]
  BY DEF SharedOK
<1>3. PICK L : L = LiveOrgs'
  OBVIOUS
<1>4. members \subseteq L \X Users
  BY <1>1, <1>3 DEF SharedOK
<1> QED
  BY <1>2, <1>3, <1>4 DEF SharedOK

\* The other actions keep every organization's state but that of one deleted.
LEMMA SharedKept ==
    ASSUME SharedOK, orgs' = orgs, apps' = apps,
           members' \subseteq LiveOrgs \X Users,
           dists' \subseteq Apps \X (Orgs \ {Provider}),
           admins' \subseteq Apps \X Orgs \X Users
    PROVE  SharedOK'
BY DEF SharedOK, LiveOrgs

LEMMA ChangesShared ==
    ASSUME DataInv,
           \/ \E o \in Orgs : CreateOrg(o) \/ DeleteOrg(o)
           \/ Around
           \/ \E a \in Apps, o \in Orgs, u \in Users : RemoveAppAdmin(a, o, u)
    PROVE  SharedOK' /\ AtOnce
<1>0. SharedOK
  BY DEF DataInv
<1>1. CASE \E o \in Orgs : CreateOrg(o)
  BY <1>0, <1>1, LiveGrows DEF CreateOrg
<1>2. CASE \E o \in Orgs : DeleteOrg(o)
  <2>1. PICK o \in Orgs : DeleteOrg(o)
    BY <1>2
  <2>2. /\ orgs' = [orgs EXCEPT ![o] = "gone"] /\ apps' \subseteq apps /\ AtOnce
        /\ members' = {m \in members : m[1] # o} /\ Cascades
    BY <2>1 DEF DeleteOrg
  <2>3. orgs' \in [Orgs -> {"new", "live", "gone"}]
    BY <1>0, <2>2 DEF SharedOK
  <2>4. PICK L, G : L = LiveOrgs /\ G = LiveOrgs'
    OBVIOUS
  <2>5. \A x \in L : x # o => x \in G
    BY <1>0, <2>2, <2>4 DEF SharedOK, LiveOrgs
  <2>6. members' \subseteq G \X Users
    BY <1>0, <2>2, <2>4, <2>5 DEF SharedOK
  <2>7. dists' \subseteq dists /\ admins' \subseteq admins
    BY <2>2 DEF Cascades
  <2> QED
    BY <1>0, <2>2, <2>3, <2>4, <2>6, <2>7 DEF SharedOK
<1>3. CASE \E a \in Apps : AppDeleted(a)
  <2>1. PICK a \in Apps : AppDeleted(a)
    BY <1>3
  <2>2. /\ orgs' = orgs /\ apps' \subseteq apps /\ members' = members /\ Cascades /\ AtOnce
    BY <2>1 DEF AppDeleted
  <2>3. dists' \subseteq dists /\ admins' \subseteq admins
    BY <2>2 DEF Cascades
  <2> QED
    BY <1>0, <2>2, <2>3 DEF SharedOK, LiveOrgs
<1>4. CASE \E o \in Orgs, u \in Users : MemberJoins(o, u)
  <2>1. PICK o \in Orgs, u \in Users : MemberJoins(o, u)
    BY <1>4
  <2>2. /\ o \in LiveOrgs /\ members' = members \cup {<<o, u>>} /\ AtOnce
        /\ UNCHANGED <<orgs, apps, dists, admins>>
    BY <2>1 DEF MemberJoins
  <2>3. members' \subseteq LiveOrgs \X Users
    BY <1>0, <2>2 DEF SharedOK
  <2> QED
    BY <1>0, <2>2, <2>3, SharedKept DEF SharedOK
<1>5. CASE \E o \in Orgs, u \in Users : MemberLeaves(o, u)
  BY <1>0, <1>5, SharedKept DEF MemberLeaves, SharedOK
<1>6. CASE \E a \in Apps, o \in Orgs, u \in Users : RemoveAppAdmin(a, o, u)
  BY <1>0, <1>6, SharedKept DEF RemoveAppAdmin, SharedOK
<1> QED
  BY <1>1, <1>2, <1>3, <1>4, <1>5, <1>6 DEF Around

LEMMA StepsShared ==
    ASSUME IInv, DataInv, NEW p \in Procs, SharingStep(p)
    PROVE  SharedOK'
<1>0. SharedOK
  BY DEF DataInv
<1>1. PICK x, y : x = proc[p].app /\ y = proc[p].org
  OBVIOUS
<1>2. CASE UpdateOrgSave(p)
  <2>1. ~At(p, "idle") /\ orgs' = [orgs EXCEPT ![y] = "live"]
        /\ UNCHANGED <<apps, members, dists, admins>>
    BY <1>1, <1>2 DEF UpdateOrgSave, At
  <2> QED
    BY <1>0, <1>1, <2>1, Somewhere, LiveGrows
<1>3. CASE CreateDistribution(p)
  <2>1. /\ ~At(p, "idle") /\ proc[p].pc = "distribute" /\ y # Provider
        /\ dists' = dists \cup {<<x, y>>} /\ UNCHANGED <<orgs, apps, members, admins>>
    BY <1>1, <1>3 DEF CreateDistribution, Pair, At, DataInv, DataLocal
  <2>3. x \in Apps /\ y \in Orgs
    BY <1>1, <2>1, Somewhere DEF LocalOK, SharingLabels
  <2>2. dists' \subseteq Apps \X (Orgs \ {Provider})
    BY <1>0, <2>1, <2>3 DEF SharedOK
  <2> QED
    BY <1>0, <2>1, <2>2, SharedKept DEF SharedOK
<1>4. CASE UndistributeNext(p)
  BY <1>0, <1>4, SharedKept DEF UndistributeNext, SharedOK
<1>5. CASE CreateAdmin(p)
  <2>1. /\ ~At(p, "idle") /\ proc[p].pc = "appoint"
        /\ admins' = admins \cup ({x} \X {y} \X proc[p].users)
        /\ UNCHANGED <<orgs, apps, members, dists>>
    BY <1>1, <1>5 DEF CreateAdmin, At
  <2>2. proc[p].users \subseteq Users /\ x \in Apps /\ y \in Orgs
    BY <1>1, <2>1, Somewhere DEF LocalOK, SharingLabels
  <2>3. admins' \subseteq Apps \X Orgs \X Users
    BY <1>0, <2>1, <2>2 DEF SharedOK
  <2> QED
    BY <1>0, <2>1, <2>3, SharedKept DEF SharedOK
<1>6. CASE UndistributeList(p) \/ SetAdminMember(p) \/ SharingRefused(p)
  <2>1. UNCHANGED <<orgs, apps, members, dists, admins>>
    BY <1>6 DEF UndistributeList, SetAdminMember, SharingRefused, sharing
  <2> QED
    BY <1>0, <2>1, SharedKept DEF SharedOK
<1> QED
  BY <1>2, <1>3, <1>4, <1>5, <1>6 DEF SharingStep

\* A request that shares begins, goes on or ends; the tables stay.
LEMMA ShareStarts ==
    ASSUME IInv, DataInv, NEW p \in Procs, At(p, "idle"), UNCHANGED data,
           NEW label \in SharingLabels, NEW a, NEW o, NEW who,
           Starts(p, Work(label, a, o, who)), label = "distribute" => o # Provider,
           UNCHANGED <<orgs, apps, members, admins>>, dists' \subseteq dists
    PROVE  DataInv'
<1>1. PICK w : w = Work(label, a, o, who)
  OBVIOUS
<1>2. w.pc = label /\ w.org = o
  BY <1>1 DEF Work
<1>3. /\ proc'[p] = w /\ left' \in Nat
      /\ \A q \in Procs \ {p} : proc'[q] = Disturbed(q) /\ Kept(q)
  BY <1>1, StartsKeeps DEF IInv, DataInv
<1>4. SharedOK'
  BY SharedKept DEF DataInv, SharedOK
<1>5. proc[p].pc = "idle"
  BY DEF At
<1> QED
  BY <1>2, <1>3, <1>4, <1>5, SharingMove

LEMMA SharingRequestInv ==
    ASSUME IInv, DataInv, NEW p \in Procs, SharingRequest(p), UNCHANGED data
    PROVE  DataInv'
<1>0. {"saveOrg", "distribute", "listAdmins", "member"} \subseteq SharingLabels
  BY DEF SharingLabels
<1>1. \/ \E o \in Orgs : CreateOrg(o) \/ DeleteOrg(o)
      \/ \E a \in Apps, o \in Orgs, u \in Users : RemoveAppAdmin(a, o, u)
      \/ \E o \in Orgs : UpdateOrg(p, o)
      \/ \E a \in Apps, o \in Orgs :
            \/ DistributeApp(p, a, o) \/ UndistributeApp(p, a, o)
            \/ \E u \in Users : SetAppAdmin(p, a, o, u)
  BY DEF SharingRequest, ToolOrg, RouteOrg, ToolShare, RouteShare
<1>2. CASE \/ \E o \in Orgs : CreateOrg(o) \/ DeleteOrg(o)
           \/ \E a \in Apps, o \in Orgs, u \in Users : RemoveAppAdmin(a, o, u)
  BY <1>2, ChangesShared, SharingAtOnce
<1>3. CASE \E o \in Orgs : UpdateOrg(p, o)
  <2>1. PICK o \in Orgs : UpdateOrg(p, o)
    BY <1>3
  <2>2. /\ At(p, "idle") /\ Starts(p, Work("saveOrg", Nothing, o, {}))
        /\ UNCHANGED <<orgs, apps, members, admins>> /\ dists' = dists
    BY <2>1 DEF UpdateOrg, sharing
  <2> QED
    BY <1>0, <2>2, ShareStarts
<1>4. CASE \E a \in Apps, o \in Orgs : DistributeApp(p, a, o)
  <2>1. PICK a \in Apps, o \in Orgs : DistributeApp(p, a, o)
    BY <1>4
  <2>2. /\ At(p, "idle") /\ Starts(p, Work("distribute", a, o, {})) /\ o # Provider
        /\ UNCHANGED <<orgs, apps, members, admins>> /\ dists' = dists
    BY <2>1 DEF DistributeApp, sharing
  <2> QED
    BY <1>0, <2>2, ShareStarts
<1>5. CASE \E a \in Apps, o \in Orgs : UndistributeApp(p, a, o)
  <2>1. PICK a \in Apps, o \in Orgs : UndistributeApp(p, a, o)
    BY <1>5
  <2>2. /\ At(p, "idle") /\ Starts(p, Work("listAdmins", a, o, {}))
        /\ UNCHANGED <<orgs, apps, members, admins>> /\ dists' \subseteq dists
    BY <2>1 DEF UndistributeApp
  <2> QED
    BY <1>0, <2>2, ShareStarts
<1>6. CASE \E a \in Apps, o \in Orgs, u \in Users : SetAppAdmin(p, a, o, u)
  <2>1. PICK a \in Apps, o \in Orgs, u \in Users : SetAppAdmin(p, a, o, u)
    BY <1>6
  <2>2. /\ At(p, "idle") /\ Starts(p, Work("member", a, o, {u}))
        /\ UNCHANGED <<orgs, apps, members, admins>> /\ dists' = dists
    BY <2>1 DEF SetAppAdmin, sharing
  <2> QED
    BY <1>0, <2>2, ShareStarts
<1> QED
  BY <1>1, <1>2, <1>3, <1>4, <1>5, <1>6

LEMMA SharingStepInv ==
    ASSUME IInv, IInv', DataInv, NEW p \in Procs, SharingStep(p), UNCHANGED data
    PROVE  DataInv'
<1>0. /\ LocalsOK /\ left \in Nat /\ LocalsOK'
      /\ {"appoint", "dismiss"} \subseteq SharingLabels /\ Idle.pc = "idle"
  BY DEF IInv, DataInv, SharingLabels, Idle
<1>1. /\ ~At(p, "idle") /\ proc[p].pc \in SharingLabels
  BY DEF SharingStep, UpdateOrgSave, CreateDistribution, UndistributeList, UndistributeNext,
         SetAdminMember, CreateAdmin, SharingRefused, At, SharingLabels
<1>2. LocalOK(proc[p])
  BY <1>1, Somewhere
<1>3. \/ Ends(p)
      \/ Continues(p, "appoint")
      \/ UNCHANGED left /\ \E who : proc' = [proc EXCEPT ![p].pc = "dismiss", ![p].users = who]
      \/ UNCHANGED left /\ \E who : proc' = [proc EXCEPT ![p].users = who] /\ At(p, "dismiss")
  <2>1. CASE UndistributeList(p)
    <3>1. PICK who : who = AdminsOf(proc[p].app, proc[p].org)
      OBVIOUS
    <3>2. \/ Ends(p)
          \/ UNCHANGED left /\ proc' = [proc EXCEPT ![p].pc = "dismiss", ![p].users = who]
      BY <2>1, <3>1, Zenon DEF UndistributeList
    <3> QED
      BY <3>2
  <2>2. CASE UndistributeNext(p)
    <3>1. PICK u, rest :
             /\ u \in proc[p].users /\ rest = Remaining(proc[p].users, u)
             /\ \/ Ends(p)
                \/ UNCHANGED left /\ proc' = [proc EXCEPT ![p].users = rest]
      BY <2>2, Zenon DEF UndistributeNext
    <3> QED
      BY <2>2, <3>1 DEF UndistributeNext
  <2>3. CASE \/ UpdateOrgSave(p) \/ CreateDistribution(p) \/ SetAdminMember(p)
             \/ CreateAdmin(p) \/ SharingRefused(p)
    BY <2>3 DEF UpdateOrgSave, CreateDistribution, SetAdminMember, CreateAdmin, SharingRefused
  <2> QED
    BY <2>1, <2>2, <2>3 DEF SharingStep
<1>4. /\ \A q \in Procs \ {p} : Kept(q)
      /\ left' \in Nat /\ proc'[p].pc \in {"idle", "appoint", "dismiss"}
  <2>1. CASE Ends(p)
    BY <1>0, <2>1, EndsKeeps
  <2>2. CASE Continues(p, "appoint")
    <3>1. PICK w, v : w = proc[p] /\ v = [w EXCEPT !.pc = "appoint"]
      OBVIOUS
    <3>2. proc' = [proc EXCEPT ![p] = v]
      BY <2>2, <3>1, Zenon DEF Continues
    <3>3. v.pc = "appoint"
      BY <1>2, <3>1 DEF LocalOK, RequestLike
    <3> QED
      BY <1>0, <2>2, <3>2, <3>3, MovesKeeps DEF Continues
  <2>3. ASSUME NEW who, proc' = [proc EXCEPT ![p].pc = "dismiss", ![p].users = who],
               UNCHANGED left
        PROVE  (\A q \in Procs \ {p} : Kept(q)) /\ left' \in Nat /\ proc'[p].pc = "dismiss"
    <3>1. PICK w, v : w = proc[p] /\ v = [w EXCEPT !.pc = "dismiss", !.users = who]
      OBVIOUS
    <3>2. v.pc = "dismiss"
      BY <1>2, <3>1 DEF LocalOK, RequestLike
    <3>3. proc'[p] = v /\ \A q \in Procs \ {p} : proc'[q] = proc[q]
      BY <1>0, <2>3, <3>1 DEF LocalsOK
    <3> QED
      BY <1>0, <2>3, <3>2, <3>3 DEF Kept
  <2>4. ASSUME NEW who, proc' = [proc EXCEPT ![p].users = who], UNCHANGED left,
               At(p, "dismiss")
        PROVE  (\A q \in Procs \ {p} : Kept(q)) /\ left' \in Nat /\ proc'[p].pc = "dismiss"
    <3>1. PICK w, v : w = proc[p] /\ v = [w EXCEPT !.users = who]
      OBVIOUS
    <3>2. v.pc = "dismiss"
      BY <1>2, <2>4, <3>1 DEF LocalOK, RequestLike, At
    <3>3. proc' = [proc EXCEPT ![p] = v]
      BY <2>4, <3>1, Zenon
    <3> QED
      BY <1>0, <2>4, <3>2, <3>3, MovesKeeps
  <2> QED
    BY <1>3, <2>1, <2>2, <2>3, <2>4
<1>5. proc'[p].pc \in SharingLabels \cup {"idle"} /\ proc'[p].pc # "distribute"
  BY <1>0, <1>4
<1> QED
  BY <1>1, <1>4, <1>5, StepsShared, SharingMove

-----------------------------------------------------------------------------
(***************************************************************************)
(* What the data service does.  First what its requests hold.              *)
(***************************************************************************)
LEMMA CallKnows ==
    ASSUME NEW label, NEW a, NEW o, NEW t, NEW v, v = Call(label, a, o, t)
    PROVE  /\ v.pc = label /\ v.app = a /\ v.org = o /\ v.table = t /\ v.more = 0
           /\ v.alone = (Busy = {})
<1>1. PICK w : w = Work(label, a, o, {})
  OBVIOUS
<1>2. v = [w EXCEPT !.table = t]
  BY <1>1 DEF Call
<1>3. w = [pc |-> label, app |-> a, org |-> o, users |-> {}, table |-> Nothing,
           cols |-> {}, then |-> "", row |-> 0, more |-> 0, alone |-> Busy = {}]
  BY <1>1 DEF Work
<1> QED
  BY <1>2, <1>3

LEMMA OperationKnows ==
    ASSUME NEW then \in Operations, NEW a \in Apps, NEW o \in Orgs, NEW t \in Tables, NEW i,
           NEW v, v = Operation(then, a, o, t, i)
    PROVE  v.app = a /\ v.org = o /\ v.table = t /\ v.more = 0
<1>0. "metadata" \in DataLabels
  BY DEF DataLabels
<1>1. PICK w : w = Call("metadata", a, o, t)
  OBVIOUS
<1>2. v = [w EXCEPT !.then = then, !.row = i]
  BY <1>1 DEF Operation
<1>3. w \in RequestLike(w)
  BY <1>0, <1>1, CallOK
<1>4. w.app = a /\ w.org = o /\ w.table = t /\ w.more = 0
  BY <1>1 DEF Call, Work
<1> QED
  BY <1>2, <1>3, <1>4 DEF RequestLike

\* A request of the data service goes on: only where it is changes.
LEMMA GoesOn ==
    ASSUME IInv, DataInv, NEW p \in Procs, ~At(p, "idle"), NEW label, Continues(p, label)
    PROVE  /\ proc'[p] = [proc[p] EXCEPT !.pc = label] /\ proc'[p].pc = label
           /\ proc'[p].app = proc[p].app /\ proc'[p].org = proc[p].org
           /\ proc'[p].table = proc[p].table /\ proc'[p].cols = proc[p].cols
           /\ proc'[p].more = proc[p].more /\ proc'[p].alone = proc[p].alone
           /\ Name(p)' = Name(p) /\ Entry(p)' = Entry(p)
           /\ left' \in Nat /\ \A q \in Procs \ {p} : Kept(q)
<1>1. PICK w, v : w = proc[p] /\ v = [w EXCEPT !.pc = label]
  OBVIOUS
<1>2. w \in RequestLike(w)
  BY <1>1, Somewhere DEF LocalOK
<1>3. /\ v.pc = label /\ v.app = w.app /\ v.org = w.org /\ v.table = w.table
      /\ v.cols = w.cols /\ v.more = w.more /\ v.alone = w.alone
  BY <1>1, <1>2 DEF RequestLike
<1>4. proc' = [proc EXCEPT ![p] = v] /\ left' = left
  BY <1>1, Zenon DEF Continues
<1>5. proc'[p] = v /\ \A q \in Procs \ {p} : Kept(q)
  BY <1>4, MovesKeeps DEF IInv
<1> QED
  BY <1>1, <1>3, <1>4, <1>5 DEF Name, Entry, DataInv

\* A batch goes on.
LEMMA GoesOnInserting ==
    ASSUME IInv, DataInv, NEW p \in Procs, ~At(p, "idle"),
           proc' = [proc EXCEPT ![p].more = @ - 1]
    PROVE  /\ proc'[p].pc = proc[p].pc /\ proc'[p].more = proc[p].more - 1
           /\ proc'[p].app = proc[p].app /\ proc'[p].org = proc[p].org
           /\ proc'[p].table = proc[p].table
           /\ \A q \in Procs \ {p} : Kept(q)
<1>1. PICK w, v : w = proc[p] /\ v = [w EXCEPT !.more = w.more - 1]
  OBVIOUS
<1>2. w \in RequestLike(w)
  BY <1>1, Somewhere DEF LocalOK
<1>3. /\ v.pc = w.pc /\ v.app = w.app /\ v.org = w.org /\ v.table = w.table
      /\ v.more = w.more - 1
  BY <1>1, <1>2 DEF RequestLike
<1>4. proc' = [proc EXCEPT ![p] = v]
  BY <1>1, Zenon
<1>5. proc'[p] = v /\ \A q \in Procs \ {p} : Kept(q)
  BY <1>4, MovesKeeps DEF IInv
<1> QED
  BY <1>1, <1>3, <1>5

\* Names of tables in the database.
LEMMA ToPhysical == \A a \in Apps, t \in Tables : Physical(a, t) \in PhysicalNames
BY DEF PhysicalNames, Physical

LEMMA FromPhysical ==
    ASSUME NEW n \in PhysicalNames
    PROVE  \E a \in Apps, t \in Tables : n = Physical(a, t)
BY DEF PhysicalNames, Physical

\* Where a request of the data service is, and of what.
LEMMA DataSomewhere ==
    ASSUME IInv, DataInv, NEW p \in Procs, proc[p].pc \in DataLabels
    PROVE  /\ ~At(p, "idle") /\ proc[p].more \in Nat
           /\ proc[p].app \in Apps /\ proc[p].org \in Orgs /\ proc[p].table \in Tables
           /\ Name(p) \in PhysicalNames /\ Entry(p) \in Apps \X Orgs \X Tables
           /\ proc[p].then \in Operations \/ proc[p].pc \notin {"authorize", "metadata"}
<1>1. ~At(p, "idle")
  BY DEF At, DataLabels, Operations
<1>2. proc[p].org \in Orgs /\ LocalOK(proc[p])
  BY <1>1, Somewhere
<1>3. proc[p].app \in Apps /\ proc[p].table \in Tables /\ proc[p].more \in Nat
  BY DEF DataInv, DataLocal
<1>4. Name(p) \in PhysicalNames
  BY <1>3, ToPhysical DEF Name
<1> QED
  BY <1>1, <1>2, <1>3, <1>4 DEF Entry, LocalOK

\* A request that is alone, and its table: described once, or of its making.
LEMMA AloneKnows ==
    ASSUME IInv, DataInv, NEW p \in Procs, Alone(p), proc[p].pc \notin Making,
           Name(p) \in PhysicalNames \ marred
    PROVE  Agree(Name(p))
<1>1. \A q \in Procs \ {p} : At(q, "idle")
  BY DEF IInv, Undisturbed, Alone
<1>2. \A q \in Procs : ~Makes(q, Name(p))
  BY <1>1 DEF Makes, Making, At
<1> QED
  BY <1>2 DEF DataInv, Agreed

\* Entries of other tables are other entries.
LEMMA OtherTables ==
    ASSUME NEW n, NEW e, Physical(e[1], e[3]) # n
    PROVE  /\ DOMAIN described' = DOMAIN described \cup {e} => EntriesOf(n)' = EntriesOf(n)
           /\ DOMAIN described' = DOMAIN described \ {e} => EntriesOf(n)' = EntriesOf(n)
BY DEF EntriesOf

LEMMA AgreeKept ==
    ASSUME NEW n, Agree(n), EntriesOf(n)' = EntriesOf(n),
           \A e \in EntriesOf(n) : described'[e] = described[e],
           n \in DOMAIN stored' <=> n \in DOMAIN stored,
           n \in DOMAIN stored => stored[n].cols \subseteq stored'[n].cols
    PROVE  Agree(n)'
<1>1. PICK S : S = EntriesOf(n)
  OBVIOUS
<1>2. PICK T : T = EntriesOf(n)'
  OBVIOUS
<1>3. PICK f, g : f = described' /\ g = stored'
  OBVIOUS
<1>4. /\ n \in DOMAIN g <=> T # {}
      /\ \A e \in T : f[e] \subseteq g[n].cols
      /\ \A e1, e2 \in T : e1 = e2
  BY <1>1, <1>2, <1>3 DEF Agree
<1> QED
  BY <1>2, <1>3, <1>4 DEF Agree

-----------------------------------------------------------------------------
\* What becomes of the tables: one comes, goes or changes.
LEMMA TableComes ==
    ASSUME StoreOK, NEW n \in PhysicalNames, NEW tab, TableOK(tab),
           stored' = With(stored, n, tab), described' = described
    PROVE  StoreOK' /\ DOMAIN stored' = DOMAIN stored \cup {n} /\ stored'[n] = tab
           /\ \A m : m # n /\ Agree(m) => Agree(m)'
<1>1. PICK g : g = stored'
  OBVIOUS
<1>2. /\ DOMAIN g = DOMAIN stored \cup {n} /\ g[n] = tab /\ g = [m \in DOMAIN g |-> g[m]]
      /\ \A m \in DOMAIN stored : m # n => g[m] = stored[m]
  BY <1>1 DEF With
<1>3. \A m \in DOMAIN g : TableOK(g[m])
  BY <1>2 DEF StoreOK
<1>4. StoreOK'
  BY <1>1, <1>2, <1>3 DEF StoreOK
<1>5. \A m : m # n /\ Agree(m) => Agree(m)'
  BY <1>1, <1>2 DEF Agree, EntriesOf
<1> QED
  BY <1>1, <1>2, <1>4, <1>5

LEMMA TableGoes ==
    ASSUME StoreOK, NEW n, stored' = Less(stored, n), described' = described
    PROVE  StoreOK' /\ DOMAIN stored' = DOMAIN stored \ {n}
           /\ \A m : m # n /\ Agree(m) => Agree(m)'
<1>1. PICK g : g = stored'
  OBVIOUS
<1>2. /\ DOMAIN g = DOMAIN stored \ {n} /\ g = [m \in DOMAIN g |-> g[m]]
      /\ \A m \in DOMAIN g : g[m] = stored[m]
  BY <1>1 DEF Less
<1>3. \A m \in DOMAIN g : TableOK(g[m])
  BY <1>2 DEF StoreOK
<1>4. StoreOK'
  BY <1>1, <1>2, <1>3 DEF StoreOK
<1>5. \A m : m # n /\ Agree(m) => Agree(m)'
  BY <1>1, <1>2 DEF Agree, EntriesOf
<1> QED
  BY <1>1, <1>2, <1>4, <1>5

LEMMA TableChanges ==
    ASSUME StoreOK, NEW n \in DOMAIN stored, NEW tab, TableOK(tab),
           stored[n].cols \subseteq tab.cols,
           stored' = [stored EXCEPT ![n] = tab], described' = described
    PROVE  StoreOK' /\ \A m : Agree(m) => Agree(m)'
<1>1. PICK g : g = stored'
  OBVIOUS
<1>2. /\ DOMAIN g = DOMAIN stored /\ g[n] = tab /\ g = [m \in DOMAIN g |-> g[m]]
      /\ \A m \in DOMAIN stored : m # n => g[m] = stored[m]
  BY <1>1 DEF StoreOK
<1>3. \A m \in DOMAIN g : TableOK(g[m])
  BY <1>2 DEF StoreOK
<1>4. StoreOK'
  BY <1>1, <1>2, <1>3 DEF StoreOK
<1>5. \A m : Agree(m) => Agree(m)'
  BY <1>1, <1>2 DEF Agree, EntriesOf
<1> QED
  BY <1>1, <1>4, <1>5

LEMMA TableAltered ==
    ASSUME StoreOK, NEW n \in DOMAIN stored, NEW tab, TableOK(tab),
           stored' = [stored EXCEPT ![n] = tab], described' = described
    PROVE  StoreOK' /\ \A m : m # n /\ Agree(m) => Agree(m)'
<1>1. PICK g : g = stored'
  OBVIOUS
<1>2. /\ DOMAIN g = DOMAIN stored /\ g[n] = tab /\ g = [m \in DOMAIN g |-> g[m]]
      /\ \A m \in DOMAIN stored : m # n => g[m] = stored[m]
  BY <1>1 DEF StoreOK
<1>3. \A m \in DOMAIN g : TableOK(g[m])
  BY <1>2 DEF StoreOK
<1>4. StoreOK'
  BY <1>1, <1>2, <1>3 DEF StoreOK
<1>5. \A m : m # n /\ Agree(m) => Agree(m)'
  BY <1>1, <1>2 DEF Agree, EntriesOf
<1> QED
  BY <1>1, <1>4, <1>5

\* What a statement leaves is a table again.
LEMMA RowsChange ==
    ASSUME NEW s, TableOK(s), NEW rows \in SUBSET RowType, NEW tab,
           tab = [s EXCEPT !.rows = rows],
           \A r \in rows : r.id <= s.serial,
           \A r1, r2 \in rows : r1.id = r2.id => r1 = r2
    PROVE  TableOK(tab) /\ tab.cols = s.cols /\ tab.rows = rows /\ tab.serial = s.serial
BY DEF TableOK

LEMMA ColumnsChange ==
    ASSUME NEW s, TableOK(s), NEW cols, NEW tab, tab = [s EXCEPT !.cols = cols]
    PROVE  TableOK(tab) /\ tab.cols = cols /\ tab.rows = s.rows
BY DEF TableOK

LEMMA RowsGo ==
    ASSUME NEW s, TableOK(s), NEW rows \in SUBSET s.rows, NEW tab,
           tab = [s EXCEPT !.rows = rows]
    PROVE  TableOK(tab) /\ tab.cols = s.cols /\ tab.rows = rows
<1>1. /\ rows \in SUBSET RowType /\ \A r \in rows : r.id <= s.serial
      /\ \A r1, r2 \in rows : r1.id = r2.id => r1 = r2
  BY DEF TableOK
<1> QED
  BY <1>1, RowsChange

\* An id of its own.
WithRow(s, o) ==
    [s EXCEPT !.serial = s.serial + 1, !.rows = @ \cup {Row(s.serial + 1, o)}]

LEMMA RowComes ==
    ASSUME NEW s, TableOK(s), NEW o \in Orgs
    PROVE  /\ TableOK(WithRow(s, o)) /\ WithRow(s, o).cols = s.cols
           /\ WithRow(s, o).rows = s.rows \cup {Row(s.serial + 1, o)}
<1>1. PICK i, r, tab : i = s.serial + 1 /\ r = Row(i, o) /\ tab = WithRow(s, o)
  OBVIOUS
<1>2. /\ s.serial \in Nat /\ s.rows \in SUBSET RowType
      /\ \A q \in s.rows : q.id \in Nat /\ q.id <= s.serial
  BY DEF TableOK, RowType
<1>3. r \in RowType /\ r.id = i
  BY <1>1, <1>2 DEF Row, RowType
<1>4. PICK R : R = s.rows \cup {r}
  OBVIOUS
<1>5. tab.cols = s.cols /\ tab.rows = R /\ tab.serial = i
      /\ tab = [cols |-> s.cols, rows |-> R, serial |-> i]
  BY <1>1, <1>4 DEF TableOK, WithRow
<1>6. R \in SUBSET RowType /\ i \in Nat /\ \A q \in R : q.id <= i
  BY <1>1, <1>2, <1>3, <1>4
<1>7. \A q1, q2 \in R : q1.id = q2.id => q1 = q2
  <2> SUFFICES ASSUME NEW q1 \in R, NEW q2 \in R, q1.id = q2.id PROVE q1 = q2
    OBVIOUS
  <2>1. \A q \in s.rows : q.id # i
    BY <1>1, <1>2
  <2>2. CASE q1 \in s.rows /\ q2 \in s.rows
    BY <2>2 DEF TableOK
  <2> QED
    BY <1>3, <1>4, <2>1, <2>2
<1>8. TableOK(tab)
  BY <1>5, <1>6, <1>7 DEF TableOK
<1> QED
  BY <1>1, <1>4, <1>5, <1>8

\* Whose a row is does not change.
Touched(p, r) == IF Matching(p, r) THEN [r EXCEPT !.updated = TRUE] ELSE r
TouchedAll(p, s) == [s EXCEPT !.rows = {Touched(p, r) : r \in s.rows}]

LEMMA RowsUpdated ==
    ASSUME NEW s, TableOK(s), NEW p
    PROVE  /\ TableOK(TouchedAll(p, s)) /\ TouchedAll(p, s).cols = s.cols
           /\ TouchedAll(p, s).rows = {Touched(p, r) : r \in s.rows}
<1>1. \A r \in s.rows :
         Touched(p, r) \in RowType /\ Touched(p, r).id = r.id /\ r.id <= s.serial
  BY DEF TableOK, RowType, Touched
<1>2. PICK rows : rows = {Touched(p, r) : r \in s.rows}
  OBVIOUS
<1>3. rows \in SUBSET RowType /\ \A q \in rows : q.id <= s.serial
  BY <1>1, <1>2
<1>4. \A q1, q2 \in rows : q1.id = q2.id => q1 = q2
  <2> SUFFICES ASSUME NEW q1 \in rows, NEW q2 \in rows, q1.id = q2.id PROVE q1 = q2
    OBVIOUS
  <2>1. PICK r1 \in s.rows, r2 \in s.rows : q1 = Touched(p, r1) /\ q2 = Touched(p, r2)
    BY <1>2
  <2>2. r1 = r2
    BY <1>1, <2>1 DEF TableOK
  <2> QED
    BY <2>1, <2>2
<1>5. PICK tab : tab = [s EXCEPT !.rows = rows]
  OBVIOUS
<1>6. TableOK(tab) /\ tab.cols = s.cols /\ tab.rows = rows
  BY <1>3, <1>4, <1>5 DEF TableOK
<1>7. TouchedAll(p, s) = tab
  BY <1>2, <1>5 DEF TouchedAll
<1> QED
  BY <1>2, <1>6, <1>7

-----------------------------------------------------------------------------
\* The requests.
LEMMA CreateTableInv ==
    ASSUME IInv, DataInv, NEW p \in Procs, NEW a \in Apps, NEW o \in Orgs, NEW t \in Tables,
           NEW cols, CreateTable(p, a, o, t, cols)
    PROVE  DataInv'
<1>1. PICK n, w, v : /\ n = Physical(a, t) /\ w = Call("describe", a, o, t)
                     /\ v = [w EXCEPT !.cols = cols]
  OBVIOUS
<1>2. w \in RequestLike(w) /\ "describe" \in DataLabels
  BY <1>1, CallOK DEF DataLabels
<1>0. n \in PhysicalNames
  BY <1>1, ToPhysical
<1>3. /\ w.pc = "describe" /\ w.app = a /\ w.org = o /\ w.table = t /\ w.more = 0
      /\ w.alone = (Busy = {})
  BY <1>1, CallKnows
<1>4. /\ v.pc = "describe" /\ v.app = a /\ v.org = o /\ v.table = t /\ v.more = 0
      /\ v.cols = cols /\ v.alone = (Busy = {})
  BY <1>1, <1>2, <1>3 DEF RequestLike
<1>5. /\ At(p, "idle") /\ Starts(p, v) /\ described' = described /\ UNCHANGED sharing
      /\ stored' = IF n \in DOMAIN stored THEN stored ELSE With(stored, n, Table(cols))
      /\ marred' = IF n \in DOMAIN stored THEN marred \cup {n} ELSE marred
  BY <1>1 DEF CreateTable
<1>6. /\ proc'[p] = v /\ left' \in Nat
      /\ \A q \in Procs \ {p} : proc'[q] = Disturbed(q) /\ Kept(q)
  BY <1>5, StartsKeeps DEF IInv, DataInv
<1>7. SharedOK' /\ marred \subseteq marred'
  BY <1>5 DEF DataInv, SharedOK, LiveOrgs, sharing
<1>8. DataLocal(v) /\ Makes(p, n)' /\ Name(p)' = n /\ \A m : ~Makes(p, m)
  BY <1>1, <1>4, <1>5, <1>6 DEF DataLocal, Makes, Making, Name, At
<1>9. StoreOK'
  <2>1. CASE n \in DOMAIN stored
    BY <1>5, <2>1 DEF DataInv, StoreOK
  <2>2. CASE n \notin DOMAIN stored
    <3>1. TableOK(Table(cols))
      BY DEF TableOK, Table
    <3>2. n \in PhysicalNames
      BY <1>0
    <3> QED
      BY <1>5, <2>2, <3>1, <3>2, TableComes DEF DataInv
  <2> QED
    BY <2>1, <2>2
<1>10. \A m : m # n /\ Agree(m) => Agree(m)'
  <2>1. CASE n \in DOMAIN stored
    BY <1>5, <2>1 DEF Agree, EntriesOf
  <2>2. CASE n \notin DOMAIN stored
    <3>1. TableOK(Table(cols))
      BY DEF TableOK, Table
    <3>2. n \in PhysicalNames
      BY <1>0
    <3> QED
      BY <1>5, <2>2, <3>1, <3>2, TableComes DEF DataInv
  <2> QED
    BY <2>1, <2>2
<1>11. Careful(p)'
  <2> SUFFICES ASSUME Alone(p)', n \notin marred' PROVE Careful(p)'
    BY <1>8 DEF Careful
  <2>1. Busy = {}
    BY <1>4, <1>6 DEF Alone
  <2>2. n \notin DOMAIN stored /\ n \notin marred
    BY <1>5
  <2>3. \A q \in Procs : ~Makes(q, n)
    BY <2>1 DEF Busy, Makes, Making, At
  <2>4. Agree(n)
    BY <1>0, <2>2, <2>3 DEF DataInv, Agreed
  <2>5. EntriesOf(n)' = {}
    BY <1>5, <2>2, <2>4 DEF Agree, EntriesOf
  <2>6. n \in DOMAIN stored' /\ stored'[n] = Table(cols)
    BY <1>5, <2>2 DEF With
  <2>7. cols \subseteq stored'[n].cols
    BY <2>6 DEF Table
  <2> QED
    BY <1>4, <1>6, <1>8, <2>5, <2>6, <2>7 DEF Careful, At
<1>12. \A m \in PhysicalNames \ marred' :
          /\ Agree(m) => Agree(m)' \/ \E q \in Procs : Makes(q, m)'
          /\ Makes(p, m) => Makes(p, m)' \/ Agree(m)'
  BY <1>8, <1>10
<1> QED
  BY <1>5, <1>6, <1>7, <1>8, <1>9, <1>11, <1>12, DataInvStep

\* Requests that begin with the description, or with a question.
LEMMA BeginsInv ==
    ASSUME IInv, DataInv, NEW p \in Procs, NEW v, Begins(p, v),
           v.pc \in {"metadata", "authorize"},
           v.app \in Apps, v.table \in Tables, v.more \in Nat
    PROVE  DataInv'
<1>1. At(p, "idle") /\ Starts(p, v) /\ UNCHANGED sharing /\ UNCHANGED data
  BY DEF Begins
<1>2. /\ proc'[p] = v /\ left' \in Nat
      /\ \A q \in Procs \ {p} : proc'[q] = Disturbed(q) /\ Kept(q)
  BY <1>1, StartsKeeps DEF IInv, DataInv
<1>3. SharedOK' /\ StoreOK' /\ marred' = marred /\ \A n : Agree(n) => Agree(n)'
  BY <1>1, DataStays DEF DataInv, SharedOK, LiveOrgs, sharing
<1>4. DataLocal(v) /\ \A n : ~Makes(p, n)
  BY <1>1 DEF DataLocal, Makes, Making, At
<1>5. Careful(p)'
  BY <1>2 DEF Careful, At
<1> QED
  BY <1>1, <1>2, <1>3, <1>4, <1>5, DataInvStep

LEMMA OperationInv ==
    ASSUME IInv, DataInv, NEW p \in Procs, NEW a \in Apps, NEW o \in Orgs, NEW t \in Tables,
           NEW then \in Operations, NEW i, NEW c, NEW who,
           \/ Begins(p, Operation(then, a, o, t, i))
           \/ Begins(p, [Operation(then, a, o, t, i) EXCEPT !.cols = c])
           \/ Begins(p, [Operation(then, a, o, t, i) EXCEPT !.more = 1])
           \/ Begins(p, [Operation(then, a, o, t, i) EXCEPT !.pc = "authorize", !.users = who])
    PROVE  DataInv'
<1>1. PICK w : w = Operation(then, a, o, t, i)
  OBVIOUS
<1>2. w \in RequestLike(w) /\ w.pc = "metadata"
  BY <1>1, OperationOK
<1>3. w.app = a /\ w.table = t /\ w.more = 0
  BY <1>1, OperationKnows
<1>4. PICK v : /\ Begins(p, v)
              /\ \/ v = w
                 \/ v = [w EXCEPT !.cols = c]
                 \/ v = [w EXCEPT !.more = 1]
                 \/ v = [w EXCEPT !.pc = "authorize", !.users = who]
  BY <1>1
<1>5. /\ v.pc \in {"metadata", "authorize"}
      /\ v.app \in Apps /\ v.table \in Tables /\ v.more \in Nat
  <2>1. CASE v = w
    BY <1>2, <1>3, <2>1
  <2>2. CASE v = [w EXCEPT !.cols = c]
    BY <1>2, <1>3, <2>2 DEF RequestLike
  <2>3. CASE v = [w EXCEPT !.more = 1]
    BY <1>2, <1>3, <2>3 DEF RequestLike
  <2>4. CASE v = [w EXCEPT !.pc = "authorize", !.users = who]
    BY <1>2, <1>3, <2>4 DEF RequestLike
  <2> QED
    BY <1>4, <2>1, <2>2, <2>3, <2>4
<1> QED
  BY <1>4, <1>5, BeginsInv

\* A row changes hands: its id stays.
LEMMA RowRewritten ==
    ASSUME NEW s, TableOK(s), NEW o \in Orgs, NEW r \in s.rows, NEW v,
           v = [r EXCEPT !.org = o, !.updated = TRUE], NEW rows, rows = (s.rows \ {r}) \cup {v}
    PROVE  /\ rows \in SUBSET RowType /\ \A q \in rows : q.id <= s.serial
           /\ \A q1, q2 \in rows : q1.id = q2.id => q1 = q2
<1>1. r \in RowType /\ s.rows \in SUBSET RowType
  BY DEF TableOK
<1>2. v \in RowType /\ v.id = r.id
  BY <1>1 DEF RowType
<1>3. rows \in SUBSET RowType /\ \A q \in rows : q.id <= s.serial
  BY <1>1, <1>2 DEF TableOK
<1>4. \A q1, q2 \in rows : q1.id = q2.id => q1 = q2
  <2>1. \A q \in s.rows : q.id = r.id => q = r
    BY DEF TableOK
  <2>2. \A q1, q2 \in s.rows : q1.id = q2.id => q1 = q2
    BY DEF TableOK
  <2> QED
    BY <1>2, <2>1, <2>2
<1> QED
  BY <1>3, <1>4

LEMMA ExecRawInv ==
    ASSUME IInv, DataInv, NEW n \in PhysicalNames, ExecRaw(n)
    PROVE  DataInv'
<1>1. /\ UNCHANGED sharing /\ described' = described /\ AtOnce /\ StoreOK
      /\ Defines(n) \/ Manipulates(n)
  BY DEF ExecRaw, DataInv
<1>2. SharedOK'
  BY <1>1 DEF DataInv, SharedOK, LiveOrgs, sharing
<1>3. PICK s : s = stored[n]
  OBVIOUS
<1>4. n \in DOMAIN stored => TableOK(s)
  BY <1>1, <1>3 DEF StoreOK
<1>5. CASE Defines(n)
  <2>1. marred \subseteq marred' /\ n \in marred'
    BY <1>5 DEF Defines
  <2>2. StoreOK' /\ \A m : m # n /\ Agree(m) => Agree(m)'
    <3>1. ASSUME NEW cols, stored' = With(stored, n, Table(cols))
          PROVE  StoreOK' /\ \A m : m # n /\ Agree(m) => Agree(m)'
      <4>1. TableOK(Table(cols))
        BY DEF TableOK, Table
      <4> QED
        BY <1>1, <3>1, <4>1, TableComes
    <3>2. ASSUME NEW cols, n \in DOMAIN stored, stored' = [stored EXCEPT ![n].cols = cols]
          PROVE  StoreOK' /\ \A m : m # n /\ Agree(m) => Agree(m)'
      <4>1. PICK tab : tab = [s EXCEPT !.cols = cols]
        OBVIOUS
      <4>2. stored' = [stored EXCEPT ![n] = tab]
        BY <1>3, <3>2, <4>1, Zenon
      <4>3. TableOK(tab)
        BY <1>4, <3>2, <4>1, ColumnsChange
      <4> QED
        BY <1>1, <3>2, <4>2, <4>3, TableAltered
    <3>3. CASE stored' = Less(stored, n)
      BY <1>1, <3>3, TableGoes
    <3> QED
      BY <1>5, <3>1, <3>2, <3>3 DEF Defines
  <2> QED
    BY <1>1, <1>2, <2>1, <2>2, AtOnceInvStep
<1>6. CASE Manipulates(n)
  <2>1. marred' = marred /\ n \in DOMAIN stored
    BY <1>6 DEF Manipulates
  <2>2. PICK tab : TableOK(tab) /\ tab.cols = s.cols /\ stored' = [stored EXCEPT ![n] = tab]
    <3>1. ASSUME NEW gone \in SUBSET s.rows, stored' = [stored EXCEPT ![n].rows = @ \ gone]
          PROVE  \E tab : TableOK(tab) /\ tab.cols = s.cols /\ stored' = [stored EXCEPT ![n] = tab]
      <4>1. PICK rows, tab : rows = s.rows \ gone /\ tab = [s EXCEPT !.rows = rows]
        OBVIOUS
      <4>2. stored' = [stored EXCEPT ![n] = tab]
        BY <1>3, <3>1, <4>1, Zenon
      <4>3. TableOK(tab) /\ tab.cols = s.cols
        BY <1>4, <2>1, <4>1, RowsGo
      <4> QED
        BY <4>2, <4>3
    <3>2. ASSUME NEW o \in Orgs, NEW r \in s.rows,
                 stored' = [stored EXCEPT ![n].rows =
                              (@ \ {r}) \cup {[r EXCEPT !.org = o, !.updated = TRUE]}]
          PROVE  \E tab : TableOK(tab) /\ tab.cols = s.cols /\ stored' = [stored EXCEPT ![n] = tab]
      <4>1. PICK v, rows, tab : /\ v = [r EXCEPT !.org = o, !.updated = TRUE]
                                /\ rows = (s.rows \ {r}) \cup {v}
                                /\ tab = [s EXCEPT !.rows = rows]
        OBVIOUS
      <4>2. stored' = [stored EXCEPT ![n] = tab]
        BY <1>3, <3>2, <4>1, Zenon
      <4>3. TableOK(s)
        BY <1>4, <2>1
      <4>4. /\ rows \in SUBSET RowType /\ \A q \in rows : q.id <= s.serial
            /\ \A q1, q2 \in rows : q1.id = q2.id => q1 = q2
        BY <4>1, <4>3, RowRewritten
      <4>5. TableOK(tab) /\ tab.cols = s.cols
        <5>1. tab = [s EXCEPT !.rows = rows]
          BY <4>1
        <5> QED
          BY <4>3, <4>4, <5>1 DEF TableOK
      <4> QED
        BY <4>2, <4>5
    <3>3. ASSUME NEW o \in Orgs,
                 stored' = [stored EXCEPT ![n].serial = s.serial + 1,
                                          ![n].rows = @ \cup {Row(s.serial + 1, o)}]
          PROVE  \E tab : TableOK(tab) /\ tab.cols = s.cols /\ stored' = [stored EXCEPT ![n] = tab]
      <4>1. PICK tab : tab = WithRow(s, o)
        OBVIOUS
      <4>2. stored' = [stored EXCEPT ![n] = tab]
        BY <1>3, <2>1, <3>3, <4>1 DEF WithRow
      <4>3. TableOK(tab) /\ tab.cols = s.cols
        BY <1>4, <2>1, <4>1, RowComes
      <4> QED
        BY <4>2, <4>3
    <3> QED
      BY <1>3, <1>6, <3>1, <3>2, <3>3, Zenon DEF Manipulates
  <2>3. StoreOK' /\ \A m : Agree(m) => Agree(m)'
    BY <1>1, <1>3, <2>1, <2>2, TableChanges
  <2> QED
    BY <1>1, <1>2, <2>1, <2>3, AtOnceInvStep
<1> QED
  BY <1>1, <1>5, <1>6

LEMMA DataRequestInv ==
    ASSUME IInv, DataInv, NEW p \in Procs, DataRequest(p)
    PROVE  DataInv'
<1> DEFINE Op(then, a, o, t, i) == Operation(then, a, o, t, i)
<1>1. /\ "drop" \in Operations /\ "addColumn" \in Operations /\ "insert" \in Operations
      /\ "update" \in Operations /\ "delete" \in Operations
  BY DEF Operations
<1>2. ASSUME NEW a \in Apps, NEW o \in Orgs, NEW t \in Tables, NEW then \in Operations, NEW i,
             Begins(p, Op(then, a, o, t, i))
      PROVE  DataInv'
  BY <1>2, OperationInv
<1>3. ASSUME NEW a \in Apps, NEW o \in Orgs, NEW t \in Tables, NEW c,
             Begins(p, [Op("addColumn", a, o, t, 0) EXCEPT !.cols = c])
      PROVE  DataInv'
  BY <1>1, <1>3, OperationInv
<1>4. ASSUME NEW a \in Apps, NEW o \in Orgs, NEW t \in Tables,
             Begins(p, [Op("insert", a, o, t, 0) EXCEPT !.more = 1])
      PROVE  DataInv'
  BY <1>1, <1>4, OperationInv
<1>5. ASSUME NEW a \in Apps, NEW o \in Orgs, NEW t \in Tables, NEW then \in Operations, NEW i,
             NEW u \in Users, Asks(p, u, Operation(then, a, o, t, i))
      PROVE  DataInv'
  <2>1. Begins(p, [Operation(then, a, o, t, i) EXCEPT !.pc = "authorize", !.users = {u}])
    BY <1>5 DEF Asks
  <2> QED
    BY <2>1, OperationInv
<1>6. CASE ToolTable(p)
  <2>1. PICK a \in Apps, o \in Orgs, t \in Tables :
           \/ \E cols \in SUBSET Columns : CreateTable(p, a, o, t, cols)
           \/ ExecRaw(Physical(a, t))
           \/ Begins(p, Op("drop", a, o, t, 0))
           \/ \E c \in Columns : Begins(p, [Op("addColumn", a, o, t, 0) EXCEPT !.cols = {c}])
    BY <1>6 DEF ToolTable
  <2> HIDE DEF Op
  <2>2. CASE \E c \in Columns : Begins(p, [Op("addColumn", a, o, t, 0) EXCEPT !.cols = {c}])
    <3>1. PICK c \in Columns : Begins(p, [Op("addColumn", a, o, t, 0) EXCEPT !.cols = {c}])
      BY <2>2
    <3> QED
      BY Zenon, <3>1, <1>3
  <2>3. CASE \E cols \in SUBSET Columns : CreateTable(p, a, o, t, cols)
    BY <2>3, CreateTableInv
  <2>5. CASE ExecRaw(Physical(a, t))
    <3>1. Physical(a, t) \in PhysicalNames
      BY ToPhysical
    <3> QED
      BY <2>5, <3>1, ExecRawInv
  <2>4. CASE Begins(p, Op("drop", a, o, t, 0))
    BY Zenon, <1>1, <1>2, <2>4
  <2> QED
    BY <2>1, <2>2, <2>3, <2>4, <2>5
<1>7. CASE ToolRows(p)
  <2>1. PICK a \in Apps, o \in Orgs, t \in Tables :
           \/ Begins(p, Op("insert", a, o, t, 0))
           \/ Begins(p, [Op("insert", a, o, t, 0) EXCEPT !.more = 1])
           \/ \E i : \/ Begins(p, Op("update", a, o, t, i))
                     \/ Begins(p, Op("delete", a, o, t, i))
    BY <1>7 DEF ToolRows
  <2> HIDE DEF Op
  <2> QED
    BY Zenon, <1>1, <1>2, <1>4, <2>1
<1>8. CASE RouteRows(p)
  <2>1. PICK u \in Users, a \in Apps, o \in Orgs, t \in Tables :
           \/ Asks(p, u, Operation("insert", a, o, t, 0))
           \/ \E i, then : then \in {"update", "delete"} /\ Asks(p, u, Operation(then, a, o, t, i))
    BY <1>8 DEF RouteRows
  <2>2. PICK then, i : then \in Operations /\ Asks(p, u, Operation(then, a, o, t, i))
    BY <1>1, <2>1
  <2> QED
    BY Zenon, <1>5, <2>2
<1> QED
  BY <1>6, <1>7, <1>8 DEF DataRequest

-----------------------------------------------------------------------------
\* The steps.  A request that ends has made what it makes, or has marred it.
LEMMA EndsInv ==
    ASSUME IInv, DataInv, NEW p \in Procs, proc[p].pc \in DataLabels, Ends(p),
           UNCHANGED sharing, StoreOK', marred \subseteq marred', NEW n0, n0 = Name(p),
           \A n \in PhysicalNames \ marred' : n # n0 /\ Agree(n) => Agree(n)',
           \/ n0 \in marred'
           \/ Agree(n0)'
           \/ proc[p].pc \notin Making /\ (Agree(n0) => Agree(n0)')
    PROVE  DataInv'
<1>1. ~At(p, "idle")
  BY DataSomewhere
<1>2. proc'[p] = Idle /\ left' \in Nat /\ \A q \in Procs \ {p} : Kept(q)
  BY EndsKeeps DEF IInv, DataInv
<1>3. SharedOK'
  BY DEF DataInv, SharedOK, LiveOrgs, sharing
<1>4. "idle" \notin DataLabels /\ Idle.pc = "idle"
  BY DEF DataLabels, Operations, Idle
<1>5. DataLocal(Idle)
  BY <1>4 DEF DataLocal
<1>6. Careful(p)'
  BY <1>2, <1>4 DEF Careful, Alone, At
<1>7. \A n \in PhysicalNames \ marred' :
         /\ Agree(n) => Agree(n)'
         /\ Makes(p, n) => Agree(n)'
  BY DEF Makes
<1> QED
  BY <1>1, <1>2, <1>3, <1>5, <1>6, <1>7, DataInvStep

\* A request that goes on, and remains careful.
LEMMA GoesOnInv ==
    ASSUME IInv, DataInv, NEW p \in Procs, proc[p].pc \in DataLabels,
           NEW label \in DataLabels, Continues(p, label),
           UNCHANGED <<sharing, marred>>, StoreOK', Careful(p)',
           proc[p].pc \in Making => label \in Making, NEW n0, n0 = Name(p),
           \A n \in PhysicalNames : n # n0 /\ Agree(n) => Agree(n)',
           label \in Making \/ (Agree(n0) => Agree(n0)')
    PROVE  DataInv'
<1>1. ~At(p, "idle") /\ proc[p].app \in Apps /\ proc[p].table \in Tables /\ proc[p].more \in Nat
  BY DataSomewhere
<1>2. /\ proc'[p].pc = label /\ proc'[p].app = proc[p].app
      /\ proc'[p].table = proc[p].table /\ proc'[p].more = proc[p].more
      /\ Name(p)' = Name(p) /\ left' \in Nat /\ \A q \in Procs \ {p} : Kept(q)
  BY <1>1, GoesOn
<1>3. SharedOK'
  BY DEF DataInv, SharedOK, LiveOrgs, sharing
<1>4. "distribute" \notin DataLabels
  BY DEF DataLabels, Operations
<1>5. DataLocal(proc'[p])
  BY <1>1, <1>2, <1>4 DEF DataLocal
<1>6. \A n \in PhysicalNames \ marred' :
         /\ Agree(n) => Agree(n)' \/ Makes(p, n)'
         /\ Makes(p, n) => Makes(p, n)'
  BY <1>2 DEF Makes
<1> QED
  BY <1>1, <1>2, <1>3, <1>5, <1>6, DataInvStep

LEMMA DescribeInv ==
    ASSUME IInv, DataInv, NEW p \in Procs, CreateDescription(p)
    PROVE  DataInv'
<1>0. /\ At(p, "describe") /\ proc[p].pc \in DataLabels /\ proc[p].pc \in Making
      /\ {"undo"} \subseteq DataLabels \cap Making /\ ~At(p, "idle")
  BY DEF CreateDescription, At, DataLabels, Making
<1>1. PICK n, e, c : n = Name(p) /\ e = Entry(p) /\ c = proc[p].cols
  OBVIOUS
<1>2. /\ n \in PhysicalNames /\ e \in Apps \X Orgs \X Tables
      /\ Physical(e[1], e[3]) = n
  BY <1>0, <1>1, DataSomewhere DEF Name, Entry
<1>3. ASSUME Continues(p, "undo"), UNCHANGED <<described, marred>>, UNCHANGED <<sharing, stored>>
      PROVE  DataInv'
  <2>1. UNCHANGED data /\ UNCHANGED <<sharing, marred>>
    BY <1>3 DEF data
  <2>2. StoreOK' /\ \A m : Agree(m) => Agree(m)'
    BY <2>1, DataStays DEF DataInv
  <2>3. /\ proc'[p].pc = "undo" /\ proc'[p].alone = proc[p].alone /\ Name(p)' = Name(p)
    BY <1>0, <1>3, GoesOn
  <2>4. Careful(p)'
    <3> SUFFICES ASSUME Alone(p)', n \notin marred' PROVE EntriesOf(n)' = {}
      BY <1>1, <2>3 DEF Careful, At
    <3>1. Alone(p)
      BY <1>0, <2>3 DEF Alone
    <3>2. EntriesOf(n) = {}
      BY <1>0, <1>1, <1>3, <3>1 DEF DataInv, Careful, At
    <3> QED
      BY <1>3, <3>2 DEF EntriesOf
  <2> QED
    BY <1>0, <1>3, <2>1, <2>2, <2>4, GoesOnInv
<1>4. ASSUME e \notin DOMAIN described, described' = With(described, e, c),
             Ends(p), Keeps(p), UNCHANGED <<sharing, stored>>
      PROVE  DataInv'
  <2>1. /\ DOMAIN described' = DOMAIN described \cup {e} /\ described'[e] = c
        /\ \A f \in DOMAIN described : described'[f] = described[f]
    BY <1>4 DEF With
  <2>2. StoreOK'
    BY <1>2, <1>4, <2>1 DEF DataInv, StoreOK
  <2>3. /\ marred \subseteq marred'
        /\ (marred' = marred /\ proc[p].alone) \/ n \in marred'
    BY <1>1, <1>4 DEF Keeps, Mars
  <2>4. ASSUME NEW m \in PhysicalNames, m # n, Agree(m)
        PROVE  Agree(m)'
    <3>1. EntriesOf(m)' = EntriesOf(m)
      BY <1>2, <2>1, <2>4, OtherTables
    <3>2. \A f \in EntriesOf(m) : described'[f] = described[f]
      BY <2>1 DEF EntriesOf
    <3> QED
      BY <1>4, <2>4, <3>1, <3>2, AgreeKept
  <2>5. ASSUME n \notin marred'
        PROVE  Agree(n)'
    <3>1. Alone(p) /\ n \notin marred
      BY <1>0, <2>3, <2>5 DEF Alone
    <3>2. n \in DOMAIN stored /\ c \subseteq stored[n].cols /\ EntriesOf(n) = {}
      BY <1>0, <1>1, <3>1 DEF DataInv, Careful, At
    <3>3. EntriesOf(n)' = {e}
      BY <1>2, <2>1, <3>2 DEF EntriesOf
    <3> QED
      BY <1>4, <2>1, <3>2, <3>3 DEF Agree
  <2>6. UNCHANGED sharing
    BY <1>4
  <2> QED
    BY <1>0, <1>1, <1>4, <2>2, <2>3, <2>4, <2>5, <2>6, EndsInv
<1> QED
  BY <1>1, <1>3, <1>4 DEF CreateDescription

LEMMA UndoInv ==
    ASSUME IInv, DataInv, NEW p \in Procs, CreateUndo(p)
    PROVE  DataInv'
<1>0. At(p, "undo") /\ proc[p].pc \in DataLabels /\ proc[p].pc \in Making /\ ~At(p, "idle")
  BY DEF CreateUndo, At, DataLabels, Making
<1>1. PICK n : n = Name(p)
  OBVIOUS
<1>2. Ends(p) /\ UNCHANGED sharing /\ described' = described
  BY DEF CreateUndo
<1>3. CASE UNCHANGED stored /\ Mars(p)
  <2>1. StoreOK' /\ \A m : Agree(m) => Agree(m)'
    BY <1>2, <1>3 DEF DataInv, StoreOK, Agree, EntriesOf
  <2>2. marred \subseteq marred' /\ n \in marred'
    BY <1>1, <1>3 DEF Mars
  <2> QED
    BY <1>0, <1>1, <1>2, <2>1, <2>2, EndsInv
<1>4. CASE stored' = Less(stored, n) /\ Keeps(p)
  <2>1. /\ StoreOK' /\ DOMAIN stored' = DOMAIN stored \ {n}
        /\ \A m : m # n /\ Agree(m) => Agree(m)'
    BY <1>2, <1>4, TableGoes DEF DataInv
  <2>2. /\ marred \subseteq marred'
        /\ (marred' = marred /\ proc[p].alone) \/ n \in marred'
    BY <1>1, <1>4 DEF Keeps, Mars
  <2>3. ASSUME n \notin marred'
        PROVE  Agree(n)'
    <3>1. Alone(p) /\ n \notin marred
      BY <1>0, <2>2, <2>3 DEF Alone
    <3>2. EntriesOf(n) = {}
      BY <1>0, <1>1, <3>1 DEF DataInv, Careful, At
    <3>3. EntriesOf(n)' = {}
      BY <1>2, <3>2 DEF EntriesOf
    <3> QED
      BY <2>1, <3>3 DEF Agree
  <2> QED
    BY <1>0, <1>1, <1>2, <2>1, <2>2, <2>3, EndsInv
<1> QED
  BY <1>1, <1>3, <1>4 DEF CreateUndo, Undone

\* A description is found: of a table to be dropped, the request knows it.
LEMMA FoundInv ==
    ASSUME IInv, DataInv, NEW p \in Procs, Authorize(p) \/ GetTableMetadata(p)
    PROVE  DataInv'
<1>0. /\ proc[p].pc \in {"authorize", "metadata"} /\ proc[p].pc \in DataLabels
      /\ proc[p].pc \notin Making /\ ~At(p, "idle")
  BY DEF Authorize, GetTableMetadata, At, DataLabels, Making
<1>1. UNCHANGED data /\ UNCHANGED <<sharing, marred>>
  BY DEF Authorize, GetTableMetadata, data
<1>2. StoreOK' /\ \A m : Agree(m) => Agree(m)'
  BY <1>1, DataStays DEF DataInv
<1>3. proc[p].then \in Operations
  BY <1>0, DataSomewhere
<1>4. PICK label \in Operations \cup {"metadata"} :
         Continues(p, label) /\ (label = "metadata" \/ Entry(p) \in DOMAIN described)
  BY <1>3 DEF Authorize, GetTableMetadata
<1>5. label \in DataLabels /\ label \notin {"describe", "undo", "forget"}
  BY <1>4 DEF DataLabels, Operations
<1>6. /\ proc'[p].pc = label /\ Entry(p)' = Entry(p)
  BY <1>0, <1>4, GoesOn
<1>7. label = "drop" => Entry(p)' \in DOMAIN described'
  BY <1>1, <1>4, <1>6 DEF data
<1>8. Careful(p)'
  BY <1>5, <1>6, <1>7 DEF Careful, At
<1> QED
  BY <1>0, <1>1, <1>2, <1>4, <1>5, <1>8, GoesOnInv

LEMMA DropInv ==
    ASSUME IInv, DataInv, NEW p \in Procs, DropTable(p)
    PROVE  DataInv'
<1>0. /\ At(p, "drop") /\ proc[p].pc \in DataLabels /\ proc[p].pc \notin Making
      /\ "forget" \in DataLabels \cap Making /\ ~At(p, "idle")
  BY DEF DropTable, At, DataLabels, Operations, Making
<1>1. PICK n, e : n = Name(p) /\ e = Entry(p)
  OBVIOUS
<1>2. n \in PhysicalNames /\ Physical(e[1], e[3]) = n
  BY <1>0, <1>1, DataSomewhere DEF Name, Entry
<1>3. /\ stored' = Less(stored, n) /\ Continues(p, "forget") /\ described' = described
      /\ UNCHANGED <<sharing, marred>>
  BY <1>1 DEF DropTable
<1>4. /\ StoreOK' /\ DOMAIN stored' = DOMAIN stored \ {n}
      /\ \A m : m # n /\ Agree(m) => Agree(m)'
  BY <1>3, TableGoes DEF DataInv
<1>5. /\ proc'[p].pc = "forget" /\ proc'[p].alone = proc[p].alone
      /\ Name(p)' = n /\ Entry(p)' = e
  BY <1>0, <1>1, <1>3, GoesOn
<1>6. Careful(p)'
  <2> SUFFICES ASSUME Alone(p)', n \notin marred'
               PROVE  n \notin DOMAIN stored' /\ EntriesOf(n)' \subseteq {e}
    BY <1>5 DEF Careful, At
  <2>1. Alone(p) /\ n \notin marred
    BY <1>0, <1>3, <1>5 DEF Alone
  <2>2. Agree(n)
    BY <1>0, <1>1, <1>2, <2>1, AloneKnows
  <2>3. e \in EntriesOf(n)
    BY <1>0, <1>1, <1>2, <2>1 DEF DataInv, Careful, At, EntriesOf
  <2>4. EntriesOf(n) \subseteq {e}
    BY <2>2, <2>3 DEF Agree
  <2> QED
    BY <1>3, <1>4, <2>4 DEF EntriesOf
<1> QED
  BY <1>0, <1>1, <1>3, <1>4, <1>6, GoesOnInv

LEMMA ForgetInv ==
    ASSUME IInv, DataInv, NEW p \in Procs, DropDescription(p)
    PROVE  DataInv'
<1>0. At(p, "forget") /\ proc[p].pc \in DataLabels /\ proc[p].pc \in Making /\ ~At(p, "idle")
  BY DEF DropDescription, At, DataLabels, Making
<1>1. PICK n, e : n = Name(p) /\ e = Entry(p)
  OBVIOUS
<1>2. n \in PhysicalNames /\ Physical(e[1], e[3]) = n
  BY <1>0, <1>1, DataSomewhere DEF Name, Entry
<1>3. /\ described' = Less(described, e) /\ Ends(p) /\ Keeps(p) /\ stored' = stored
      /\ UNCHANGED sharing
  BY <1>1 DEF DropDescription
<1>4. /\ DOMAIN described' = DOMAIN described \ {e}
      /\ \A f \in DOMAIN described : f # e => described'[f] = described[f]
  BY <1>3 DEF Less
<1>5. StoreOK'
  BY <1>3, <1>4 DEF DataInv, StoreOK
<1>6. /\ marred \subseteq marred'
      /\ (marred' = marred /\ proc[p].alone) \/ n \in marred'
  BY <1>1, <1>3 DEF Keeps, Mars
<1>7. ASSUME NEW m \in PhysicalNames, m # n, Agree(m)
      PROVE  Agree(m)'
  <2>1. EntriesOf(m)' = EntriesOf(m)
    BY <1>2, <1>4, <1>7, OtherTables
  <2>2. \A f \in EntriesOf(m) : described'[f] = described[f]
    <3>1. \A f \in EntriesOf(m)' : f # e
      BY <1>4 DEF EntriesOf
    <3> QED
      BY <1>4, <2>1, <3>1 DEF EntriesOf
  <2> QED
    BY <1>3, <1>7, <2>1, <2>2, AgreeKept
<1>8. ASSUME n \notin marred'
      PROVE  Agree(n)'
  <2>1. Alone(p) /\ n \notin marred
    BY <1>0, <1>6, <1>8 DEF Alone
  <2>2. n \notin DOMAIN stored /\ EntriesOf(n) \subseteq {e}
    BY <1>0, <1>1, <2>1 DEF DataInv, Careful, At
  <2>3. EntriesOf(n)' = {}
    BY <1>4, <2>2 DEF EntriesOf
  <2> QED
    BY <1>3, <2>2, <2>3 DEF Agree
<1> QED
  BY <1>0, <1>1, <1>3, <1>5, <1>6, <1>7, <1>8, EndsInv

\* Statements about rows or columns: the table stays, with its columns.
LEMMA StatementInv ==
    ASSUME IInv, DataInv, NEW p \in Procs, proc[p].pc \in Operations,
           NEW n, n = Name(p), n \in DOMAIN stored, NEW tab, TableOK(tab),
           stored[n].cols \subseteq tab.cols, stored' = [stored EXCEPT ![n] = tab],
           UNCHANGED <<sharing, described, marred>>,
           \/ Ends(p)
           \/ /\ At(p, "insert") /\ proc[p].more # 0 /\ UNCHANGED left
              /\ proc' = [proc EXCEPT ![p].more = @ - 1]
    PROVE  DataInv'
<1>0. /\ proc[p].pc \in DataLabels /\ proc[p].pc \notin Making /\ ~At(p, "idle")
      /\ StoreOK /\ UNCHANGED sharing /\ described' = described /\ marred' = marred
  BY DEF DataLabels, Operations, Making, At, DataInv
<1>1. StoreOK' /\ \A m : Agree(m) => Agree(m)'
  BY <1>0, TableChanges
<1>2. CASE Ends(p)
  BY <1>0, <1>1, <1>2, EndsInv
<1>3. CASE /\ At(p, "insert") /\ proc[p].more # 0 /\ UNCHANGED left
           /\ proc' = [proc EXCEPT ![p].more = @ - 1]
  <2>1. /\ proc[p].app \in Apps /\ proc[p].table \in Tables /\ proc[p].more - 1 \in Nat
    BY <1>0, <1>3, DataSomewhere
  <2>2. /\ proc'[p].pc = "insert" /\ proc'[p].more \in Nat
        /\ proc'[p].app = proc[p].app /\ proc'[p].table = proc[p].table
        /\ \A q \in Procs \ {p} : Kept(q)
    BY <1>0, <1>3, <2>1, GoesOnInserting DEF At
  <2>3. DataLocal(proc'[p]) /\ Careful(p)'
    BY <2>1, <2>2 DEF DataLocal, Careful, At
  <2>4. SharedOK' /\ left' \in Nat
    BY <1>0, <1>3 DEF DataInv, SharedOK, LiveOrgs, sharing
  <2>5. \A m : ~Makes(p, m)
    BY <1>0 DEF Makes
  <2> QED
    BY <1>0, <1>1, <2>2, <2>3, <2>4, <2>5, DataInvStep
<1> QED
  BY <1>2, <1>3

\* What a statement makes of its table, and whose rows it touches.
Theirs(p, rows1, rows2) ==
    \A r \in (rows1 \ rows2) \cup (rows2 \ rows1) : proc[p].org = r.org

LEMMA Statements ==
    ASSUME IInv, DataInv, NEW p \in Procs, Insert(p) \/ Update(p) \/ Delete(p) \/ AddColumn(p)
    PROVE  \E n, tab : /\ n = Name(p) /\ n \in DOMAIN stored /\ proc[p].pc \in Operations
                       /\ TableOK(tab) /\ stored[n].cols \subseteq tab.cols
                       /\ stored' = [stored EXCEPT ![n] = tab]
                       /\ Theirs(p, stored[n].rows, tab.rows)
<1>1. PICK n, s : n = Name(p) /\ s = stored[n]
  OBVIOUS
<1>2. /\ n \in DOMAIN stored /\ proc[p].pc \in Operations
  BY <1>1 DEF Insert, Update, Delete, AddColumn, There, At, Operations
<1>3. TableOK(s) /\ proc[p].org \in Orgs
  BY <1>1, <1>2, DataSomewhere DEF DataInv, StoreOK, DataLabels
<1>4. CASE Insert(p)
  <2>1. PICK o, i, tab : o = proc[p].org /\ i = s.serial + 1 /\ tab = WithRow(s, o)
    OBVIOUS
  <2>2. stored' = [stored EXCEPT ![n].serial = i, ![n].rows = @ \cup {Row(i, o)}]
    BY <1>1, <1>4, <2>1 DEF Insert
  <2>3. stored' = [stored EXCEPT ![n] = tab]
    BY <1>1, <1>2, <2>1, <2>2 DEF WithRow
  <2>4. o \in Orgs
    BY <1>3, <2>1
  <2>5. TableOK(tab) /\ tab.cols = s.cols /\ tab.rows = s.rows \cup {Row(i, o)}
    BY <1>3, <2>1, <2>4, RowComes
  <2>6. Theirs(p, s.rows, tab.rows)
    BY <2>1, <2>5 DEF Theirs, Row
  <2> QED
    BY <1>1, <1>2, <2>3, <2>5, <2>6
<1>5. CASE Update(p)
  <2>1. PICK rows, tab : /\ rows = {Touched(p, r) : r \in s.rows}
                         /\ tab = TouchedAll(p, s)
    OBVIOUS
  <2>2. stored' = [stored EXCEPT ![n].rows = rows]
    BY <1>1, <1>5, <2>1 DEF Update, Rewritten, Touched
  <2>3. stored' = [stored EXCEPT ![n] = tab]
    BY <1>1, <2>1, <2>2, Zenon DEF TouchedAll
  <2>4. TableOK(tab) /\ tab.cols = s.cols /\ tab.rows = rows
    BY <1>3, <2>1, RowsUpdated
  <2>5. Theirs(p, s.rows, rows)
    <3>1. \A r \in s.rows :
             /\ ~Matching(p, r) => Touched(p, r) = r
             /\ Matching(p, r) => r.org = proc[p].org /\ Touched(p, r).org = r.org
      BY <1>3 DEF Touched, Matching, TableOK, RowType
    <3>2. \A r \in s.rows \ rows : r.org = proc[p].org
      BY <2>1, <3>1
    <3>3. \A r \in rows \ s.rows : r.org = proc[p].org
      BY <2>1, <3>1
    <3> QED
      BY <3>2, <3>3 DEF Theirs
  <2> QED
    BY <1>1, <1>2, <2>3, <2>4, <2>5
<1>6. CASE Delete(p)
  <2>1. PICK rows, tab : /\ rows = {r \in s.rows : ~Matching(p, r)}
                         /\ tab = [s EXCEPT !.rows = rows]
    OBVIOUS
  <2>2. stored' = [stored EXCEPT ![n].rows = rows]
    BY <1>1, <1>6, <2>1 DEF Delete, Rewritten
  <2>3. stored' = [stored EXCEPT ![n] = tab]
    BY <1>1, <2>1, <2>2, Zenon
  <2>4. rows \in SUBSET s.rows /\ Theirs(p, s.rows, rows)
    BY <2>1 DEF Theirs, Matching
  <2>5. TableOK(tab) /\ tab.cols = s.cols /\ tab.rows = rows
    BY <1>3, <2>1, <2>4, RowsGo
  <2> QED
    BY <1>1, <1>2, <2>3, <2>4, <2>5
<1>7. CASE AddColumn(p)
  <2>1. PICK cols, tab : cols = s.cols \cup proc[p].cols /\ tab = [s EXCEPT !.cols = cols]
    OBVIOUS
  <2>2. stored' = [stored EXCEPT ![n].cols = cols]
    BY <1>1, <1>7, <2>1 DEF AddColumn
  <2>3. stored' = [stored EXCEPT ![n] = tab]
    BY <1>1, <2>1, <2>2, Zenon
  <2>4. TableOK(tab) /\ tab.cols = cols /\ tab.rows = s.rows
    BY <1>3, <2>1, ColumnsChange
  <2>5. Theirs(p, s.rows, tab.rows) /\ s.cols \subseteq tab.cols
    BY <2>1, <2>4 DEF Theirs
  <2> QED
    BY <1>1, <1>2, <2>3, <2>4, <2>5
<1> QED
  BY <1>4, <1>5, <1>6, <1>7

LEMMA StatementsInv ==
    ASSUME IInv, DataInv, NEW p \in Procs, Insert(p) \/ Update(p) \/ Delete(p) \/ AddColumn(p)
    PROVE  DataInv'
<1>1. UNCHANGED <<sharing, described, marred>>
  BY DEF Insert, Update, Delete, AddColumn
<1>2. \/ Ends(p)
      \/ /\ At(p, "insert") /\ proc[p].more # 0 /\ UNCHANGED left
         /\ proc' = [proc EXCEPT ![p].more = @ - 1]
  BY DEF Insert, Update, Delete, AddColumn
<1>3. PICK n, tab : /\ n = Name(p) /\ n \in DOMAIN stored /\ proc[p].pc \in Operations
                    /\ TableOK(tab) /\ stored[n].cols \subseteq tab.cols
                    /\ stored' = [stored EXCEPT ![n] = tab]
  BY Statements
<1> QED
  BY <1>1, <1>2, <1>3, StatementInv

LEMMA DataRefusedInv ==
    ASSUME IInv, DataInv, NEW p \in Procs, DataRefused(p)
    PROVE  DataInv'
<1>1. /\ ~At(p, "idle") /\ proc[p].table # Nothing /\ Ends(p) /\ UNCHANGED sharing
      /\ UNCHANGED <<described, stored>>
      /\ IF proc[p].pc \in Making THEN Mars(p) ELSE UNCHANGED marred
  BY DEF DataRefused, Making
<1>2. proc[p].pc \in DataLabels
  BY <1>1, Somewhere DEF LocalOK, RequestLike
<1>3. PICK n : n = Name(p)
  OBVIOUS
<1>4. marred \subseteq marred' /\ (proc[p].pc \in Making => n \in marred')
  BY <1>1, <1>3 DEF Mars
<1>5. StoreOK' /\ \A m : Agree(m) => Agree(m)'
  BY <1>1 DEF DataInv, StoreOK, Agree, EntriesOf
<1> QED
  BY <1>1, <1>2, <1>3, <1>4, <1>5, EndsInv

LEMMA DataStepInv ==
    ASSUME IInv, DataInv, NEW p \in Procs, DataStep(p)
    PROVE  DataInv'
BY DescribeInv, UndoInv, FoundInv, DropInv, ForgetInv, StatementsInv, DataRefusedInv DEF DataStep

LEMMA DataInvNext == IInv /\ IInv' /\ DataInv /\ [Next]_vars => DataInv'
<1> SUFFICES ASSUME IInv, IInv', DataInv, [Next]_vars PROVE DataInv'
  OBVIOUS
<1>1. CASE UNCHANGED vars
  <2>1. UNCHANGED sharing /\ UNCHANGED data /\ proc' = proc /\ left' = left
    BY <1>1 DEF vars
  <2>2. SharedOK'
    BY <2>1 DEF sharing, DataInv, SharedOK, LiveOrgs
  <2>3. StoreOK' /\ Agreed'
    BY <2>1 DEF data, DataInv, StoreOK, Agreed, Agree, EntriesOf, Makes, Name
  <2>4. \A p \in Procs : DataLocal(proc'[p]) /\ Careful(p)'
    BY <2>1 DEF data, DataInv, Careful, Alone, EntriesOf, Name, Entry, At
  <2> QED
    BY <2>1, <2>2, <2>3, <2>4 DEF DataInv
<1>2. CASE Around /\ UNCHANGED data
  BY <1>2, ChangesShared, SharingAtOnce
<1> QED
  BY <1>1, <1>2, SharingRequestInv, SharingStepInv, DataRequestInv, DataStepInv DEF Next

-----------------------------------------------------------------------------
LEMMA InitShared == Init => SharedOK /\ left \in Nat /\ proc = [p \in Procs |-> Idle]
<1> SUFFICES ASSUME Init PROVE SharedOK /\ left \in Nat /\ proc = [p \in Procs |-> Idle]
  OBVIOUS
<1>1. /\ orgs \in [Orgs -> {"new", "live"}] /\ orgs[Provider] = "live" /\ apps = Apps
      /\ \E boss, u \in Users :
            members = {<<Provider, boss>>} \cup ((LiveOrgs \ {Provider}) \X {u})
      /\ \/ dists = {} /\ admins = {}
         \/ \E who \in SUBSET Users : /\ dists = Apps \X (LiveOrgs \ {Provider})
                                      /\ admins = Apps \X (LiveOrgs \ {Provider}) \X who
      /\ proc = [p \in Procs |-> Idle] /\ left = MaxRequests
  BY DEF Init
<1>2. Provider \in LiveOrgs
  BY <1>1, ProviderIsOrg DEF LiveOrgs
<1>3. members \subseteq LiveOrgs \X Users
  BY <1>1, <1>2
<1>4. orgs \in [Orgs -> {"new", "live", "gone"}]
  BY <1>1
<1>5. dists \subseteq Apps \X (Orgs \ {Provider}) /\ admins \subseteq Apps \X Orgs \X Users
  BY <1>1 DEF LiveOrgs
<1> QED
  BY <1>1, <1>3, <1>4, <1>5, RequestsBound DEF SharedOK

\* An application that several organizations have, or one: rows of each.
Given(tenants, K, ids, t) ==
    /\ tenants = LiveOrgs \ {Provider} /\ tenants # {} /\ K = Cardinality(tenants)
    /\ ids \in [tenants -> 1 .. K] /\ IsInjective(ids) /\ t \in Tables
    /\ described = [e \in Apps \X tenants \X {t} |-> Columns]
    /\ stored = [n \in Apps \X {Cut[t]} |->
                   [cols |-> Columns, serial |-> K,
                    rows |-> {Row(ids[o], o) : o \in tenants}]]
    /\ marred = IF K > 1 THEN Apps \X {Cut[t]} ELSE {}

LEMMA NotTwo ==
    ASSUME NEW S, IsFiniteSet(S), Cardinality(S) \in Nat, ~(Cardinality(S) > 1)
    PROVE  \A x, y \in S : x = y
<1> SUFFICES ASSUME NEW x \in S, NEW y \in S, x # y PROVE FALSE
  OBVIOUS
<1>1. IsFiniteSet({y}) /\ Cardinality({y}) = 1
  BY FS_Singleton
<1>2. Cardinality({y} \cup {x}) = 2
  <2>1. Cardinality({y} \cup {x}) = IF x \in {y} THEN 1 ELSE 1 + 1
    BY <1>1, FS_AddElement, Zenon
  <2> QED
    BY <2>1
<1>3. {y} \cup {x} \in SUBSET S
  OBVIOUS
<1>4. 2 <= Cardinality(S)
  BY <1>2, <1>3, FS_Subset
<1> QED
  BY <1>4

LEMMA InitTables == Init => StoreOK /\ Agreed
<1> SUFFICES ASSUME Init PROVE StoreOK /\ Agreed
  OBVIOUS
<1>1. CASE described = Empty /\ stored = Empty
  <2>1. DOMAIN described = {} /\ DOMAIN stored = {} /\ stored = [n \in {} |-> stored[n]]
    BY <1>1 DEF Empty
  <2> QED
    BY <2>1 DEF StoreOK, Agreed, Agree, EntriesOf
<1>2. ASSUME NEW tenants, NEW K, NEW ids, NEW t, Given(tenants, K, ids, t)
      PROVE  StoreOK /\ Agreed
  <2>0. /\ tenants = LiveOrgs \ {Provider} /\ tenants # {} /\ K = Cardinality(tenants)
        /\ ids \in [tenants -> 1 .. K] /\ IsInjective(ids) /\ t \in Tables
        /\ described = [e \in Apps \X tenants \X {t} |-> Columns]
        /\ stored = [n \in Apps \X {Cut[t]} |->
                       [cols |-> Columns, serial |-> K,
                        rows |-> {Row(ids[o], o) : o \in tenants}]]
        /\ marred = IF K > 1 THEN Apps \X {Cut[t]} ELSE {}
    BY <1>2 DEF Given
  <2>1. tenants \subseteq Orgs /\ IsFiniteSet(tenants) /\ K \in Nat
    BY <2>0, FewOrgs, FS_Subset, FS_CardinalityType DEF LiveOrgs
  <2>2. PICK rows, tab : /\ rows = {Row(ids[o], o) : o \in tenants}
                         /\ tab = [cols |-> Columns, serial |-> K, rows |-> rows]
    OBVIOUS
  <2>3. \A o \in tenants : ids[o] \in Nat /\ ids[o] <= K
    <3>1. \A o \in tenants : ids[o] \in 1 .. K
      BY <2>0
    <3> QED
      BY <2>1, <3>1
  <2>4. rows \in SUBSET RowType /\ \A r \in rows : r.id <= K
    <3>1. \A o \in tenants : Row(ids[o], o) \in RowType /\ Row(ids[o], o).id <= K
      BY <2>1, <2>3 DEF Row, RowType
    <3> QED
      BY <2>2, <3>1
  <2>5. \A r1, r2 \in rows : r1.id = r2.id => r1 = r2
    <3> SUFFICES ASSUME NEW r1 \in rows, NEW r2 \in rows, r1.id = r2.id PROVE r1 = r2
      OBVIOUS
    <3>1. PICK x \in tenants, y \in tenants : r1 = Row(ids[x], x) /\ r2 = Row(ids[y], y)
      BY <2>2
    <3>2. ids[x] = ids[y]
      BY <3>1 DEF Row
    <3>3. x = y
      BY <2>0, <3>2 DEF IsInjective
    <3> QED
      BY <3>1, <3>3
  <2>6. TableOK(tab)
    BY <2>1, <2>2, <2>4, <2>5 DEF TableOK
  <2>7. stored = [n \in Apps \X {Cut[t]} |-> tab]
    BY <2>0, <2>2
  <2>10. \A n \in Apps \X {Cut[t]} : n \in PhysicalNames
    <3>1. \A a \in Apps : Physical(a, t) \in PhysicalNames
      BY <2>0, ToPhysical
    <3> QED
      BY <3>1 DEF Physical
  <2>8. StoreOK
    <3>1. DOMAIN described \subseteq Apps \X Orgs \X Tables
      BY <2>0, <2>1
    <3>2. /\ DOMAIN stored = Apps \X {Cut[t]} /\ stored = [n \in DOMAIN stored |-> stored[n]]
          /\ \A n \in DOMAIN stored : stored[n] = tab
      BY <2>7
    <3> QED
      BY <2>6, <2>10, <3>1, <3>2 DEF StoreOK
  <2>9. ASSUME NEW n \in PhysicalNames \ marred
        PROVE  Agree(n)
    <3>0. PICK a \in Apps, t1 \in Tables : n = Physical(a, t1)
      BY FromPhysical
    <3>9. EntriesOf(n) = {e \in Apps \X tenants \X {t} : Physical(e[1], e[3]) = n}
      BY <2>0 DEF EntriesOf
    <3>10. CASE Cut[t1] # Cut[t]
      <4>1. n \notin DOMAIN stored
        BY <2>7, <3>0, <3>10 DEF Physical
      <4>2. EntriesOf(n) = {}
        BY <3>0, <3>9, <3>10 DEF Physical
      <4> QED
        BY <4>1, <4>2 DEF Agree
    <3>11. CASE Cut[t1] = Cut[t]
      <4>0. n = <<a, Cut[t]>>
        BY <3>0, <3>11 DEF Physical
      <4>1. ~(K > 1)
        BY <2>0, <2>9, <4>0
      <4>2. \A x, y \in tenants : x = y
        BY <2>0, <2>1, <4>1, NotTwo
      <4>3. PICK o \in tenants : TRUE
        BY <2>0
      <4>4. <<a, o, t>> \in EntriesOf(n)
        BY <3>9, <4>0 DEF Physical
      <4>5. \A e, f \in EntriesOf(n) : e = f
        BY <3>9, <4>0, <4>2 DEF Physical
      <4>6. n \in DOMAIN stored /\ stored[n].cols = Columns
        BY <2>2, <2>7, <4>0
      <4>7. \A e \in EntriesOf(n) : described[e] = Columns
        BY <2>0, <3>9
      <4> QED
        BY <4>4, <4>5, <4>6, <4>7 DEF Agree
    <3> QED
      BY <3>10, <3>11
  <2> QED
    BY <2>8, <2>9 DEF Agreed
<1>3. CASE \E tenants, K, ids, t : Given(tenants, K, ids, t)
  BY <1>2, <1>3
<1>4. ~(described = Empty /\ stored = Empty) => \E tenants, K, ids, t : Given(tenants, K, ids, t)
  <2> SUFFICES ASSUME ~(described = Empty /\ stored = Empty)
               PROVE  \E tenants, K, ids, t : Given(tenants, K, ids, t)
    OBVIOUS
  <2>1. PICK T, K : T = LiveOrgs \ {Provider} /\ K = Cardinality(T)
    OBVIOUS
  <2>2. T # {} /\ \E ids \in [T -> 1 .. K], t \in Tables :
           /\ IsInjective(ids)
           /\ described = [e \in Apps \X T \X {t} |-> Columns]
           /\ stored = [n \in Apps \X {Cut[t]} |->
                          [cols |-> Columns, serial |-> K, rows |-> {Row(ids[o], o) : o \in T}]]
           /\ marred = IF K > 1 THEN Apps \X {Cut[t]} ELSE {}
    BY Zenon, <2>1 DEF Init
  <2>3. PICK ids \in [T -> 1 .. K], t \in Tables :
           /\ IsInjective(ids)
           /\ described = [e \in Apps \X T \X {t} |-> Columns]
           /\ stored = [n \in Apps \X {Cut[t]} |->
                          [cols |-> Columns, serial |-> K, rows |-> {Row(ids[o], o) : o \in T}]]
           /\ marred = IF K > 1 THEN Apps \X {Cut[t]} ELSE {}
    BY <2>2
  <2>4. Given(T, K, ids, t)
    BY <2>1, <2>2, <2>3, Zenon DEF Given
  <2> QED
    BY <2>4
<1> QED
  BY <1>1, <1>3, <1>4

LEMMA DataInvInit == Init => DataInv
<1> SUFFICES ASSUME Init PROVE DataInv
  OBVIOUS
<1>1. \A p \in Procs : proc[p] = Idle
  BY InitShared
<1>2. "idle" \notin DataLabels \cup {"distribute"} /\ Idle.pc = "idle"
  BY DEF DataLabels, Operations, Idle
<1>3. \A p \in Procs : DataLocal(proc[p]) /\ Careful(p)
  BY <1>1, <1>2 DEF DataLocal, Careful, Alone, At
<1> QED
  BY <1>3, InitShared, InitTables DEF DataInv

LEMMA DataInductive == Spec => [](IInv /\ DataInv)
<1>1. Init => IInv /\ DataInv
  BY InvInit, DataInvInit
<1>2. (IInv /\ DataInv) /\ [Next]_vars => (IInv /\ DataInv)'
  BY InvStep, DataInvNext
<1> QED
  BY <1>1, <1>2, PTL DEF Spec

-----------------------------------------------------------------------------
(***************************************************************************)
(* What the foreign keys do where there are any.                           *)
(***************************************************************************)
Referred(A, L) == \A d \in dists \cup admins : d[1] \in A /\ d[2] \in L
KeysHold == keyed => Referred(apps, LiveOrgs)

\* Nothing that rows refer to goes, and no row comes.
LEMMA KeysStay ==
    ASSUME KeysHold, keyed' = keyed, apps' = apps, LiveOrgs \subseteq LiveOrgs',
           dists' \subseteq dists, admins' \subseteq admins
    PROVE  KeysHold'
<1>1. PICK L : L = LiveOrgs'
  OBVIOUS
<1> QED
  BY <1>1 DEF KeysHold, Referred

LEMMA KeysCascade ==
    ASSUME keyed' = keyed, Cascades
    PROVE  KeysHold'
<1>1. PICK A, L : A = apps' /\ L = LiveOrgs'
  OBVIOUS
<1>2. keyed => /\ dists' = {d \in dists : d[1] \in A /\ d[2] \in L}
               /\ admins' = {d \in admins : d[1] \in A /\ d[2] \in L}
  BY <1>1 DEF Cascades
<1>3. PICK D, M : D = dists' /\ M = admins'
  OBVIOUS
<1>4. keyed => \A d \in D \cup M : d[1] \in A /\ d[2] \in L
  BY <1>2, <1>3
<1> QED
  BY <1>1, <1>3, <1>4 DEF KeysHold, Referred

\* What brings an organization.
LEMMA OrgsGrow ==
    ASSUME DataInv, NEW o \in Orgs, orgs' = [orgs EXCEPT ![o] = "live"]
    PROVE  LiveOrgs \subseteq LiveOrgs'
BY DEF DataInv, SharedOK, LiveOrgs

LEMMA RequestKeys ==
    ASSUME DataInv, KeysHold, keyed' = keyed, NEW p \in Procs, SharingRequest(p)
    PROVE  KeysHold'
<1>1. \/ \E o \in Orgs : CreateOrg(o)
      \/ \E o \in Orgs : DeleteOrg(o)
      \/ \E a \in Apps, o \in Orgs, u \in Users :
            SetAppAdmin(p, a, o, u) \/ RemoveAppAdmin(a, o, u)
      \/ \E o \in Orgs : UpdateOrg(p, o)
      \/ \E a \in Apps, o \in Orgs : DistributeApp(p, a, o) \/ UndistributeApp(p, a, o)
  BY DEF SharingRequest, ToolOrg, RouteOrg, ToolShare, RouteShare
<1>2. CASE \E o \in Orgs : CreateOrg(o)
  <2>1. PICK o \in Orgs : CreateOrg(o)
    BY <1>2
  <2>2. LiveOrgs \subseteq LiveOrgs' /\ apps' = apps /\ dists' = dists /\ admins' = admins
    BY <2>1, OrgsGrow DEF CreateOrg
  <2> QED
    BY <2>2, KeysStay
<1>3. CASE \E o \in Orgs : DeleteOrg(o)
  BY <1>3, KeysCascade DEF DeleteOrg
<1>4. CASE \/ \E a \in Apps, o \in Orgs, u \in Users :
                 SetAppAdmin(p, a, o, u) \/ RemoveAppAdmin(a, o, u)
           \/ \E o \in Orgs : UpdateOrg(p, o)
           \/ \E a \in Apps, o \in Orgs : DistributeApp(p, a, o) \/ UndistributeApp(p, a, o)
  <2>1. orgs' = orgs /\ apps' = apps /\ dists' \subseteq dists /\ admins' \subseteq admins
    BY <1>4 DEF SetAppAdmin, RemoveAppAdmin, UpdateOrg, DistributeApp, UndistributeApp, sharing
  <2>2. LiveOrgs' = LiveOrgs
    BY <2>1 DEF LiveOrgs
  <2> QED
    BY <2>1, <2>2, KeysStay
<1> QED
  BY <1>1, <1>2, <1>3, <1>4

\* A row that refers to nothing is not inserted.
LEMMA StepKeys ==
    ASSUME IInv, DataInv, KeysHold, keyed' = keyed, NEW p \in Procs, SharingStep(p)
    PROVE  KeysHold'
<1>1. PICK x, y, who : x = proc[p].app /\ y = proc[p].org /\ who = proc[p].users
  OBVIOUS
<1>2. CASE UpdateOrgSave(p)
  <2>1. ~At(p, "idle") /\ orgs' = [orgs EXCEPT ![y] = "live"]
        /\ apps' = apps /\ dists' = dists /\ admins' = admins
    BY <1>1, <1>2 DEF UpdateOrgSave, At
  <2>2. y \in Orgs
    BY <1>1, <2>1, Somewhere
  <2> QED
    BY <2>1, <2>2, OrgsGrow, KeysStay
<1>3. CASE CreateDistribution(p) \/ CreateAdmin(p)
  <2>1. /\ keyed => x \in apps /\ y \in LiveOrgs
        /\ orgs' = orgs /\ apps' = apps
        /\ \/ dists' = dists \cup {<<x, y>>} /\ admins' = admins
           \/ dists' = dists /\ admins' = admins \cup ({x} \X {y} \X who)
    BY <1>1, <1>3 DEF CreateDistribution, CreateAdmin, Keys, Pair
  <2>2. LiveOrgs' = LiveOrgs
    BY <2>1 DEF LiveOrgs
  <2>3. \A d \in dists' \cup admins' : d \in dists \cup admins \/ (d[1] = x /\ d[2] = y)
    BY <2>1
  <2> QED
    BY <2>1, <2>2, <2>3 DEF KeysHold, Referred
<1>4. CASE \/ UndistributeList(p) \/ UndistributeNext(p) \/ SetAdminMember(p)
           \/ SharingRefused(p)
  <2>1. orgs' = orgs /\ apps' = apps /\ dists' = dists /\ admins' \subseteq admins
    BY <1>4 DEF UndistributeList, UndistributeNext, SetAdminMember, SharingRefused, sharing
  <2>2. LiveOrgs' = LiveOrgs
    BY <2>1 DEF LiveOrgs
  <2> QED
    BY <2>1, <2>2, KeysStay
<1> QED
  BY <1>2, <1>3, <1>4 DEF SharingStep

\* The data service touches nothing that is shared.
LEMMA DataApart ==
    ASSUME NEW p \in Procs, DataRequest(p) \/ DataStep(p)
    PROVE  UNCHANGED sharing
<1>1. CASE DataStep(p)
  BY <1>1 DEF DataStep, CreateDescription, CreateUndo, Authorize, GetTableMetadata, DropTable,
         DropDescription, Insert, Update, Delete, AddColumn, DataRefused
<1>2. CASE DataRequest(p)
  <2>1. \A work : Begins(p, work) => UNCHANGED sharing
    BY DEF Begins
  <2>2. \A a, o, t, cols : CreateTable(p, a, o, t, cols) => UNCHANGED sharing
    BY Zenon DEF CreateTable
  <2>3. \A n : ExecRaw(n) => UNCHANGED sharing
    BY Zenon DEF ExecRaw
  <2> QED
    BY <1>2, <2>1, <2>2, <2>3, Zenon DEF DataRequest, ToolTable, ToolRows, RouteRows, Asks
<1> QED
  BY <1>1, <1>2

LEMMA KeysNext == IInv /\ DataInv /\ KeysHold /\ [Next]_vars => KeysHold'
<1> SUFFICES ASSUME IInv, DataInv, KeysHold, [Next]_vars PROVE KeysHold'
  OBVIOUS
<1>1. keyed' = keyed
  BY DEF Next, vars
<1>2. CASE UNCHANGED sharing
  <2>1. orgs' = orgs /\ apps' = apps /\ dists' = dists /\ admins' = admins
    BY <1>2 DEF sharing
  <2>2. LiveOrgs' = LiveOrgs
    BY <2>1 DEF LiveOrgs
  <2> QED
    BY <1>1, <2>1, <2>2, KeysStay
<1>3. \/ UNCHANGED sharing \/ Around
      \/ \E p \in Procs : SharingRequest(p) \/ SharingStep(p)
  BY DataApart DEF Next, vars
<1>4. CASE Around
  <2>1. \A a : AppDeleted(a) => Cascades
    BY DEF AppDeleted
  <2>2. CASE \E a \in Apps : AppDeleted(a)
    BY <1>1, <2>1, <2>2, KeysCascade
  <2>3. CASE \E o \in Orgs, u \in Users : MemberJoins(o, u) \/ MemberLeaves(o, u)
    <3>1. orgs' = orgs /\ apps' = apps /\ dists' = dists /\ admins' = admins
      BY <2>3 DEF MemberJoins, MemberLeaves
    <3>2. LiveOrgs' = LiveOrgs
      BY <3>1 DEF LiveOrgs
    <3> QED
      BY <1>1, <3>1, <3>2, KeysStay
  <2> QED
    BY <1>4, <2>2, <2>3 DEF Around
<1> QED
  BY <1>1, <1>2, <1>3, <1>4, RequestKeys, StepKeys

\* With foreign keys, what is given and who administers it refer to
\* applications and organizations that there are; the provider is given
\* nothing, and no two rows of a table have one id, whatever the requests and
\* whoever deletes what meanwhile.
THEOREM SharingTypes == Spec => []TypeOK
<1>1. Init => KeysHold
  <2> SUFFICES ASSUME Init PROVE Referred(apps, LiveOrgs)
    BY DEF KeysHold
  <2>1. /\ apps = Apps
        /\ \/ dists = {} /\ admins = {}
           \/ \E who \in SUBSET Users : /\ dists = Apps \X (LiveOrgs \ {Provider})
                                        /\ admins = Apps \X (LiveOrgs \ {Provider}) \X who
    BY DEF Init
  <2>2. PICK L : L = LiveOrgs
    OBVIOUS
  <2>3. \A d \in dists \cup admins : d[1] \in Apps /\ d[2] \in L
    BY <2>1, <2>2
  <2> QED
    BY <2>1, <2>2, <2>3 DEF Referred
<1>2. IInv /\ DataInv /\ KeysHold /\ [Next]_vars => KeysHold'
  BY KeysNext
<1>3. IInv /\ DataInv /\ KeysHold => TypeOK
  BY DEF DataInv, SharedOK, StoreOK, TableOK, TypeOK, KeysHold, Referred
<1> QED
  BY <1>1, <1>2, <1>3, DataInductive, PTL DEF Spec

\* A table is there if and only if it is described, with the columns that its
\* descriptions say, but where the history says what happened.
THEOREM TablesAreDescribed == Spec => []TablesDescribed
<1>1. IInv /\ DataInv => TablesDescribed
  BY DEF DataInv, Agreed, Agree, EntriesOf, Makes, Making, TablesDescribed
<1> QED
  BY <1>1, DataInductive, PTL

-----------------------------------------------------------------------------
\* Requests and changes are counted.
LEMMA RequestsCount ==
    ASSUME NEW p \in Procs, SharingRequest(p) \/ DataRequest(p) \/ Around
    PROVE  Counted
<1>1. CASE Around
  BY <1>1 DEF Around, AppDeleted, MemberJoins, MemberLeaves, AtOnce
<1>2. CASE SharingRequest(p)
  BY <1>2 DEF SharingRequest, ToolOrg, RouteOrg, ToolShare, RouteShare, CreateOrg, DeleteOrg,
         UpdateOrg, DistributeApp, UndistributeApp, SetAppAdmin, RemoveAppAdmin, AtOnce, Starts
<1>3. CASE DataRequest(p)
  <2>1. \A work : Begins(p, work) => Counted
    BY DEF Begins, Starts
  <2>2. CASE ToolTable(p)
    <3>1. \A a, o, t, cols : CreateTable(p, a, o, t, cols) => Counted
      BY Zenon DEF CreateTable, Starts
    <3>2. \A n : ExecRaw(n) => Counted
      BY Zenon DEF ExecRaw, AtOnce
    <3> QED
      BY <2>1, <2>2, <3>1, <3>2, Zenon DEF ToolTable
  <2>3. CASE ToolRows(p)
    BY <2>1, <2>3, Zenon DEF ToolRows
  <2>4. CASE RouteRows(p)
    BY <2>1, <2>4, Zenon DEF RouteRows, Asks
  <2> QED
    BY <1>3, <2>2, <2>3, <2>4 DEF DataRequest
<1> QED
  BY <1>1, <1>2, <1>3

Touching(n, r) == \E p \in Procs : proc'[p] # proc[p] /\ Name(p) = n /\ proc[p].org = r.org

\* A statement moves the request whose it is.
LEMMA StatementMoves ==
    ASSUME IInv, DataInv, NEW p \in Procs, Insert(p) \/ Update(p) \/ Delete(p) \/ AddColumn(p)
    PROVE  proc'[p] # proc[p]
<1>0. proc[p].pc \in Operations /\ proc[p].pc \in DataLabels
  BY DEF Insert, Update, Delete, AddColumn, At, Operations, DataLabels
<1>1. ~At(p, "idle") /\ proc[p].more \in Nat
  BY <1>0, DataSomewhere
<1>2. CASE Ends(p)
  <2>1. proc'[p] = Idle
    BY <1>2, EndsKeeps DEF IInv, DataInv
  <2> QED
    BY <1>1, <2>1 DEF At, Idle
<1>3. CASE proc' = [proc EXCEPT ![p].more = @ - 1]
  <2>1. proc'[p].more = proc[p].more - 1
    BY <1>1, <1>3, GoesOnInserting
  <2> QED
    BY <1>1, <2>1
<1> QED
  BY <1>2, <1>3 DEF Insert, Update, Delete, AddColumn

LEMMA TheirsStep ==
    ASSUME IInv, DataInv, [Next]_vars, left' = left,
           NEW n \in DOMAIN stored \cap DOMAIN stored',
           NEW r \in (stored[n].rows \ stored'[n].rows) \cup (stored'[n].rows \ stored[n].rows)
    PROVE  Touching(n, r)
<1>1. ~Counted
  BY DEF DataInv, Counted
<1>2. stored' # stored
  OBVIOUS
<1>3. PICK p \in Procs : DataStep(p)
  <2>1. ~UNCHANGED vars
    BY <1>2 DEF vars, data
  <2>2. ~((\E p \in Procs : SharingStep(p)) /\ UNCHANGED data)
    BY <1>2 DEF data
  <2>3. \A p \in Procs : ~SharingRequest(p) /\ ~DataRequest(p)
    BY <1>1, RequestsCount
  <2>4. ~(Around /\ UNCHANGED data)
    BY <1>2 DEF data
  <2> QED
    BY <2>1, <2>2, <2>3, <2>4 DEF Next
<1>4. PICK g, m : g = stored' /\ m = Name(p)
  OBVIOUS
<1>5. \/ Insert(p) \/ Update(p) \/ Delete(p) \/ AddColumn(p)
      \/ g = Less(stored, m)
  BY <1>2, <1>3, <1>4 DEF DataStep, CreateDescription, CreateUndo, Undone, Authorize,
     GetTableMetadata, DropTable, DropDescription, DataRefused, data
<1>6. CASE g = Less(stored, m)
  <2>1. g[n] = stored[n]
    BY <1>4, <1>6 DEF Less
  <2> QED
    BY <1>4, <2>1
<1>7. CASE Insert(p) \/ Update(p) \/ Delete(p) \/ AddColumn(p)
  <2>1. PICK tab : /\ m \in DOMAIN stored /\ g = [stored EXCEPT ![m] = tab]
                   /\ Theirs(p, stored[m].rows, tab.rows)
    BY <1>4, <1>7, Statements
  <2>2. n = m /\ g[m] = tab
    BY <1>4, <2>1
  <2>3. proc[p].org = r.org
    BY <1>4, <2>1, <2>2 DEF Theirs
  <2>4. proc'[p] # proc[p]
    BY <1>7, StatementMoves
  <2> QED
    BY <1>4, <2>2, <2>3, <2>4 DEF Touching
<1> QED
  BY <1>5, <1>6, <1>7

\* A row of a table comes, changes and goes by a request for the organization
\* whose row it is, for any number of organizations, tables and rows.
THEOREM RowsStayTheirs == Spec => RowsAreTheirs
<1> DEFINE StillTheirs == left' = left =>
              \A n \in DOMAIN stored \cap DOMAIN stored' :
                 \A r \in (stored[n].rows \ stored'[n].rows)
                             \cup (stored'[n].rows \ stored[n].rows) :
                    \E p \in Procs : proc'[p] # proc[p] /\ Name(p) = n /\ proc[p].org = r.org
<1>1. IInv /\ DataInv /\ [Next]_vars => [StillTheirs]_vars
  BY TheirsStep DEF Touching
<1>2. Spec => [][StillTheirs]_vars
  BY <1>1, DataInductive, PTL DEF Spec
<1> QED
  BY <1>2 DEF RowsAreTheirs
=============================================================================
