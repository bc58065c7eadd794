------------------------------ MODULE AppProofs ------------------------------
(***************************************************************************)
(* Proofs that the invariants of AppInvariants hold for all sets of        *)
(* goroutines, applications, names and versions, whatever calls fail, and  *)
(* that those of AppIsolated hold, and its refinement of AppLifecycle,     *)
(* when what fails is Docker or the object store.                          *)
(*                                                                         *)
(* What makes the first inductive is who may hold a deployment's number.   *)
(* While a deployment is in flight only its own goroutine does (Owned): no *)
(* row, and no copy of a row or container id in another goroutine, refers  *)
(* to it before DeployPublish. So a deployment that can still fail is one  *)
(* that nobody points to, and what rows and stale copies point to is       *)
(* settled. The second part is at AloneInv.                                *)
(***************************************************************************)
EXTENDS AppIsolated, TLAPS

\* Program counters at which the goroutine will save its copy of a row, will
\* record the container id it holds, or has a deployment in flight.
Saves == {"save", "putCode"}
Operates == {"startApp", "stopApp", "restartApp", "setStarted", "setStopped"}
Deploys == {"pull", "package", "network", "container", "start", "discard",
            "destroy", "failed", "setContainer", "setRunning", "publish"}

\* In the definitions below D, A, K stand for deployments, apps, packages, and l
\* for what a goroutine holds.
Produced(D, a, c) == c \in DOMAIN D /\ D[c].app = a /\ D[c].status # "failed"

RowOK(D, K, a, row) ==
    /\ row \in AppRow
    /\ Points(D, a, row)
    /\ row.source => K[a] # NoPackage

LocalOK(D, K, l) ==
    /\ l.pc \notin {"idle", "import"} => l.app \in Apps
    /\ l.pc \in {"import", "upload"} =>
          /\ l.row \in AppRow
          /\ l.row.status = "created" /\ l.row.container = 0 /\ ~l.row.source
    /\ l.pc = "source" => K[l.app] # NoPackage
    /\ l.pc \in Saves => RowOK(D, K, l.app, l.row)
    /\ l.pc \in Operates => Produced(D, l.app, l.id)
    /\ l.pc \in Deploys => /\ Produced(D, l.app, l.id)
                           /\ l.pc # "publish" => D[l.id].status = "building"

Refers(l, d) ==
    \/ l.pc \in Saves /\ l.row.container = d
    \/ l.pc \in Operates /\ l.id = d

LocalsOK == \A p \in Procs : LocalOK(deployments, packages, proc[p])

RowsOK == \A a \in Apps : Exists(a) => RowOK(deployments, packages, a, apps[a])

Owned ==
    \A p \in Procs : proc[p].pc \in Deploys =>
       /\ \A a \in Apps : Exists(a) => apps[a].container # proc[p].id
       /\ \A q \in Procs : ~Refers(proc[q], proc[p].id)
       /\ \A q \in Procs : proc[q].pc \in Deploys /\ proc[q].id = proc[p].id
                              => q = p

IInv == TypeOK /\ RowsOK /\ LocalsOK /\ Owned

-----------------------------------------------------------------------------
(***************************************************************************)
(* What a step may do to the tables while the deployments stay as they are.*)
(***************************************************************************)

\* A container id that somebody refers to already.
Known(d) ==
    \/ d = 0
    \/ \E a \in Apps : Exists(a) /\ apps[a].container = d
    \/ \E q \in Procs : Refers(proc[q], d)

\* A goroutine's own deployment is nobody's else.
LEMMA OwnIsUnknown ==
    ASSUME IInv, NEW p \in Procs, proc[p].pc \in Deploys
    PROVE  ~Known(proc[p].id) /\ proc[p].id \in DOMAIN deployments
<1>1. Produced(deployments, proc[p].app, proc[p].id)
  BY DEF IInv, LocalsOK, LocalOK
<1>2. proc[p].id # 0
  BY <1>1 DEF Produced, IInv, TypeOK
<1> QED
  BY <1>1, <1>2 DEF Known, IInv, Owned, Produced

\* A change of the packages that removes none keeps what rows and copies say.
LEMMA PackagesGrow ==
    ASSUME NEW D, NEW K, NEW L, \A a \in Apps : K[a] # NoPackage => L[a] # NoPackage,
           NEW l, LocalOK(D, K, l)
    PROVE  LocalOK(D, L, l)
BY DEF LocalOK, RowOK, Saves

LEMMA StepKeeps ==
    ASSUME IInv, NEW p \in Procs, NEW l,
           proc' = [proc EXCEPT ![p] = l],
           deployments' = deployments,
           \A a \in Apps : packages[a] # NoPackage => packages'[a] # NoPackage,
           LocalOK(deployments, packages', l),
           \A d : Refers(l, d) => Known(d),
           l.pc \in Deploys => proc[p].pc \in Deploys /\ l.id = proc[p].id,
           \A a \in Apps : apps'[a] # NoRow =>
              \/ apps'[a] = apps[a]
              \/ /\ RowOK(deployments, packages', a, apps'[a])
                 /\ \/ Known(apps'[a].container)
                    \/ /\ proc[p].pc \in Deploys /\ l.pc \notin Deploys
                       /\ apps'[a].container = proc[p].id
    PROVE  RowsOK' /\ LocalsOK' /\ Owned'
<1>1. proc'[p] = l /\ \A q \in Procs : q # p => proc'[q] = proc[q]
  BY DEF IInv, TypeOK
<1>2. RowsOK'
  BY DEF RowsOK, IInv, Exists, RowOK
<1>3. LocalsOK'
  <2> SUFFICES ASSUME NEW q \in Procs
               PROVE  LocalOK(deployments, packages', proc'[q])
    BY DEF LocalsOK
  <2>1. CASE q = p
    BY <2>1, <1>1
  <2>2. CASE q # p
    BY <2>2, <1>1, PackagesGrow DEF IInv, LocalsOK
  <2> QED
    BY <2>1, <2>2
<1>4. Owned'
  <2> SUFFICES ASSUME NEW q \in Procs, proc'[q].pc \in Deploys
               PROVE  /\ \A a \in Apps : apps'[a] # NoRow =>
                            apps'[a].container # proc'[q].id
                      /\ \A r \in Procs : ~Refers(proc'[r], proc'[q].id)
                      /\ \A r \in Procs :
                            proc'[r].pc \in Deploys /\ proc'[r].id = proc'[q].id
                               => r = q
    BY DEF Owned, Exists
  <2>1. proc[q].pc \in Deploys /\ proc'[q].id = proc[q].id
    BY <1>1
  <2>2. ~Known(proc[q].id)
    BY <2>1, OwnIsUnknown
  <2>3. \A r \in Procs : proc[r].pc \in Deploys /\ proc[r].id = proc[q].id => r = q
    BY <2>1 DEF IInv, Owned
  <2>4. ASSUME NEW a \in Apps, apps'[a] # NoRow, apps'[a].container = proc[q].id
        PROVE  FALSE
    <3>1. CASE apps'[a] = apps[a]
      BY <3>1, <2>4, <2>2 DEF Known, Exists
    <3>2. CASE Known(apps'[a].container)
      BY <3>2, <2>4, <2>2
    <3>3. CASE proc[p].pc \in Deploys /\ l.pc \notin Deploys
                 /\ apps'[a].container = proc[p].id
      BY <3>3, <2>4, <2>3, <1>1
    <3> QED
      BY <2>4, <3>1, <3>2, <3>3
  <2>5. ASSUME NEW r \in Procs PROVE ~Refers(proc'[r], proc[q].id)
    BY <1>1, <2>2 DEF Known
  <2>6. ASSUME NEW r \in Procs, proc'[r].pc \in Deploys, proc'[r].id = proc[q].id
        PROVE  r = q
    BY <1>1, <2>3, <2>6
  <2> QED
    BY <2>1, <2>4, <2>5, <2>6
<1> QED
  BY <1>2, <1>3, <1>4

-----------------------------------------------------------------------------
(***************************************************************************)
(* The cases of StepKeeps that recur: a goroutine that returns, one that   *)
(* only moves on.                                                          *)
(***************************************************************************)
LEMMA IdleIsOK ==
    ASSUME NEW D, NEW K
    PROVE  /\ LocalOK(D, K, Idle)
           /\ \A d : ~Refers(Idle, d)
           /\ Idle.pc \notin Deploys
BY DEF LocalOK, Refers, Idle, Saves, Operates, Deploys

LEMMA ReturnKeeps ==
    ASSUME IInv, NEW p \in Procs, Return(p), UNCHANGED deployments,
           \A a \in Apps : packages[a] # NoPackage => packages'[a] # NoPackage,
           \A a \in Apps : apps'[a] # NoRow =>
              \/ apps'[a] = apps[a]
              \/ /\ RowOK(deployments, packages', a, apps'[a])
                 /\ \/ Known(apps'[a].container)
                    \/ /\ proc[p].pc \in Deploys
                       /\ apps'[a].container = proc[p].id
    PROVE  RowsOK' /\ LocalsOK' /\ Owned'
<1> DEFINE l == Idle
<1>1. proc' = [proc EXCEPT ![p] = l]
  BY DEF Return, Becomes
<1>2. LocalOK(deployments, packages', l) /\ (\A d : ~Refers(l, d)) /\ l.pc \notin Deploys
  BY IdleIsOK
<1> HIDE DEF l
<1>3. \A a \in Apps : apps'[a] # NoRow =>
         \/ apps'[a] = apps[a]
         \/ /\ RowOK(deployments, packages', a, apps'[a])
            /\ \/ Known(apps'[a].container)
               \/ /\ proc[p].pc \in Deploys /\ l.pc \notin Deploys
                  /\ apps'[a].container = proc[p].id
  BY <1>2
<1>4. deployments' = deployments
  OBVIOUS
<1> QED
  BY <1>1, <1>2, <1>3, <1>4, StepKeeps

LEMMA MoveKeeps ==
    ASSUME IInv, NEW p \in Procs, NEW label, GoTo(p, label),
           UNCHANGED deployments,
           \A a \in Apps : packages[a] # NoPackage => packages'[a] # NoPackage,
           LocalOK(deployments, packages', Work(label, App(p), proc[p].row, proc[p].id)),
           label \in Saves => proc[p].pc \in Saves,
           label \in Operates => proc[p].pc \in Operates,
           label \in Deploys => proc[p].pc \in Deploys,
           \A a \in Apps : apps'[a] # NoRow =>
              \/ apps'[a] = apps[a]
              \/ /\ RowOK(deployments, packages', a, apps'[a])
                 /\ Known(apps'[a].container)
    PROVE  RowsOK' /\ LocalsOK' /\ Owned'
<1> DEFINE l == Work(label, App(p), proc[p].row, proc[p].id)
<1>1. proc' = [proc EXCEPT ![p] = l]
  BY DEF GoTo, Becomes, App
<1>2. LocalOK(deployments, packages', l)
  OBVIOUS
<1>3. l.pc = label /\ l.row = proc[p].row /\ l.id = proc[p].id
  BY DEF Work
<1>4. \A d : Refers(l, d) => Known(d)
  BY <1>3 DEF Refers, Known, Saves, Operates
<1> HIDE DEF l
<1> QED
  BY <1>1, <1>2, <1>3, <1>4, StepKeeps

LEMMA WorkIsLocal ==
    ASSUME NEW label \in Labels, NEW a \in Apps \cup {NoRow},
           NEW row \in AppRow \cup {NoRow}, NEW d \in Nat
    PROVE  Work(label, a, row, d) \in Local
BY DEF Work, Local

LEMMA LocalTypes ==
    ASSUME IInv, NEW p \in Procs
    PROVE  /\ proc[p] \in Local /\ Idle \in Local
           /\ App(p) \in Apps \cup {NoRow}
           /\ proc[p].row \in AppRow \cup {NoRow}
           /\ proc[p].id \in Nat
BY DEF IInv, TypeOK, Local, App, Idle, Labels

\* What a goroutine may become, as far as its type goes.
LEMMA ProcTypes ==
    ASSUME IInv, NEW p \in Procs
    PROVE  /\ \A l \in Local : Becomes(p, l) => proc' \in [Procs -> Local]
           /\ Return(p) => proc' \in [Procs -> Local]
           /\ \A label \in Labels : GoTo(p, label) => proc' \in [Procs -> Local]
<1>1. proc \in [Procs -> Local]
  BY DEF IInv, TypeOK
<1>2. \A l \in Local : Becomes(p, l) => proc' \in [Procs -> Local]
  BY <1>1 DEF Becomes
<1>3. \A label \in Labels : Work(label, proc[p].app, proc[p].row, proc[p].id) \in Local
  BY LocalTypes, WorkIsLocal DEF App
<1> QED
  BY <1>2, <1>3, LocalTypes DEF Return, GoTo

-----------------------------------------------------------------------------
(***************************************************************************)
(* Types.                                                                  *)
(***************************************************************************)
LEMMA RowTypes ==
    ASSUME NEW n \in Names, NEW v \in Versions
    PROVE  /\ NewRow(n, v) \in AppRow
           /\ \A row \in AppRow : Edited(row, n, v) \in AppRow
BY DEF NewRow, Edited, AppRow

LEMMA ColumnTypes ==
    ASSUME NEW row \in AppRow
    PROVE  /\ WithSource(row) \in AppRow
           /\ \A c \in Nat, status \in {"created", "running", "stopped", "deleted"} :
                 WithStatus(row, status, c) \in AppRow
BY DEF WithSource, WithStatus, AppRow

\* The tables' types, whatever part of the state an action changes.
AppsType == apps \in [Apps -> AppRow \cup {NoRow}]
PackagesType == /\ packages \in [Apps -> Versions \cup {NoPackage}]
                /\ cache \in [Apps -> Versions \cup {NoPackage}]
DockerType == /\ networks \in [Apps -> Nat]
              /\ containers \in [Apps -> [id: Nat, state: {"none", "created", "running",
                                                          "exited", "died"}]]

LEMMA SaveTypes ==
    ASSUME IInv, NEW a, NEW row \in AppRow \cup {NoRow}, Save(a, row)
    PROVE  AppsType'
BY DEF IInv, TypeOK, Save, AppsType

LEMMA UpdateStatusTypes ==
    ASSUME IInv, NEW a \in Apps, NEW status \in {"created", "running", "stopped", "deleted"},
           NEW c \in Nat, UpdateStatus(a, status, c)
    PROVE  AppsType'
<1>1. Exists(a) => WithStatus(apps[a], status, c) \in AppRow
  BY ColumnTypes DEF IInv, TypeOK, Exists
<1> QED
  BY <1>1 DEF IInv, TypeOK, UpdateStatus, AppsType

LEMMA DockerTypes ==
    ASSUME IInv, NEW a \in Apps, NEW c \in Nat
    PROVE  /\ \A state \in {"created", "running", "exited", "died"} :
                 SetState(a, c, state) /\ UNCHANGED networks => DockerType'
           /\ RemoveContainer(a, c) /\ UNCHANGED networks => DockerType'
           /\ RemoveNetwork(a, c) /\ UNCHANGED containers => DockerType'
<1> DEFINE C == [id: Nat, state: {"none", "created", "running", "exited", "died"}]
<1>1. networks \in [Apps -> Nat] /\ containers \in [Apps -> C]
  BY DEF IInv, TypeOK
<1>2. NoContainer \in C
  BY DEF NoContainer
<1>3. \A state \in {"created", "running", "exited", "died"} : [id |-> c, state |-> state] \in C
  OBVIOUS
<1> HIDE DEF C
<1>4. ASSUME NEW state \in {"created", "running", "exited", "died"}, SetState(a, c, state)
      PROVE  containers' \in [Apps -> C]
  BY <1>1, <1>3, <1>4 DEF SetState
<1>5. RemoveContainer(a, c) => containers' \in [Apps -> C]
  BY <1>1, <1>2 DEF RemoveContainer
<1>6. RemoveNetwork(a, c) => networks' \in [Apps -> Nat]
  BY <1>1 DEF RemoveNetwork
<1> QED
  BY <1>1, <1>4, <1>5, <1>6 DEF DockerType, C

-----------------------------------------------------------------------------
(***************************************************************************)
(* The requests: a goroutine that was idle holds what it has read.         *)
(***************************************************************************)
LEMMA UnchangedTypes ==
    ASSUME IInv
    PROVE  /\ UNCHANGED apps => AppsType'
           /\ UNCHANGED <<packages, cache>> => PackagesType'
           /\ UNCHANGED docker => DockerType'
BY DEF IInv, TypeOK, AppsType, PackagesType, DockerType, docker

LEMMA LoadKeeps ==
    ASSUME IInv, NEW p \in Procs, NEW l \in Local,
           Becomes(p, l), UNCHANGED <<store, docker>>,
           LocalOK(deployments, packages, l),
           \A d : Refers(l, d) => Known(d),
           l.pc \notin Deploys
    PROVE  IInv'
<1>1. UNCHANGED <<ids, apps, packages, cache, deployments>> /\ UNCHANGED docker
  BY DEF store
<1>2. TypeOK'
  BY <1>1, ProcTypes, UnchangedTypes
     DEF IInv, TypeOK, AppsType, PackagesType, DockerType
<1>3. proc' = [proc EXCEPT ![p] = l]
  BY DEF Becomes
<1>4. LocalOK(deployments, packages', l)
  BY <1>1
<1>5. RowsOK' /\ LocalsOK' /\ Owned'
  BY <1>1, <1>3, <1>4, StepKeeps
<1> QED
  BY <1>2, <1>5 DEF IInv

\* A row that is there can be copied, whatever is changed in it but its status
\* and its container.
LEMMA CopyIsOK ==
    ASSUME IInv, NEW a \in Apps, Exists(a)
    PROVE  /\ apps[a] \in AppRow
           /\ RowOK(deployments, packages, a, apps[a])
           /\ Known(apps[a].container)
           /\ apps[a].container \in Nat
           /\ apps[a].container # 0 =>
                 Produced(deployments, a, apps[a].container)
           /\ \A n \in Names, v \in Versions :
                 /\ Edited(apps[a], n, v) \in AppRow
                 /\ RowOK(deployments, packages, a, Edited(apps[a], n, v))
                 /\ Edited(apps[a], n, v).container = apps[a].container
<1>1. apps[a] \in AppRow /\ RowOK(deployments, packages, a, apps[a])
  BY DEF IInv, TypeOK, RowsOK, Exists
<1>2. Known(apps[a].container)
  BY DEF Known
<1>3. \A n \in Names, v \in Versions : Edited(apps[a], n, v) \in AppRow
  BY <1>1, RowTypes
<1>4. ASSUME NEW n \in Names, NEW v \in Versions
      PROVE  /\ Edited(apps[a], n, v).status = apps[a].status
             /\ Edited(apps[a], n, v).container = apps[a].container
             /\ Edited(apps[a], n, v).source = apps[a].source
  BY DEF Edited
<1>5. ASSUME NEW n \in Names, NEW v \in Versions
      PROVE  RowOK(deployments, packages, a, Edited(apps[a], n, v))
  BY <1>1, <1>3, <1>4 DEF RowOK, Points
<1>6. apps[a].container \in Nat
  BY <1>1 DEF AppRow
<1> QED
  BY <1>1, <1>2, <1>3, <1>4, <1>5, <1>6 DEF RowOK, Points, Produced

LEMMA WorkFields ==
    ASSUME NEW label, NEW a, NEW row, NEW d
    PROVE  /\ Work(label, a, row, d).pc = label
           /\ Work(label, a, row, d).app = a
           /\ Work(label, a, row, d).row = row
           /\ Work(label, a, row, d).id = d
BY DEF Work

LEMMA RequestKeeps ==
    ASSUME IInv, NEW p \in Procs, Request(p)
    PROVE  IInv'
<1>1. ASSUME NEW n \in Names, NEW v \in Versions, ImportCheck(p, n, v) PROVE IInv'
  <2> DEFINE l == Work("import", NoRow, NewRow(n, v), 0)
  <2>1. Becomes(p, l) /\ UNCHANGED <<store, docker>>
    BY <1>1 DEF ImportCheck
  <2>2. l \in Local
    BY RowTypes, WorkIsLocal DEF Labels
  <2>3. l.pc = "import" /\ l.row = NewRow(n, v)
    BY WorkFields
  <2> HIDE DEF l
  <2>4. LocalOK(deployments, packages, l) /\ (\A d : ~Refers(l, d)) /\ l.pc \notin Deploys
    BY <2>3, RowTypes DEF LocalOK, Refers, Saves, Operates, Deploys, NewRow
  <2> QED
    BY <2>1, <2>2, <2>4, LoadKeeps
<1>2. ASSUME NEW a \in Apps, NEW n \in Names, NEW v \in Versions, UpdateLoad(p, a, n, v)
      PROVE  IInv'
  <2> DEFINE l == Work("save", a, Edited(apps[a], n, v), 0)
  <2>1. Becomes(p, l) /\ UNCHANGED <<store, docker>> /\ Exists(a)
    BY <1>2 DEF UpdateLoad
  <2>2. l \in Local
    BY <2>1, CopyIsOK, WorkIsLocal DEF Labels
  <2>3. l.pc = "save" /\ l.row = Edited(apps[a], n, v) /\ l.app = a
    BY WorkFields
  <2> HIDE DEF l
  <2>4. LocalOK(deployments, packages, l) /\ l.pc \notin Deploys
        /\ \A d : Refers(l, d) => Known(d)
    BY <2>1, <2>3, CopyIsOK DEF LocalOK, Refers, Saves, Operates, Deploys
  <2> QED
    BY <2>1, <2>2, <2>4, LoadKeeps
<1>3. ASSUME NEW a \in Apps, NEW v \in Versions, CodeLoad(p, a, v)
      PROVE  IInv'
  <2> DEFINE d0 == IF v = apps[a].version THEN 0 ELSE 1
             l == Work("putCode", a, Edited(apps[a], apps[a].name, v), d0)
  <2>1. Becomes(p, l) /\ UNCHANGED <<store, docker>> /\ Exists(a)
    BY <1>3 DEF CodeLoad
  <2>2. apps[a].name \in Names
    BY <2>1, CopyIsOK DEF AppRow
  <2>3. d0 \in Nat
    OBVIOUS
  <2> HIDE DEF d0
  <2>4. l \in Local
    BY <2>1, <2>2, <2>3, CopyIsOK, WorkIsLocal DEF Labels
  <2>5. l.pc = "putCode" /\ l.row = Edited(apps[a], apps[a].name, v) /\ l.app = a
    BY WorkFields
  <2> HIDE DEF l
  <2>6. LocalOK(deployments, packages, l) /\ l.pc \notin Deploys
        /\ \A d : Refers(l, d) => Known(d)
    BY <2>1, <2>2, <2>5, CopyIsOK DEF LocalOK, Refers, Saves, Operates, Deploys
  <2> QED
    BY <2>1, <2>4, <2>6, LoadKeeps
<1>4. ASSUME NEW a \in Apps, DeployLoad(p, a) PROVE IInv'
  <2> DEFINE l == Work("record", a, apps[a], 0)
  <2>1. Becomes(p, l) /\ UNCHANGED <<store, docker>> /\ Exists(a)
    BY <1>4 DEF DeployLoad
  <2>2. l \in Local
    BY <2>1, CopyIsOK, WorkIsLocal DEF Labels
  <2>3. l.pc = "record" /\ l.app = a
    BY WorkFields
  <2> HIDE DEF l
  <2>4. LocalOK(deployments, packages, l) /\ l.pc \notin Deploys /\ \A d : ~Refers(l, d)
    BY <2>3 DEF LocalOK, Refers, Saves, Operates, Deploys
  <2> QED
    BY <2>1, <2>2, <2>4, LoadKeeps
<1>5. ASSUME NEW a \in Apps, NEW op \in Operations, OperateLoad(p, a, op) PROVE IInv'
  <2> DEFINE l == Work(op, a, apps[a], apps[a].container)
  <2>1. /\ Becomes(p, l) /\ UNCHANGED <<store, docker>>
        /\ Exists(a) /\ apps[a].container # 0
    BY <1>5 DEF OperateLoad
  <2>2. l \in Local
    BY <2>1, CopyIsOK, WorkIsLocal DEF Labels, Operations
  <2>3. l.pc \in Operations /\ l.app = a /\ l.id = apps[a].container
    BY WorkFields
  <2> HIDE DEF l
  <2>4. LocalOK(deployments, packages, l) /\ l.pc \notin Deploys
        /\ \A d : Refers(l, d) => Known(d)
    BY <2>1, <2>3, CopyIsOK
       DEF LocalOK, Refers, Saves, Operates, Deploys, Operations
  <2> QED
    BY <2>1, <2>2, <2>4, LoadKeeps
<1>6. ASSUME NEW a \in Apps, DeleteLoad(p, a) PROVE IInv'
  <2> DEFINE label == IF apps[a].container # 0 THEN "reload" ELSE "deleteRow"
             l == Work(label, a, NoRow, 0)
  <2>1. Becomes(p, l) /\ UNCHANGED <<store, docker>>
    BY <1>6 DEF DeleteLoad
  <2>2. label \in {"reload", "deleteRow"}
    OBVIOUS
  <2> HIDE DEF label
  <2>3. l \in Local
    BY <2>2, WorkIsLocal DEF Labels
  <2>4. l.pc = label /\ l.app = a
    BY WorkFields
  <2> HIDE DEF l
  <2>5. LocalOK(deployments, packages, l) /\ l.pc \notin Deploys /\ \A d : ~Refers(l, d)
    BY <2>2, <2>4 DEF LocalOK, Refers, Saves, Operates, Deploys
  <2> QED
    BY <2>1, <2>3, <2>5, LoadKeeps
<1> QED
  BY <1>1, <1>2, <1>3, <1>4, <1>5, <1>6 DEF Request

-----------------------------------------------------------------------------
(***************************************************************************)
(* The steps of a goroutine that leave the rows alone.                     *)
(***************************************************************************)
LEMMA LocalIsOK ==
    ASSUME IInv, NEW p \in Procs
    PROVE  /\ LocalOK(deployments, packages, proc[p])
           /\ proc[p].pc \notin {"idle", "import"} => App(p) \in Apps
BY DEF IInv, LocalsOK, LocalOK, App

LEMMA MovedOK ==
    ASSUME NEW D, NEW K, NEW l, LocalOK(D, K, l), l.pc \notin {"idle", "import"},
           NEW label, label \notin {"import", "upload", "source"},
           label \in Saves => l.pc \in Saves,
           label \in Operates => l.pc \in Operates,
           label \in Deploys => l.pc \in Deploys \ {"publish"}
    PROVE  LocalOK(D, K, Work(label, l.app, l.row, l.id))
<1> DEFINE m == Work(label, l.app, l.row, l.id)
<1>1. m.pc = label /\ m.app = l.app /\ m.row = l.row /\ m.id = l.id
  BY WorkFields
<1>2. l.app \in Apps
  BY DEF LocalOK
<1> HIDE DEF m
<1>3. label \in Deploys => Produced(D, l.app, l.id) /\ D[l.id].status = "building"
  BY DEF LocalOK
<1>4. label \in Saves => RowOK(D, K, l.app, l.row)
  BY DEF LocalOK
<1>5. label \in Operates => Produced(D, l.app, l.id)
  BY DEF LocalOK
<1> QED
  BY <1>1, <1>2, <1>3, <1>4, <1>5 DEF LocalOK, m

LEMMA GoOnKeeps ==
    ASSUME IInv, NEW p \in Procs, NEW label \in Labels, GoTo(p, label),
           UNCHANGED <<ids, apps, packages, deployments>>,
           PackagesType', DockerType',
           ~At(p, "idle"), ~At(p, "import"),
           label \notin {"import", "upload", "source"},
           label \in Saves => proc[p].pc \in Saves,
           label \in Operates => proc[p].pc \in Operates,
           label \in Deploys => proc[p].pc \in Deploys \ {"publish"}
    PROVE  IInv'
<1>1. LocalOK(deployments, packages, Work(label, App(p), proc[p].row, proc[p].id))
  BY LocalIsOK, MovedOK DEF At, App
<1>2. RowsOK' /\ LocalsOK' /\ Owned'
  <2>1. /\ deployments' = deployments /\ packages' = packages /\ apps' = apps
    OBVIOUS
  <2> QED
    BY <1>1, <2>1, MoveKeeps
<1>3. TypeOK'
  BY ProcTypes, UnchangedTypes DEF IInv, TypeOK, AppsType, PackagesType, DockerType
<1> QED
  BY <1>2, <1>3 DEF IInv

LEMMA EndKeeps ==
    ASSUME IInv, NEW p \in Procs, Return(p),
           UNCHANGED <<ids, packages, cache, deployments, docker>>,
           AppsType',
           \A a \in Apps : apps'[a] # NoRow =>
              \/ apps'[a] = apps[a]
              \/ /\ RowOK(deployments, packages, a, apps'[a])
                 /\ \/ Known(apps'[a].container)
                    \/ /\ proc[p].pc \in Deploys
                       /\ apps'[a].container = proc[p].id
    PROVE  IInv'
<1>1. packages' = packages /\ deployments' = deployments
  OBVIOUS
<1>2. RowsOK' /\ LocalsOK' /\ Owned'
  BY <1>1, ReturnKeeps
<1>3. TypeOK'
  BY ProcTypes, UnchangedTypes DEF IInv, TypeOK, AppsType, PackagesType, DockerType
<1> QED
  BY <1>2, <1>3 DEF IInv

LEMMA GiveUpKeeps ==
    ASSUME IInv, NEW p \in Procs, Return(p), UNCHANGED <<store, docker>>
    PROVE  IInv'
<1>1. UNCHANGED <<ids, apps, packages, cache, deployments, docker>>
  BY DEF store
<1> QED
  BY <1>1, EndKeeps, UnchangedTypes

LEMMA DeployGoesOnKeeps ==
    ASSUME IInv, NEW p \in Procs,
           \/ PullImage(p) \/ PreparePackage(p)
           \/ CreateSandbox(p) \/ CreateContainer(p) \/ StartContainer(p)
    PROVE  IInv'
<1>1. CASE PullImage(p)
  BY <1>1, GoOnKeeps, UnchangedTypes
     DEF PullImage, store, At, Labels, Saves, Operates, Deploys
<1>2. CASE PreparePackage(p)
  <2>1. App(p) \in Apps /\ packages[App(p)] \in Versions \cup {NoPackage}
    BY <1>2, LocalIsOK DEF PreparePackage, At, IInv, TypeOK
  <2>2. PackagesType'
    BY <1>2, <2>1 DEF PreparePackage, PackagesType, IInv, TypeOK
  <2> QED
    BY <1>2, <2>2, GoOnKeeps, UnchangedTypes
       DEF PreparePackage, At, Labels, Saves, Operates, Deploys
<1>3. CASE CreateSandbox(p)
  <2>1. DockerType'
    BY <1>3, LocalTypes
       DEF CreateSandbox, DockerType, IInv, TypeOK
  <2> QED
    BY <1>3, <2>1, GoOnKeeps, UnchangedTypes
       DEF CreateSandbox, store, At, Labels, Saves, Operates, Deploys
<1>4. CASE CreateContainer(p)
  <2>1. DockerType'
    BY <1>4, LocalTypes, LocalIsOK, DockerTypes DEF CreateContainer, At
  <2> QED
    BY <1>4, <2>1, GoOnKeeps, UnchangedTypes
       DEF CreateContainer, store, At, Labels, Saves, Operates, Deploys
<1>5. CASE StartContainer(p)
  <2>1. DockerType'
    BY <1>5, LocalTypes, LocalIsOK, DockerTypes DEF StartContainer, At
  <2> QED
    BY <1>5, <2>1, GoOnKeeps, UnchangedTypes
       DEF StartContainer, store, At, Labels, Saves, Operates, Deploys
<1> QED
  BY <1>1, <1>2, <1>3, <1>4, <1>5

LEMMA DeployBacksOutKeeps ==
    ASSUME IInv, NEW p \in Procs,
           \/ DeployEarlyFailure(p) \/ PackageFails(p) \/ CreateContainerFails(p)
           \/ StartContainerFails(p) \/ DiscardContainer(p) \/ DestroySandbox(p)
    PROVE  IInv'
<1>1. CASE DeployEarlyFailure(p)
  BY <1>1, GoOnKeeps, UnchangedTypes
     DEF DeployEarlyFailure, store, At, Labels, Saves, Operates, Deploys
<1>2. CASE PackageFails(p)
  <2>1. PackagesType'
    BY <1>2 DEF PackageFails, PackagesType, IInv, TypeOK
  <2> QED
    BY <1>2, <2>1, GoOnKeeps, UnchangedTypes
       DEF PackageFails, At, Labels, Saves, Operates, Deploys
<1>3. CASE CreateContainerFails(p)
  BY <1>3, GoOnKeeps, UnchangedTypes
     DEF CreateContainerFails, store, At, Labels, Saves, Operates, Deploys
<1>4. CASE StartContainerFails(p)
  BY <1>4, GoOnKeeps, UnchangedTypes
     DEF StartContainerFails, store, At, Labels, Saves, Operates, Deploys
<1>5. CASE DiscardContainer(p)
  <2>1. DockerType'
    BY <1>5, LocalTypes, LocalIsOK, DockerTypes DEF DiscardContainer, At
  <2> QED
    BY <1>5, <2>1, GoOnKeeps, UnchangedTypes
       DEF DiscardContainer, store, At, Labels, Saves, Operates, Deploys
<1>6. CASE DestroySandbox(p)
  <2>1. DockerType'
    BY <1>6, LocalTypes, LocalIsOK, DockerTypes DEF DestroySandbox, At
  <2> QED
    BY <1>6, <2>1, GoOnKeeps, UnchangedTypes
       DEF DestroySandbox, store, At, Labels, Saves, Operates, Deploys
<1> QED
  BY <1>1, <1>2, <1>3, <1>4, <1>5, <1>6

-----------------------------------------------------------------------------
(***************************************************************************)
(* The steps that write a row.                                             *)
(***************************************************************************)

\* UpdateStatus with a container that the application's deployment produced, or
\* with none, leaves a row that is right.
LEMMA StatusIsOK ==
    ASSUME IInv, NEW a \in Apps, NEW c \in Nat,
           NEW status \in {"created", "running", "stopped", "deleted"},
           UpdateStatus(a, status, c),
           \/ status \in {"running", "stopped"} /\ c # 0 /\ Produced(deployments, a, c)
           \/ status = "deleted" /\ c = 0
    PROVE  /\ AppsType'
           /\ \A b \in Apps : apps'[b] # NoRow =>
                 \/ apps'[b] = apps[b]
                 \/ RowOK(deployments, packages, b, apps'[b]) /\ b = a
                       /\ apps'[b].container = c
<1>1. AppsType'
  BY UpdateStatusTypes
<1>2. CASE ~Exists(a)
  BY <1>1, <1>2 DEF UpdateStatus
<1>3. CASE Exists(a)
  <2> DEFINE r == WithStatus(apps[a], status, c)
  <2>1. apps' = [apps EXCEPT ![a] = r] /\ apps \in [Apps -> AppRow \cup {NoRow}]
    BY <1>3 DEF UpdateStatus, IInv, TypeOK
  <2>2. r.status = status /\ r.container = c /\ r.source = apps[a].source
    BY DEF WithStatus
  <2>3. r \in AppRow
    BY <1>3, CopyIsOK, ColumnTypes
  <2>4. apps[a].source => packages[a] # NoPackage
    BY <1>3, CopyIsOK DEF RowOK
  <2> HIDE DEF r
  <2>5. RowOK(deployments, packages, a, r)
    BY <2>2, <2>3, <2>4 DEF RowOK, Points, Produced
  <2> QED
    BY <1>1, <2>1, <2>2, <2>5
<1> QED
  BY <1>2, <1>3

LEMMA OperateKeeps ==
    ASSUME IInv, NEW p \in Procs,
           \/ StartApp(p) \/ StopApp(p) \/ SetOperated(p)
           \/ OperateFails(p) \/ OperateFailsHalfway(p)
    PROVE  IInv'
<1>1. CASE StartApp(p)
  <2>1. DockerType'
    BY <1>1, LocalTypes, LocalIsOK, DockerTypes DEF StartApp, At
  <2> QED
    BY <1>1, <2>1, GoOnKeeps, UnchangedTypes
       DEF StartApp, store, At, Labels, Saves, Operates, Deploys
<1>2. CASE StopApp(p)
  <2>1. DockerType'
    BY <1>2, LocalTypes, LocalIsOK, DockerTypes DEF StopApp, At
  <2> QED
    BY <1>2, <2>1, GoOnKeeps, UnchangedTypes
       DEF StopApp, store, At, Labels, Saves, Operates, Deploys
<1>3. CASE OperateFails(p)
  BY <1>3, GiveUpKeeps DEF OperateFails
<1>5. CASE OperateFailsHalfway(p)
  <2>1. /\ proc[p].pc \in Operates /\ Return(p)
        /\ UNCHANGED <<ids, apps, packages, cache, deployments, networks>>
        /\ SetState(App(p), proc[p].id, "died")
    BY <1>5 DEF OperateFailsHalfway, At, Operates, store
  <2>2. App(p) \in Apps /\ proc[p].id \in Nat
    BY <2>1, LocalIsOK, LocalTypes DEF LocalOK, App, Operates
  <2>3. DockerType'
    BY <2>1, <2>2, DockerTypes
  <2>4. packages' = packages /\ deployments' = deployments /\ apps' = apps
    BY <2>1
  <2>5. RowsOK' /\ LocalsOK' /\ Owned'
    BY <2>1, <2>4, ReturnKeeps
  <2>6. TypeOK'
    BY <2>1, <2>3, ProcTypes, UnchangedTypes
       DEF IInv, TypeOK, AppsType, PackagesType, DockerType
  <2> QED
    BY <2>5, <2>6 DEF IInv
<1>4. CASE SetOperated(p)
  <2>1. PICK status \in {"running", "stopped"} : UpdateStatus(App(p), status, proc[p].id)
    BY <1>4 DEF SetOperated
  <2>2. /\ proc[p].pc \in Operates /\ Return(p)
        /\ UNCHANGED <<ids, packages, cache, deployments, docker>>
    BY <1>4 DEF SetOperated, At, Operates
  <2>3. App(p) \in Apps /\ Produced(deployments, App(p), proc[p].id)
    BY <2>2, LocalIsOK DEF LocalOK, App, Operates
  <2>4. Known(proc[p].id) /\ proc[p].id \in Nat /\ proc[p].id # 0
    BY <2>2, <2>3, LocalTypes DEF Known, Refers, Produced, IInv, TypeOK
  <2>5. AppsType' /\ \A b \in Apps : apps'[b] # NoRow =>
                        \/ apps'[b] = apps[b]
                        \/ RowOK(deployments, packages, b, apps'[b])
                              /\ Known(apps'[b].container)
    BY <2>1, <2>3, <2>4, StatusIsOK
  <2> QED
    BY <2>2, <2>5, EndKeeps
<1> QED
  BY <1>1, <1>2, <1>3, <1>4, <1>5

\* A container that exits disturbs no table.
LEMMA ExitKeeps ==
    ASSUME IInv, NEW a \in Apps, Exits(a)
    PROVE  IInv'
<1>1. UNCHANGED <<ids, apps, packages, cache, deployments, networks, proc>>
  BY DEF Exits, store
<1> DEFINE C == [id: Nat, state: {"none", "created", "running", "exited", "died"}]
<1>2. containers \in [Apps -> C] /\ containers' = [containers EXCEPT ![a].state = "died"]
  BY DEF IInv, TypeOK, Exits
<1>3. [containers[a] EXCEPT !.state = "died"] \in C
  BY <1>2
<1>4. containers' \in [Apps -> C]
  BY <1>2, <1>3
<1> QED
  BY <1>1, <1>4 DEF IInv, TypeOK, RowsOK, LocalsOK, Owned, Exists

LEMMA PublishKeeps ==
    ASSUME IInv, NEW p \in Procs, DeployPublish(p)
    PROVE  IInv'
<1>1. /\ proc[p].pc \in Deploys /\ Return(p)
      /\ UpdateStatus(App(p), "running", proc[p].id)
      /\ UNCHANGED <<ids, packages, cache, deployments, docker>>
  BY DEF DeployPublish, At, Deploys
<1>2. App(p) \in Apps /\ Produced(deployments, App(p), proc[p].id)
  BY <1>1, LocalIsOK DEF LocalOK, App, Deploys
<1>3. proc[p].id \in Nat /\ proc[p].id # 0
  BY <1>2, LocalTypes DEF Produced, IInv, TypeOK
<1>4. AppsType' /\ \A b \in Apps : apps'[b] # NoRow =>
                      \/ apps'[b] = apps[b]
                      \/ RowOK(deployments, packages, b, apps'[b])
                            /\ apps'[b].container = proc[p].id
  BY <1>1, <1>2, <1>3, StatusIsOK
<1> QED
  BY <1>1, <1>4, EndKeeps

\* Saving a copy that is right, or removing a row.
LEMMA SaveKeeps ==
    ASSUME IInv, NEW p \in Procs, Return(p), NEW a, NEW row \in AppRow \cup {NoRow},
           Save(a, row),
           UNCHANGED <<ids, packages, cache, deployments, docker>>,
           row # NoRow => RowOK(deployments, packages, a, row) /\ Known(row.container)
    PROVE  IInv'
<1>1. AppsType'
  BY SaveTypes
<1>2. \A b \in Apps : apps'[b] = IF b = a THEN row ELSE apps[b]
  BY DEF Save, IInv, TypeOK
<1>3. \A b \in Apps : apps'[b] # NoRow =>
         \/ apps'[b] = apps[b]
         \/ RowOK(deployments, packages, b, apps'[b]) /\ Known(apps'[b].container)
  BY <1>2
<1> QED
  BY <1>1, <1>3, EndKeeps

LEMMA UpdateKeeps ==
    ASSUME IInv, NEW p \in Procs, UpdateSave(p) \/ CodePut(p) \/ CodePutFails(p)
    PROVE  IInv'
<1>1. CASE UpdateSave(p)
  <2>1. RowOK(deployments, packages, App(p), proc[p].row) /\ Known(proc[p].row.container)
    BY <1>1, LocalIsOK DEF UpdateSave, At, LocalOK, App, Saves, Known, Refers
  <2>2. proc[p].row \in AppRow
    BY <2>1 DEF RowOK
  <2> QED
    BY <1>1, <2>1, <2>2, SaveKeeps DEF UpdateSave
<1>2. CASE CodePutFails(p)
  BY <1>2, GiveUpKeeps DEF CodePutFails
<1>3. CASE CodePut(p)
  <2>1. /\ proc[p].pc = "putCode" /\ App(p) \in Apps
        /\ RowOK(deployments, packages, App(p), proc[p].row)
    BY <1>3, LocalIsOK DEF CodePut, At, LocalOK, App, Saves
  <2>2. proc[p].row.version \in Versions
    BY <2>1 DEF RowOK, AppRow
  <2>3. /\ packages' = [packages EXCEPT ![App(p)] = proc[p].row.version]
        /\ packages \in [Apps -> Versions \cup {NoPackage}]
        /\ UNCHANGED <<ids, apps, cache, deployments, docker>>
    BY <1>3 DEF CodePut, IInv, TypeOK
  <2>4. PackagesType'
    BY <2>2, <2>3 DEF PackagesType, IInv, TypeOK
  <2>5. \A a \in Apps : packages[a] # NoPackage => packages'[a] # NoPackage
    BY <2>2, <2>3, NoPackageAssumption
  <2>6. CASE Return(p)
    <3>1. RowsOK' /\ LocalsOK' /\ Owned'
      <4>1. deployments' = deployments /\ apps' = apps
        BY <2>3
      <4> QED
        BY <4>1, <2>5, <2>6, ReturnKeeps
    <3>2. TypeOK'
      BY <2>3, <2>4, <2>6, ProcTypes, UnchangedTypes
         DEF IInv, TypeOK, AppsType, PackagesType, DockerType
    <3> QED
      BY <3>1, <3>2 DEF IInv
  <2>7. CASE GoTo(p, "save")
    <3>1. LocalOK(deployments, packages, Work("save", App(p), proc[p].row, proc[p].id))
      BY <2>1, LocalIsOK, MovedOK DEF App, Saves, Operates, Deploys
    <3>2. LocalOK(deployments, packages', Work("save", App(p), proc[p].row, proc[p].id))
      BY <3>1, <2>5, PackagesGrow
    <3>3. RowsOK' /\ LocalsOK' /\ Owned'
      <4>1. deployments' = deployments /\ apps' = apps
        BY <2>3
      <4>2. "save" \notin Operates /\ "save" \notin Deploys /\ proc[p].pc \in Saves
        BY <2>1 DEF Saves, Operates, Deploys
      <4> QED
        BY <4>1, <4>2, <3>2, <2>5, <2>7, MoveKeeps
    <3>4. TypeOK'
      BY <2>3, <2>4, <2>7, ProcTypes, UnchangedTypes
         DEF IInv, TypeOK, AppsType, PackagesType, DockerType, Labels
    <3> QED
      BY <3>3, <3>4 DEF IInv
  <2> QED
    BY <1>3, <2>6, <2>7 DEF CodePut
<1> QED
  BY <1>1, <1>2, <1>3

\* A new row, under an id never used.
LEMMA NewRowKeeps ==
    ASSUME IInv, NEW a \in Apps, NEW row \in AppRow, Save(a, row),
           row.status = "created", row.container = 0, ~row.source
    PROVE  /\ AppsType'
           /\ \A b \in Apps : apps'[b] # NoRow =>
                 \/ apps'[b] = apps[b]
                 \/ RowOK(deployments, packages, b, apps'[b]) /\ Known(apps'[b].container)
<1>1. AppsType'
  BY SaveTypes
<1>2. RowOK(deployments, packages, a, row) /\ Known(row.container)
  BY DEF RowOK, Points, Known
<1>3. \A b \in Apps : apps'[b] = IF b = a THEN row ELSE apps[b]
  BY DEF Save, IInv, TypeOK
<1> QED
  BY <1>1, <1>2, <1>3

LEMMA ImportKeeps ==
    ASSUME IInv, NEW p \in Procs,
           \/ ImportCreate(p) \/ ImportUpload(p) \/ ImportUploadFails(p)
           \/ ImportUndo(p) \/ ImportSource(p)
    PROVE  IInv'
<1>1. CASE ImportCreate(p)
  <2>1. PICK a \in Apps \ ids : /\ ids' = ids \cup {a}
                                /\ Save(a, proc[p].row)
                                /\ Becomes(p, Work("upload", a, proc[p].row, 0))
    BY <1>1 DEF ImportCreate
  <2> DEFINE l == Work("upload", a, proc[p].row, 0)
  <2>2. /\ proc[p].row \in AppRow
        /\ proc[p].row.status = "created" /\ proc[p].row.container = 0
        /\ ~proc[p].row.source
    BY <1>1, LocalIsOK DEF ImportCreate, At, LocalOK
  <2>3. l.pc = "upload" /\ l.app = a /\ l.row = proc[p].row
    BY WorkFields
  <2>4. l \in Local
    BY <2>2, WorkIsLocal DEF Labels
  <2>5. Becomes(p, l) /\ UNCHANGED <<packages, cache, deployments, docker>>
    BY <1>1, <2>1 DEF ImportCreate
  <2> HIDE DEF l
  <2>6. AppsType' /\ \A b \in Apps : apps'[b] # NoRow =>
           \/ apps'[b] = apps[b]
           \/ RowOK(deployments, packages, b, apps'[b]) /\ Known(apps'[b].container)
    BY <2>1, <2>2, NewRowKeeps
  <2>7. /\ LocalOK(deployments, packages, l) /\ l.pc \notin Deploys
        /\ \A d : ~Refers(l, d)
    BY <2>2, <2>3 DEF LocalOK, Refers, Saves, Operates, Deploys
  <2>8. RowsOK' /\ LocalsOK' /\ Owned'
    <3>1. /\ deployments' = deployments /\ packages' = packages
          /\ proc' = [proc EXCEPT ![p] = l]
      BY <2>5 DEF Becomes
    <3> QED
      BY <3>1, <2>6, <2>7, StepKeeps
  <2>9. TypeOK'
    BY <2>1, <2>4, <2>5, <2>6, ProcTypes, UnchangedTypes
       DEF IInv, TypeOK, AppsType, PackagesType, DockerType
  <2> QED
    BY <2>8, <2>9 DEF IInv
<1>2. CASE ImportUpload(p)
  <2>1. proc[p].pc = "upload" /\ App(p) \in Apps /\ proc[p].row \in AppRow
    BY <1>2, LocalIsOK DEF ImportUpload, At, LocalOK
  <2>2. proc[p].row.version \in Versions
    BY <2>1 DEF AppRow
  <2>3. /\ packages' = [packages EXCEPT ![App(p)] = proc[p].row.version]
        /\ packages \in [Apps -> Versions \cup {NoPackage}]
        /\ GoTo(p, "source")
        /\ UNCHANGED <<ids, apps, cache, deployments, docker>>
    BY <1>2 DEF ImportUpload, IInv, TypeOK
  <2>4. PackagesType'
    BY <2>2, <2>3 DEF PackagesType, IInv, TypeOK
  <2>5. \A a \in Apps : packages[a] # NoPackage => packages'[a] # NoPackage
    BY <2>2, <2>3, NoPackageAssumption
  <2>6. packages'[App(p)] # NoPackage
    BY <2>1, <2>2, <2>3, NoPackageAssumption
  <2> DEFINE l == Work("source", App(p), proc[p].row, proc[p].id)
  <2>7. l.pc = "source" /\ l.app = App(p)
    BY WorkFields
  <2> HIDE DEF l
  <2>8. LocalOK(deployments, packages', l)
    BY <2>1, <2>6, <2>7 DEF LocalOK, Saves, Operates, Deploys
  <2>9. RowsOK' /\ LocalsOK' /\ Owned'
    <3>1. deployments' = deployments /\ apps' = apps
      BY <2>3
    <3>2. "source" \notin Saves /\ "source" \notin Operates /\ "source" \notin Deploys
      BY DEF Saves, Operates, Deploys
    <3> QED
      BY <3>1, <3>2, <2>3, <2>5, <2>8, MoveKeeps DEF l
  <2>10. TypeOK'
    BY <2>3, <2>4, ProcTypes, UnchangedTypes
       DEF IInv, TypeOK, AppsType, PackagesType, DockerType, Labels
  <2> QED
    BY <2>9, <2>10 DEF IInv
<1>3. CASE ImportUploadFails(p)
  BY <1>3, GoOnKeeps, UnchangedTypes
     DEF ImportUploadFails, store, At, Labels, Saves, Operates, Deploys
<1>4. CASE ImportUndo(p)
  BY <1>4, SaveKeeps DEF ImportUndo
<1>5. CASE ImportSource(p)
  <2> DEFINE a == App(p)
             r == WithSource(apps[a])
  <2>1. a \in Apps /\ packages[a] # NoPackage
    BY <1>5, LocalIsOK DEF ImportSource, At, LocalOK, App
  <2>2. /\ apps' = IF Exists(a) THEN [apps EXCEPT ![a] = r] ELSE apps
        /\ Return(p) /\ UNCHANGED <<ids, packages, cache, deployments, docker>>
    BY <1>5 DEF ImportSource
  <2>3. ASSUME Exists(a)
        PROVE  r \in AppRow /\ RowOK(deployments, packages, a, r) /\ Known(r.container)
    <3>1. /\ apps[a] \in AppRow /\ RowOK(deployments, packages, a, apps[a])
          /\ Known(apps[a].container)
      BY <2>1, <2>3, CopyIsOK
    <3>2. r \in AppRow
      BY <3>1, ColumnTypes
    <3>3. r.status = apps[a].status /\ r.container = apps[a].container
      BY DEF WithSource
    <3> QED
      BY <2>1, <3>1, <3>2, <3>3 DEF RowOK, Points
  <2> HIDE DEF r, a
  <2>4. CASE Exists(a)
    BY <2>2, <2>3, <2>4, SaveKeeps DEF Save
  <2>5. CASE ~Exists(a)
    BY <2>2, <2>5, EndKeeps, UnchangedTypes
  <2> QED
    BY <2>4, <2>5
<1> QED
  BY <1>1, <1>2, <1>3, <1>4, <1>5

LEMMA CreateKeeps ==
    ASSUME IInv, NEW n \in Names, NEW v \in Versions, Create(n, v)
    PROVE  IInv'
<1>1. PICK a \in Apps \ ids : ids' = ids \cup {a} /\ Save(a, NewRow(n, v))
  BY DEF Create
<1>2. UNCHANGED <<packages, cache, deployments, docker, proc>>
  BY DEF Create
<1>3. /\ NewRow(n, v) \in AppRow /\ NewRow(n, v).container = 0
      /\ NewRow(n, v).status = "created" /\ ~NewRow(n, v).source
  BY RowTypes DEF NewRow
<1>4. AppsType' /\ \A b \in Apps : apps'[b] # NoRow =>
         \/ apps'[b] = apps[b]
         \/ RowOK(deployments, packages, b, apps'[b]) /\ Known(apps'[b].container)
  BY <1>1, <1>3, NewRowKeeps
<1>5. TypeOK'
  BY <1>1, <1>2, <1>4, UnchangedTypes
     DEF IInv, TypeOK, AppsType, PackagesType, DockerType
<1>6. RowsOK'
  BY <1>2, <1>4 DEF RowsOK, IInv, Exists
<1>7. LocalsOK'
  BY <1>2 DEF LocalsOK, IInv
<1>8. Owned'
  <2> SUFFICES ASSUME NEW p \in Procs, proc[p].pc \in Deploys,
                      NEW b \in Apps, apps'[b] # NoRow
               PROVE  apps'[b].container # proc[p].id
    BY <1>2 DEF IInv, Owned, Exists
  <2> QED
    BY <1>4, OwnIsUnknown DEF Known, Exists
<1> QED
  BY <1>5, <1>6, <1>7, <1>8 DEF IInv

LEMMA DeleteKeeps ==
    ASSUME IInv, NEW p \in Procs,
           \/ DeleteReload(p) \/ DeleteContainer(p) \/ DeleteNetwork(p)
           \/ DeleteMark(p) \/ DeleteRow(p)
    PROVE  IInv'
<1>1. CASE DeleteReload(p)
  <2>1. App(p) \in Apps /\ proc[p].pc = "reload"
    BY <1>1, LocalIsOK DEF DeleteReload, At
  <2>2. CASE Exists(App(p))
    <3> DEFINE l == Work("remove", App(p), NoRow, apps[App(p)].container)
    <3>1. Becomes(p, l) /\ UNCHANGED <<store, docker>>
      BY <1>1, <2>2 DEF DeleteReload
    <3>2. l \in Local
      BY <2>1, <2>2, CopyIsOK, WorkIsLocal DEF Labels
    <3>3. l.pc = "remove" /\ l.app = App(p)
      BY WorkFields
    <3> HIDE DEF l
    <3>4. LocalOK(deployments, packages, l) /\ l.pc \notin Deploys /\ \A d : ~Refers(l, d)
      BY <2>1, <3>3 DEF LocalOK, Refers, Saves, Operates, Deploys
    <3> QED
      BY <3>1, <3>2, <3>4, LoadKeeps
  <2>3. CASE ~Exists(App(p))
    BY <1>1, <2>3, GoOnKeeps, UnchangedTypes
       DEF DeleteReload, store, At, Labels, Saves, Operates, Deploys
  <2> QED
    BY <2>2, <2>3
<1>2. CASE DeleteContainer(p)
  <2>1. DockerType'
    <3>1. App(p) \in Apps /\ proc[p].id \in Nat
      BY <1>2, LocalTypes, LocalIsOK DEF DeleteContainer, At
    <3>2. \/ RemoveContainer(App(p), proc[p].id) /\ UNCHANGED networks
          \/ UNCHANGED docker
      BY <1>2 DEF DeleteContainer, docker
    <3> QED
      BY <3>1, <3>2, DockerTypes, UnchangedTypes
  <2> QED
    BY <1>2, <2>1, GoOnKeeps, UnchangedTypes
       DEF DeleteContainer, store, At, Labels, Saves, Operates, Deploys
<1>3. CASE DeleteNetwork(p)
  <2>1. DockerType'
    <3>1. App(p) \in Apps /\ networks[App(p)] \in Nat
      BY <1>3, LocalTypes, LocalIsOK DEF DeleteNetwork, At, IInv, TypeOK
    <3> QED
      BY <1>3, <3>1, DockerTypes DEF DeleteNetwork
  <2> QED
    BY <1>3, <2>1, GoOnKeeps, UnchangedTypes
       DEF DeleteNetwork, store, At, Labels, Saves, Operates, Deploys
<1>4. CASE DeleteMark(p)
  <2>1. /\ App(p) \in Apps /\ proc[p].pc = "markDeleted"
        /\ UpdateStatus(App(p), "deleted", 0) /\ GoTo(p, "deleteRow")
        /\ UNCHANGED <<ids, packages, cache, deployments, docker>>
    BY <1>4, LocalIsOK DEF DeleteMark, At
  <2>2. AppsType' /\ \A b \in Apps : apps'[b] # NoRow =>
           \/ apps'[b] = apps[b]
           \/ RowOK(deployments, packages, b, apps'[b]) /\ Known(apps'[b].container)
    BY <2>1, StatusIsOK DEF Known
  <2>3. "deleteRow" \notin Saves /\ "deleteRow" \notin Operates
        /\ "deleteRow" \notin Deploys
    BY DEF Saves, Operates, Deploys
  <2>4. LocalOK(deployments, packages, Work("deleteRow", App(p), proc[p].row, proc[p].id))
    BY <2>1, <2>3, LocalIsOK, MovedOK DEF App
  <2>5. RowsOK' /\ LocalsOK' /\ Owned'
    <3>1. deployments' = deployments /\ packages' = packages
      BY <2>1
    <3> QED
      BY <3>1, <2>1, <2>2, <2>3, <2>4, MoveKeeps
  <2>6. TypeOK'
    BY <2>1, <2>2, ProcTypes, UnchangedTypes
       DEF IInv, TypeOK, AppsType, PackagesType, DockerType, Labels
  <2> QED
    BY <2>5, <2>6 DEF IInv
<1>5. CASE DeleteRow(p)
  BY <1>5, SaveKeeps DEF DeleteRow
<1> QED
  BY <1>1, <1>2, <1>3, <1>4, <1>5

\* Where a goroutine goes when the error of its call is dropped.
LEMMA OnwardIsOK ==
    ASSUME NEW x \in DOMAIN Onward, Onward[x] # "idle"
    PROVE  /\ Onward[x] \in Labels \ {"import", "upload", "source"}
           /\ x \notin {"idle", "import"}
           /\ Onward[x] \notin Saves /\ Onward[x] \notin Operates
           /\ Onward[x] \in Deploys => x \in Deploys \ {"publish"}
BY DEF Onward, Labels, Saves, Operates, Deploys

LEMMA FaultKeeps ==
    ASSUME IInv, NEW p \in Procs, Dropped(p) \/ Gone(p)
    PROVE  IInv'
<1>1. CASE Return(p)
  BY <1>1, GiveUpKeeps DEF Dropped, Gone
<1>2. CASE Dropped(p) /\ ~Return(p)
  <2> DEFINE x == proc[p].pc
             label == Onward[x]
  <2>1. x \in DOMAIN Onward /\ label # "idle" /\ GoTo(p, label) /\ UNCHANGED <<store, docker>>
    BY <1>2 DEF Dropped
  <2>2. /\ label \in Labels \ {"import", "upload", "source"}
        /\ x \notin {"idle", "import"}
        /\ label \notin Saves /\ label \notin Operates
        /\ label \in Deploys => x \in Deploys \ {"publish"}
    BY <2>1, OnwardIsOK
  <2> HIDE DEF label
  <2> QED
    BY <2>1, <2>2, GoOnKeeps, UnchangedTypes DEF store, At
<1> QED
  BY <1>1, <1>2 DEF Gone

-----------------------------------------------------------------------------
(***************************************************************************)
(* The steps that change a deployment: nobody else refers to it.           *)
(***************************************************************************)
\* E differs from D at d0 at most.
Differs(D, E, d0) ==
    \A d \in DOMAIN D : d \in DOMAIN E /\ (d # d0 => E[d] = D[d])

LEMMA OthersStay ==
    ASSUME NEW D, NEW E, NEW d0, Differs(D, E, d0), NEW K
    PROVE  /\ \A a, c : Produced(D, a, c) /\ c # d0 => Produced(E, a, c)
           /\ \A a, row : RowOK(D, K, a, row) /\ row.container # d0 => RowOK(E, K, a, row)
           /\ \A l : LocalOK(D, K, l) /\ ~Refers(l, d0)
                        /\ ~(l.pc \in Deploys /\ l.id = d0) => LocalOK(E, K, l)
<1>1. \A a, c : Produced(D, a, c) /\ c # d0 => Produced(E, a, c)
  BY DEF Differs, Produced
<1>2. ASSUME NEW a, NEW row, RowOK(D, K, a, row), row.container # d0
      PROVE  RowOK(E, K, a, row)
  BY <1>2 DEF Differs, RowOK, Points
<1>3. ASSUME NEW l, LocalOK(D, K, l), ~Refers(l, d0), ~(l.pc \in Deploys /\ l.id = d0)
      PROVE  LocalOK(E, K, l)
  <2>1. l.pc \in Saves => RowOK(E, K, l.app, l.row)
    BY <1>2, <1>3 DEF LocalOK, Refers
  <2>2. l.pc \in Operates => Produced(E, l.app, l.id)
    BY <1>1, <1>3 DEF LocalOK, Refers
  <2>3. l.pc \in Deploys => /\ Produced(E, l.app, l.id)
                            /\ l.pc # "publish" => E[l.id].status = "building"
    BY <1>1, <1>3 DEF LocalOK, Differs, Produced
  <2> QED
    BY <1>3, <2>1, <2>2, <2>3 DEF LocalOK
<1> QED
  BY <1>1, <1>2, <1>3

LEMMA DeploymentKeeps ==
    ASSUME IInv, NEW p \in Procs, NEW l \in Local, NEW d0,
           Becomes(p, l), UNCHANGED <<ids, apps, packages, cache, docker>>,
           deployments' \in Seq(DeploymentRow),
           Differs(deployments, deployments', d0),
           \A a \in Apps : Exists(a) => apps[a].container # d0,
           \A q \in Procs : ~Refers(proc[q], d0),
           \A q \in Procs : proc[q].pc \in Deploys /\ proc[q].id = d0 => q = p,
           LocalOK(deployments', packages, l),
           \A d : ~Refers(l, d),
           l.pc \in Deploys => l.id = d0
    PROVE  IInv'
<1>1. /\ proc'[p] = l /\ \A q \in Procs : q # p => proc'[q] = proc[q]
      /\ apps' = apps /\ packages' = packages
  BY DEF IInv, TypeOK, Becomes
<1>2. TypeOK'
  BY ProcTypes, UnchangedTypes DEF IInv, TypeOK, AppsType, PackagesType, DockerType
<1>3. RowsOK'
  <2> SUFFICES ASSUME NEW a \in Apps, Exists(a)
               PROVE  RowOK(deployments', packages, a, apps[a])
    BY <1>1 DEF RowsOK, Exists
  <2> QED
    BY OthersStay DEF IInv, RowsOK
<1>4. LocalsOK'
  <2> SUFFICES ASSUME NEW q \in Procs PROVE LocalOK(deployments', packages, proc'[q])
    BY <1>1 DEF LocalsOK
  <2> QED
    BY <1>1, OthersStay DEF IInv, LocalsOK
<1>5. Owned'
  <2> SUFFICES ASSUME NEW q \in Procs, proc'[q].pc \in Deploys
               PROVE  /\ \A a \in Apps : Exists(a) => apps[a].container # proc'[q].id
                      /\ \A r \in Procs : ~Refers(proc'[r], proc'[q].id)
                      /\ \A r \in Procs :
                            proc'[r].pc \in Deploys /\ proc'[r].id = proc'[q].id
                               => r = q
    BY <1>1 DEF Owned, Exists
  <2>1. CASE q = p
    BY <2>1, <1>1
  <2>2. CASE q # p
    BY <2>2, <1>1 DEF IInv, Owned
  <2> QED
    BY <2>1, <2>2
<1> QED
  BY <1>2, <1>3, <1>4, <1>5 DEF IInv

LEMMA RecordKeeps ==
    ASSUME IInv, NEW p \in Procs, DeployRecord(p)
    PROVE  IInv'
<1> DEFINE n == Len(deployments) + 1
           r == [app |-> App(p), status |-> "building", container |-> 0]
           l == Work("pull", App(p), proc[p].row, n)
<1>1. /\ proc[p].pc = "record" /\ App(p) \in Apps
      /\ proc[p].row \in AppRow \cup {NoRow}
  BY LocalIsOK, LocalTypes DEF DeployRecord, At
<1>2. /\ deployments' = Append(deployments, r) /\ Becomes(p, l)
      /\ UNCHANGED <<ids, apps, packages, cache, docker>>
  BY DEF DeployRecord
<1>3. deployments \in Seq(DeploymentRow) /\ r \in DeploymentRow
  BY <1>1 DEF IInv, TypeOK, DeploymentRow
<1>4. r.app = App(p) /\ r.status = "building"
  OBVIOUS
<1>5. n \in Nat
  BY <1>3
<1> HIDE DEF r, n
<1>6. /\ l \in Local
      /\ l.pc = "pull" /\ l.app = App(p) /\ l.id = n
  BY <1>1, <1>5, WorkIsLocal, WorkFields DEF Labels
<1> HIDE DEF l
<1>7. /\ deployments' \in Seq(DeploymentRow) /\ n \in DOMAIN deployments'
      /\ deployments'[n] = r /\ n \notin DOMAIN deployments /\ n # 0
      /\ Differs(deployments, deployments', n)
  BY <1>2, <1>3 DEF Differs, n
<1>8. \A a \in Apps : Exists(a) => apps[a].container # n
  BY <1>7 DEF IInv, RowsOK, RowOK, Points
<1>9. \A q \in Procs : ~Refers(proc[q], n)
  BY <1>7 DEF IInv, LocalsOK, LocalOK, RowOK, Points, Produced, Refers
<1>10. \A q \in Procs : ~(proc[q].pc \in Deploys /\ proc[q].id = n)
  BY <1>7 DEF IInv, LocalsOK, LocalOK, Produced
<1>11. LocalOK(deployments', packages, l) /\ \A d : ~Refers(l, d)
  BY <1>1, <1>4, <1>6, <1>7
     DEF LocalOK, Produced, Refers, Saves, Operates, Deploys
<1> QED
  BY <1>2, <1>6, <1>7, <1>8, <1>9, <1>10, <1>11, DeploymentKeeps

\* What the three updates of a deployment by its own goroutine have in common.
LEMMA UpdateOwn ==
    ASSUME IInv, NEW p \in Procs, proc[p].pc \in Deploys \ {"publish"},
           NEW status \in {"building", "running", "failed"}, NEW c \in Nat,
           UpdateDeployment(proc[p].id, status, c),
           NEW l \in Local, Becomes(p, l),
           UNCHANGED <<ids, apps, packages, cache, docker>>,
           \/ l = Idle
           \/ /\ l.pc \in {"setRunning", "publish"} /\ status # "failed"
              /\ l.app = App(p) /\ l.id = proc[p].id
              /\ l.pc = "setRunning" => status = "building"
    PROVE  /\ IInv'
           /\ deployments[proc[p].id].status = "building"
           /\ Differs(deployments, deployments', proc[p].id)
           /\ deployments'[proc[p].id].app = deployments[proc[p].id].app
<1> DEFINE d == proc[p].id
           r == [app |-> deployments[d].app, status |-> status, container |-> c]
<1>1. /\ App(p) \in Apps /\ d \in DOMAIN deployments
      /\ deployments[d].app = App(p) /\ deployments[d].status = "building"
  BY LocalIsOK DEF LocalOK, App, Produced, Deploys
<1>2. deployments' = [deployments EXCEPT ![d] = r] /\ deployments \in Seq(DeploymentRow)
  BY DEF UpdateDeployment, IInv, TypeOK
<1>3. r \in DeploymentRow /\ r.app = App(p) /\ r.status = status
  BY <1>1 DEF DeploymentRow
<1> HIDE DEF r, d
<1>4. /\ deployments' \in Seq(DeploymentRow) /\ DOMAIN deployments' = DOMAIN deployments
      /\ deployments'[d] = r
      /\ Differs(deployments, deployments', d)
  BY <1>1, <1>2, <1>3 DEF Differs
<1>5. /\ \A a \in Apps : Exists(a) => apps[a].container # d
      /\ \A q \in Procs : ~Refers(proc[q], d)
      /\ \A q \in Procs : proc[q].pc \in Deploys /\ proc[q].id = d => q = p
  BY DEF IInv, Owned, d
<1>6. /\ LocalOK(deployments', packages, l) /\ \A e : ~Refers(l, e)
      /\ l.pc \in Deploys => l.id = d
  <2>1. CASE l = Idle
    BY <2>1, IdleIsOK
  <2>2. CASE l # Idle
    BY <2>2, <1>1, <1>3, <1>4
       DEF LocalOK, Produced, Refers, Saves, Operates, Deploys, d
  <2> QED
    BY <2>1, <2>2
<1>7. IInv'
  BY <1>4, <1>5, <1>6, DeploymentKeeps
<1> QED
  BY <1>1, <1>3, <1>4, <1>7 DEF d

LEMMA OwnDeployment ==
    ASSUME IInv, NEW p \in Procs, proc[p].pc \in Deploys
    PROVE  /\ proc[p].id \in DOMAIN deployments
           /\ deployments[proc[p].id].container \in Nat
           /\ deployments[proc[p].id].status \in {"building", "running", "failed"}
           /\ proc[p].pc # "publish" => deployments[proc[p].id].status = "building"
<1>1. proc[p].id \in DOMAIN deployments
  BY OwnIsUnknown
<1>2. deployments[proc[p].id] \in DeploymentRow
  BY <1>1 DEF IInv, TypeOK
<1> QED
  BY <1>1, <1>2, LocalIsOK DEF DeploymentRow, LocalOK

\* What an action does to the deployments, when it changes any.
Stands ==
    \A d \in DOMAIN deployments :
       /\ d \in DOMAIN deployments'
       /\ deployments'[d].app = deployments[d].app
       /\ deployments[d].status # "building" =>
             deployments'[d].status = deployments[d].status

LEMMA OutcomeKeeps ==
    ASSUME IInv, NEW p \in Procs,
           DeployFailed(p) \/ DeploySetContainer(p) \/ DeploySetRunning(p)
    PROVE  IInv' /\ Stands
<1> DEFINE d == proc[p].id
<1>1. /\ proc[p].pc \in Deploys \ {"publish"}
      /\ UNCHANGED <<ids, apps, packages, cache, docker>>
  BY DEF DeployFailed, DeploySetContainer, DeploySetRunning, At, Deploys
<1>2. /\ d \in DOMAIN deployments /\ d \in Nat /\ deployments[d].container \in Nat
      /\ deployments[d].status = "building"
  BY <1>1, OwnDeployment, LocalTypes
<1>3. \A label \in {"setRunning", "publish"} :
         /\ Work(label, proc[p].app, proc[p].row, d) \in Local
         /\ Work(label, proc[p].app, proc[p].row, d).pc = label
         /\ Work(label, proc[p].app, proc[p].row, d).app = App(p)
         /\ Work(label, proc[p].app, proc[p].row, d).id = d
  <2> SUFFICES ASSUME NEW label \in {"setRunning", "publish"}
               PROVE  /\ Work(label, proc[p].app, proc[p].row, d) \in Local
                      /\ Work(label, proc[p].app, proc[p].row, d).pc = label
                      /\ Work(label, proc[p].app, proc[p].row, d).app = App(p)
                      /\ Work(label, proc[p].app, proc[p].row, d).id = d
    OBVIOUS
  <2>1. label \in Labels
    BY DEF Labels
  <2>2. /\ proc[p].app \in Apps \cup {NoRow} /\ proc[p].app = App(p)
        /\ proc[p].row \in AppRow \cup {NoRow}
    BY LocalTypes DEF App
  <2> HIDE DEF d
  <2>3. Work(label, proc[p].app, proc[p].row, d) \in Local
    BY <1>2, <2>1, <2>2, WorkIsLocal
  <2> QED
    BY <2>2, <2>3, WorkFields
<1>4. /\ IInv' /\ Differs(deployments, deployments', d)
      /\ deployments'[d].app = deployments[d].app
  <2>1. CASE DeployFailed(p)
    <3>1. UpdateDeployment(d, "failed", deployments[d].container) /\ Becomes(p, Idle)
      BY <2>1 DEF DeployFailed, Return
    <3> QED
      BY <1>1, <1>2, <3>1, UpdateOwn, LocalTypes
  <2>2. CASE DeploySetContainer(p)
    <3> DEFINE l == Work("setRunning", proc[p].app, proc[p].row, d)
    <3>1. UpdateDeployment(d, "building", d) /\ Becomes(p, l)
      BY <2>2, <1>2 DEF DeploySetContainer, GoTo
    <3>2. l \in Local /\ l.pc = "setRunning" /\ l.app = App(p) /\ l.id = d
      BY <1>3
    <3> HIDE DEF l
    <3> QED
      BY <1>1, <1>2, <3>1, <3>2, UpdateOwn
  <2>3. CASE DeploySetRunning(p)
    <3> DEFINE l == Work("publish", proc[p].app, proc[p].row, d)
    <3>1. UpdateDeployment(d, "running", deployments[d].container) /\ Becomes(p, l)
      BY <2>3 DEF DeploySetRunning, GoTo
    <3>2. l \in Local /\ l.pc = "publish" /\ l.app = App(p) /\ l.id = d
      BY <1>3
    <3> HIDE DEF l
    <3> QED
      BY <1>1, <1>2, <3>1, <3>2, UpdateOwn
  <2> QED
    BY <2>1, <2>2, <2>3
<1> QED
  BY <1>2, <1>4 DEF Differs, Stands

-----------------------------------------------------------------------------
(***************************************************************************)
(* The theorems.                                                           *)
(***************************************************************************)
LEMMA InitOK == Init => IInv
<1> SUFFICES ASSUME Init PROVE IInv
  OBVIOUS
<1>1. TypeOK
  <2>1. Idle \in Local
    BY DEF Idle, Local, Labels
  <2> QED
    BY <2>1 DEF Init, TypeOK, NoContainer
<1>2. RowsOK
  BY DEF Init, RowsOK, Exists
<1>3. \A p \in Procs : proc[p] = Idle
  BY DEF Init
<1>4. LocalsOK
  BY <1>3, IdleIsOK DEF LocalsOK
<1>5. Owned
  BY <1>3, IdleIsOK DEF Owned
<1> QED
  BY <1>1, <1>2, <1>4, <1>5 DEF IInv

LEMMA ContinueKeeps ==
    ASSUME IInv, NEW p \in Procs, Continue(p)
    PROVE  IInv'
<1>1. CASE DeployGoesOn(p)
  BY <1>1, DeployGoesOnKeeps, RecordKeeps, OutcomeKeeps, PublishKeeps DEF DeployGoesOn
<1>2. CASE DeployBacksOut(p)
  BY <1>2, DeployBacksOutKeeps, OutcomeKeeps DEF DeployBacksOut
<1>3. CASE ~DeployGoesOn(p) /\ ~DeployBacksOut(p)
  BY <1>3, ImportKeeps, UpdateKeeps, OperateKeeps, DeleteKeeps, FaultKeeps DEF Continue
<1> QED
  BY <1>1, <1>2, <1>3

LEMMA NextKeeps == IInv /\ [Next]_vars => IInv'
<1>1. ASSUME IInv, Next PROVE IInv'
  BY <1>1, CreateKeeps, ExitKeeps, RequestKeeps, ContinueKeeps, FaultKeeps DEF Next
<1>2. ASSUME IInv, UNCHANGED vars PROVE IInv'
  <2>1. /\ UNCHANGED <<apps, packages, deployments, proc>>
        /\ UNCHANGED <<ids, cache, networks, containers>>
    BY <1>2 DEF vars
  <2> QED
    BY <1>2, <2>1 DEF IInv, TypeOK, RowsOK, LocalsOK, Owned, Exists
<1> QED
  BY <1>1, <1>2

\* The inductive invariant: types, rows and copies that name settled deployments
\* of their own application, and deployments in flight that only their own
\* goroutine knows (ApplicationService and RuntimeManager, any overlap and any
\* failing call).
THEOREM AppInductive == Spec => []IInv
BY InitOK, NextKeeps, PTL DEF Spec

\* Rows, deployments, packages and what goroutines hold have their types.
THEOREM AppTypes == Spec => []TypeOK
<1>1. IInv => TypeOK
  BY DEF IInv
<1> QED
  BY <1>1, AppInductive, PTL

\* Status and container of a row belong together and name a deployment of this
\* application that has not failed, whatever UpdateApp, DeployApp, StartApp,
\* StopApp and DeleteApp overwrite.
THEOREM RowsDoPoint == Spec => []RowsPoint
<1>1. IInv => RowsPoint
  BY DEF IInv, RowsOK, RowOK, RowsPoint
<1> QED
  BY <1>1, AppInductive, PTL

\* ImportApp and UpdateCode: a package that is recorded is stored.
THEOREM PackagesAreStored == Spec => []PackagesStored
<1>1. IInv => PackagesStored
  BY DEF IInv, RowsOK, RowOK, PackagesStored
<1> QED
  BY <1>1, AppInductive, PTL

LEMMA UnchangedStand == UNCHANGED deployments => Stands
BY DEF Stands

\* DeployApp: a deployment that has failed or runs stays so, and belongs to its
\* application for ever.
THEOREM OutcomesDoStand == Spec => OutcomesStand
<1>1. ASSUME IInv, [Next]_vars PROVE [Stands]_vars
  <2>1. ASSUME NEW p \in Procs, DeployRecord(p) PROVE Stands
    <3>1. /\ deployments \in Seq(DeploymentRow)
          /\ deployments' = Append(deployments, [app |-> App(p), status |-> "building",
                                                 container |-> 0])
      BY <1>1, <2>1 DEF IInv, TypeOK, DeployRecord
    <3> QED
      BY <3>1 DEF Stands
  <2>2. ASSUME NEW n \in Names, NEW v \in Versions, Create(n, v) PROVE Stands
    BY <2>2, UnchangedStand DEF Create
  <2>3. ASSUME NEW p \in Procs, Request(p) PROVE Stands
    BY <2>3, UnchangedStand
       DEF Request, ImportCheck, UpdateLoad, CodeLoad, DeployLoad, OperateLoad,
           DeleteLoad, store
  <2>4. ASSUME NEW p \in Procs, DeployGoesOn(p) PROVE Stands
    BY <1>1, <2>1, <2>4, OutcomeKeeps, UnchangedStand
       DEF DeployGoesOn, PullImage, PreparePackage, CreateSandbox,
           CreateContainer, StartContainer, DeployPublish, store
  <2>5. ASSUME NEW p \in Procs, DeployBacksOut(p) PROVE Stands
    BY <1>1, <2>5, OutcomeKeeps, UnchangedStand
       DEF DeployBacksOut, DeployEarlyFailure, PackageFails, CreateContainerFails,
           StartContainerFails, DiscardContainer, DestroySandbox, store
  <2>6. ASSUME NEW p \in Procs, Continue(p) PROVE Stands
    BY <2>4, <2>5, <2>6, UnchangedStand
       DEF Continue, ImportCreate, ImportUpload, ImportUploadFails, ImportUndo,
           ImportSource, UpdateSave, CodePut, CodePutFails, StartApp, StopApp,
           OperateFails, OperateFailsHalfway, SetOperated, DeleteReload,
           DeleteContainer, DeleteNetwork, DeleteMark, DeleteRow, Dropped, store
  <2>7. ASSUME NEW p \in Procs, Gone(p) PROVE Stands
    BY <2>7, UnchangedStand DEF Gone, store
  <2>8. ASSUME NEW a \in Apps, Exits(a) PROVE Stands
    BY <2>8, UnchangedStand DEF Exits, store
  <2> QED
    BY <1>1, <2>2, <2>3, <2>6, <2>7, <2>8 DEF Next
<1> QED
  BY <1>1, AppInductive, PTL DEF Spec, OutcomesStand, Stands

-----------------------------------------------------------------------------
(***************************************************************************)
(* Requests that are alone with their application (AppIsolated).           *)
(*                                                                         *)
(* The second invariant, AloneInv, says what a goroutine knows of its      *)
(* application at each step: its row, its network and its container.  It   *)
(* needs Isolated, and that no error is dropped and no request cut off.    *)
(***************************************************************************)
Unpublished(row) == row # NoRow /\ row.status = "created" /\ row.container = 0

\* The states of a container that was started and not stopped on request.
Up == {"running", "died"}

Settled(row, net, con) ==
    /\ net = con.id
    /\ con.id = IF row # NoRow THEN row.container ELSE 0
    /\ row # NoRow => /\ row.status = "running" <=> con.state \in Up
                      /\ row.status # "deleted"

Made(d, states, net, con) ==
    net = d /\ \E state \in states : con = [id |-> d, state |-> state]

Operated(d, row) == row # NoRow /\ row.status # "deleted" /\ row.container = d

\* A goroutine at pc with its copy of a row and its number d fits the row, the
\* network and the container of its application.
Fits(pc, copy, d, row, net, con) ==
    /\ pc \in {"upload", "undo", "source"} => Settled(row, net, con) /\ Unpublished(row)
    /\ pc \in {"save", "putCode"} =>
          /\ Settled(row, net, con) /\ row # NoRow
          /\ copy.status = row.status /\ copy.container = row.container
    /\ pc \in {"record", "pull", "package", "network", "failed", "reload"} =>
          Settled(row, net, con) /\ row # NoRow
    /\ pc \in {"container", "destroy"} => Unpublished(row) /\ net = d /\ con = NoContainer
    /\ pc \in {"start", "discard"} => Unpublished(row) /\ Made(d, {"created"}, net, con)
    /\ pc \in {"setContainer", "setRunning", "publish"} =>
          Unpublished(row) /\ Made(d, Up, net, con)
    /\ pc \in {"startApp", "stopApp", "restartApp", "remove"} =>
          Settled(row, net, con) /\ Operated(d, row)
    /\ pc = "setStarted" => Operated(d, row) /\ Made(d, Up, net, con)
    /\ pc = "setStopped" => Operated(d, row) /\ Made(d, {"exited"}, net, con)
    /\ pc = "removeNetwork" => row # NoRow /\ row.status # "deleted" /\ con = NoContainer
    /\ pc = "markDeleted" =>
          row # NoRow /\ row.status # "deleted" /\ con = NoContainer /\ net = 0
    /\ pc = "deleteRow" =>
          /\ row # NoRow /\ row.container = 0 /\ con = NoContainer /\ net = 0

Away == {"idle", "import"}

AloneInv ==
    /\ Isolated
    /\ \A a \in Apps \ ids :
          ~Exists(a) /\ networks[a] = 0 /\ containers[a] = NoContainer
    /\ \A a \in Apps : containers[a].id = 0 => containers[a] = NoContainer
    /\ \A p \in Procs : proc[p].pc \in Away => App(p) = NoRow
    /\ \A p \in Procs : proc[p].pc \notin Away =>
          /\ App(p) \in ids
          /\ Fits(proc[p].pc, proc[p].row, proc[p].id,
                  apps[App(p)], networks[App(p)], containers[App(p)])
    /\ \A a \in Apps : AtRest(a) => Settled(apps[a], networks[a], containers[a])

\* What a step leaves of application a; it leaves the others alone.
Leaves(a, row, net, con) ==
    /\ apps' = [apps EXCEPT ![a] = row]
    /\ networks' = [networks EXCEPT ![a] = net]
    /\ containers' = [containers EXCEPT ![a] = con]

LEMMA NobodysApp == NoRow \notin Apps
BY NoRowAssumption

LEMMA LeavesOne ==
    ASSUME IInv, NEW a \in Apps, NEW row, NEW net, NEW con, Leaves(a, row, net, con)
    PROVE  /\ apps'[a] = row /\ networks'[a] = net /\ containers'[a] = con
           /\ \A b \in Apps : b # a => /\ apps'[b] = apps[b]
                                       /\ networks'[b] = networks[b]
                                       /\ containers'[b] = containers[b]
BY DEF IInv, TypeOK, Leaves

\* A goroutine p takes a step for application a: either it goes on to work for
\* a, or it has worked for a and ends.
LEMMA AloneKeeps ==
    ASSUME IInv, AloneInv, Isolated', NEW p \in Procs, NEW a \in Apps, NEW l,
           Becomes(p, l), App(p) \in {a, NoRow},
           NEW row, NEW net, NEW con, Leaves(a, row, net, con),
           ids \subseteq ids', ids' \subseteq ids \cup {a}, a \in ids',
           con.id = 0 => con = NoContainer,
           \/ l = Idle /\ App(p) = a /\ Settled(row, net, con)
           \/ /\ l.app = a /\ l.pc \notin Away
              /\ Fits(l.pc, l.row, l.id, row, net, con)
    PROVE  AloneInv'
<1>1. proc'[p] = l /\ \A q \in Procs : q # p => proc'[q] = proc[q]
  BY DEF IInv, TypeOK, Becomes
<1>2. /\ apps'[a] = row /\ networks'[a] = net /\ containers'[a] = con
      /\ \A b \in Apps : b # a => /\ apps'[b] = apps[b]
                                  /\ networks'[b] = networks[b]
                                  /\ containers'[b] = containers[b]
  BY LeavesOne
<1>3. Idle.app = NoRow /\ Idle.pc \in Away
  BY DEF Idle, Away
<1>4. ASSUME NEW b \in Apps \ ids'
      PROVE  ~Exists(b)' /\ networks'[b] = 0 /\ containers'[b] = NoContainer
  <2>1. b # a /\ b \in Apps \ ids
    OBVIOUS
  <2> QED
    BY <1>2, <2>1 DEF AloneInv, Exists
<1>5. ASSUME NEW b \in Apps, containers'[b].id = 0 PROVE containers'[b] = NoContainer
  BY <1>2, <1>5 DEF AloneInv
<1>6. ASSUME NEW q \in Procs, proc'[q].pc \in Away PROVE proc'[q].app = NoRow
  <2>1. CASE q = p
    BY <1>1, <1>3, <1>6, <2>1
  <2>2. CASE q # p
    BY <1>1, <1>6, <2>2 DEF AloneInv, App
  <2> QED
    BY <2>1, <2>2
<1>7. ASSUME NEW q \in Procs, q # p, proc[q].pc \notin Away
      PROVE  proc[q].app # a
  <2>1. proc[q].app # NoRow
    BY <1>7, NobodysApp DEF AloneInv, IInv, TypeOK, App
  <2>2. CASE App(p) = a
    BY <1>7, <2>1, <2>2 DEF AloneInv, Isolated, App
  <2>3. CASE l.app = a
    <3>1. proc'[p].app = a /\ proc'[q].app = proc[q].app
      BY <1>1, <1>7, <2>3
    <3> QED
      BY <1>7, <2>1, <3>1 DEF Isolated, App
  <2> QED
    BY <2>2, <2>3
<1>8. ASSUME NEW q \in Procs, proc'[q].pc \notin Away
      PROVE  /\ proc'[q].app \in ids'
             /\ Fits(proc'[q].pc, proc'[q].row, proc'[q].id, apps'[proc'[q].app],
                     networks'[proc'[q].app], containers'[proc'[q].app])
  <2>1. CASE q = p
    BY <1>1, <1>2, <1>3, <1>8, <2>1
  <2>2. CASE q # p
    <3>1. proc'[q] = proc[q] /\ proc[q].pc \notin Away
      BY <1>1, <1>8, <2>2
    <3>2. /\ proc[q].app \in ids
          /\ Fits(proc[q].pc, proc[q].row, proc[q].id,
                  apps[proc[q].app], networks[proc[q].app], containers[proc[q].app])
      BY <3>1 DEF AloneInv, App
    <3>3. proc[q].app \in Apps /\ proc[q].app # a
      BY <2>2, <3>1, <3>2, <1>7 DEF IInv, TypeOK
    <3> QED
      BY <1>2, <3>1, <3>2, <3>3
  <2> QED
    BY <2>1, <2>2
<1>9. ASSUME NEW b \in Apps, \A q \in Procs : proc'[q].app # b
      PROVE  Settled(apps'[b], networks'[b], containers'[b])
  <2>1. CASE b = a
    BY <1>1, <1>2, <1>9, <2>1
  <2>2. CASE b # a
    <3>1. AtRest(b)
      BY <1>1, <1>9, <2>2, NobodysApp DEF AtRest, App
    <3> QED
      BY <1>2, <2>2, <3>1 DEF AloneInv
  <2> QED
    BY <2>1, <2>2
<1> QED
  BY <1>4, <1>5, <1>6, <1>8, <1>9 DEF AloneInv, AtRest, App, Exists

\* What a goroutine at work knows, and the row that is there.
LEMMA AtWork ==
    ASSUME IInv, AloneInv, NEW p \in Procs, proc[p].pc \notin Away
    PROVE  /\ App(p) \in Apps /\ App(p) \in ids
           /\ Fits(proc[p].pc, proc[p].row, proc[p].id,
                   apps[App(p)], networks[App(p)], containers[App(p)])
           /\ containers[App(p)].id = 0 => ContainerOf(p) = NoContainer
           /\ Leaves(App(p), apps[App(p)], networks[App(p)], containers[App(p)])
                 <=> UNCHANGED <<apps, docker>>
<1>1. App(p) \in Apps /\ App(p) \in ids
  BY DEF AloneInv, IInv, TypeOK
<1>2. Leaves(App(p), apps[App(p)], networks[App(p)], containers[App(p)])
         <=> UNCHANGED <<apps, docker>>
  BY <1>1 DEF Leaves, docker, IInv, TypeOK
<1> QED
  BY <1>1, <1>2 DEF AloneInv, ContainerOf

\* A container exits: what is known of an application stays true.
LEMMA ExitFits ==
    ASSUME NEW pc, NEW copy, NEW d, NEW row, NEW net, NEW con, NEW died,
           con.state = "running", died.state = "died", died.id = con.id,
           died = [id |-> con.id, state |-> "died"]
    PROVE  /\ con # NoContainer
           /\ Settled(row, net, con) => Settled(row, net, died)
           /\ Fits(pc, copy, d, row, net, con) => Fits(pc, copy, d, row, net, died)
<1>1. con # NoContainer
  BY DEF NoContainer
<1>2. Settled(row, net, con) => Settled(row, net, died)
  BY DEF Settled, Up
<1>3. Made(d, Up, net, con) => Made(d, Up, net, died)
  BY DEF Made, Up
<1>4. ~Made(d, {"created"}, net, con) /\ ~Made(d, {"exited"}, net, con)
  BY DEF Made
<1> QED
  BY <1>1, <1>2, <1>3, <1>4 DEF Fits

LEMMA ExitAlone ==
    ASSUME IInv, AloneInv, NEW a \in Apps, Exits(a)
    PROVE  AloneInv'
<1> DEFINE died == [id |-> containers[a].id, state |-> "died"]
<1>1. UNCHANGED <<ids, apps, networks, proc>> /\ containers[a].state = "running"
  BY DEF Exits, store, Running
<1>2. containers'[a] = died /\ \A b \in Apps : b # a => containers'[b] = containers[b]
  BY DEF Exits, IInv, TypeOK
<1>3. died.state = "died" /\ died.id = containers[a].id
  OBVIOUS
<1>4. containers[a] # NoContainer /\ containers[a].id # 0
  BY <1>1 DEF AloneInv, NoContainer
<1> HIDE DEF died
<1>5. ASSUME NEW b \in Apps, NEW row, NEW net, Settled(row, net, containers[b])
      PROVE  Settled(row, net, containers'[b])
  BY <1>1, <1>2, <1>3, <1>5, ExitFits DEF died
<1>6. ASSUME NEW b \in Apps, NEW pc, NEW copy, NEW d, NEW row, NEW net,
             Fits(pc, copy, d, row, net, containers[b])
      PROVE  Fits(pc, copy, d, row, net, containers'[b])
  BY <1>1, <1>2, <1>3, <1>6, ExitFits DEF died
<1>7. Isolated'
  BY <1>1 DEF AloneInv, Isolated, App
<1>8. ASSUME NEW b \in Apps \ ids'
      PROVE  ~Exists(b)' /\ networks'[b] = 0 /\ containers'[b] = NoContainer
  BY <1>1, <1>2, <1>4 DEF AloneInv, Exists
<1>9. ASSUME NEW b \in Apps, containers'[b].id = 0 PROVE containers'[b] = NoContainer
  BY <1>2, <1>3, <1>4, <1>9 DEF AloneInv
<1>10. ASSUME NEW p \in Procs, proc'[p].pc \notin Away
       PROVE  /\ proc'[p].app \in ids'
              /\ Fits(proc'[p].pc, proc'[p].row, proc'[p].id, apps'[proc'[p].app],
                      networks'[proc'[p].app], containers'[proc'[p].app])
  <2>1. App(p) \in Apps /\ App(p) \in ids
        /\ Fits(proc[p].pc, proc[p].row, proc[p].id,
                apps[App(p)], networks[App(p)], containers[App(p)])
    BY <1>1, <1>10, AtWork
  <2> QED
    BY <1>1, <1>6, <2>1 DEF App
<1>11. ASSUME NEW b \in Apps, \A p \in Procs : proc'[p].app # b
       PROVE  Settled(apps'[b], networks'[b], containers'[b])
  <2>1. Settled(apps[b], networks[b], containers[b])
    BY <1>1, <1>11 DEF AloneInv, AtRest, App
  <2> QED
    BY <1>1, <1>5, <2>1
<1>12. \A p \in Procs : proc'[p].pc \in Away => proc'[p].app = NoRow
  BY <1>1 DEF AloneInv, App
<1> QED
  BY <1>7, <1>8, <1>9, <1>10, <1>11, <1>12 DEF AloneInv, AtRest, App, Exists

LEMMA GoAlone ==
    ASSUME IInv, AloneInv, Isolated', NEW p \in Procs, proc[p].pc \notin Away,
           NEW label, label \notin Away, GoTo(p, label), UNCHANGED ids,
           NEW row, NEW net, NEW con, Leaves(App(p), row, net, con),
           con.id = 0 => con = NoContainer,
           Fits(label, proc[p].row, proc[p].id, row, net, con)
    PROVE  AloneInv'
<1> DEFINE l == Work(label, App(p), proc[p].row, proc[p].id)
<1>1. Becomes(p, l)
  BY DEF GoTo, App
<1>2. l.pc = label /\ l.app = App(p) /\ l.row = proc[p].row /\ l.id = proc[p].id
  BY WorkFields
<1> HIDE DEF l
<1> QED
  BY <1>1, <1>2, AtWork, AloneKeeps

LEMMA EndAlone ==
    ASSUME IInv, AloneInv, Isolated', NEW p \in Procs, proc[p].pc \notin Away,
           Return(p), UNCHANGED ids,
           NEW row, NEW net, NEW con, Leaves(App(p), row, net, con),
           con.id = 0 => con = NoContainer,
           Settled(row, net, con)
    PROVE  AloneInv'
BY AtWork, AloneKeeps DEF Return

LEMMA StayAlone ==
    ASSUME IInv, AloneInv, Isolated', NEW p \in Procs, proc[p].pc \notin Away,
           UNCHANGED <<ids, apps, docker>>,
           \/ /\ Return(p)
              /\ Settled(apps[App(p)], networks[App(p)], containers[App(p)])
           \/ \E label : /\ GoTo(p, label) /\ label \notin Away
                         /\ Fits(label, proc[p].row, proc[p].id,
                                 apps[App(p)], networks[App(p)], containers[App(p)])
    PROVE  AloneInv'
BY AtWork, GoAlone, EndAlone DEF ContainerOf

\* A request takes up an application that nobody works on, and that is settled.
LEMMA LoadAlone ==
    ASSUME IInv, AloneInv, Isolated', NEW p \in Procs, At(p, "idle"),
           NEW a \in Apps, Exists(a), NEW l, Becomes(p, l),
           l.app = a, l.pc \notin Away, UNCHANGED <<ids, apps, docker>>,
           Settled(apps[a], networks[a], containers[a]) =>
              Fits(l.pc, l.row, l.id, apps[a], networks[a], containers[a])
    PROVE  AloneInv'
<1>1. App(p) = NoRow /\ a \in ids
  BY DEF AloneInv, At, Away, Exists
<1>2. proc'[p] = l /\ \A q \in Procs : q # p => proc'[q] = proc[q]
  BY DEF IInv, TypeOK, Becomes
<1>3. AtRest(a)
  BY <1>1, <1>2, NobodysApp DEF AtRest, App, Isolated
<1>4. Settled(apps[a], networks[a], containers[a])
  BY <1>3 DEF AloneInv
<1>5. Leaves(a, apps[a], networks[a], containers[a])
  BY DEF Leaves, docker, IInv, TypeOK
<1>6. containers[a].id = 0 => containers[a] = NoContainer
  BY DEF AloneInv
<1> QED
  BY <1>1, <1>4, <1>5, <1>6, AloneKeeps

LEMMA RequestAlone ==
    ASSUME IInv, AloneInv, Isolated', NEW p \in Procs, Request(p)
    PROVE  AloneInv'
<1>1. ASSUME NEW n \in Names, NEW v \in Versions, ImportCheck(p, n, v) PROVE AloneInv'
  <2> DEFINE l == Work("import", NoRow, NewRow(n, v), 0)
  <2>1. /\ Becomes(p, l) /\ UNCHANGED <<ids, apps, networks, containers>>
        /\ proc[p].pc = "idle"
    BY <1>1 DEF ImportCheck, store, docker, At
  <2>2. l.pc = "import" /\ l.app = NoRow
    BY WorkFields
  <2> HIDE DEF l
  <2>3. proc'[p] = l /\ \A q \in Procs : q # p => proc'[q] = proc[q]
    BY <2>1 DEF IInv, TypeOK, Becomes
  <2>4. App(p) = NoRow
    BY <2>1 DEF AloneInv, Away
  <2>5. \A q \in Procs : proc'[q].app = proc[q].app
    BY <2>2, <2>3, <2>4 DEF App
  <2>6. \A q \in Procs : proc'[q].pc \in Away => proc'[q].app = NoRow
    BY <2>1, <2>2, <2>3 DEF AloneInv, App
  <2>7. \A q \in Procs : proc'[q].pc \notin Away => q # p
    BY <2>2, <2>3 DEF Away
  <2> QED
    BY <2>1, <2>3, <2>5, <2>6, <2>7 DEF AloneInv, AtRest, App, Exists
<1>2. ASSUME NEW a \in Apps, NEW n \in Names, NEW v \in Versions, UpdateLoad(p, a, n, v)
      PROVE  AloneInv'
  <2> DEFINE row == Edited(apps[a], n, v)
             l == Work("save", a, row, 0)
  <2>1. Becomes(p, l) /\ UNCHANGED <<ids, apps, docker>> /\ At(p, "idle") /\ Exists(a)
    BY <1>2 DEF UpdateLoad, store
  <2>2. l.pc = "save" /\ l.app = a /\ l.row = row /\ l.id = 0
    BY WorkFields
  <2>3. row.status = apps[a].status /\ row.container = apps[a].container
    BY DEF Edited
  <2> HIDE DEF l, row
  <2>4. Settled(apps[a], networks[a], containers[a]) =>
           Fits(l.pc, l.row, l.id, apps[a], networks[a], containers[a])
    BY <2>1, <2>2, <2>3 DEF Fits, Exists
  <2> QED
    BY <2>1, <2>2, <2>4, LoadAlone DEF Away
<1>3. ASSUME NEW a \in Apps, NEW v \in Versions, CodeLoad(p, a, v) PROVE AloneInv'
  <2> DEFINE row == Edited(apps[a], apps[a].name, v)
             d == IF v = apps[a].version THEN 0 ELSE 1
             l == Work("putCode", a, row, d)
  <2>1. Becomes(p, l) /\ UNCHANGED <<ids, apps, docker>> /\ At(p, "idle") /\ Exists(a)
    BY <1>3 DEF CodeLoad, store
  <2>2. l.pc = "putCode" /\ l.app = a /\ l.row = row
    BY WorkFields
  <2>3. row.status = apps[a].status /\ row.container = apps[a].container
    BY DEF Edited
  <2> HIDE DEF l, row, d
  <2>4. Settled(apps[a], networks[a], containers[a]) =>
           Fits(l.pc, l.row, l.id, apps[a], networks[a], containers[a])
    BY <2>1, <2>2, <2>3 DEF Fits, Exists
  <2> QED
    BY <2>1, <2>2, <2>4, LoadAlone DEF Away
<1>4. ASSUME NEW a \in Apps, DeployLoad(p, a) PROVE AloneInv'
  <2> DEFINE l == Work("record", a, apps[a], 0)
  <2>1. Becomes(p, l) /\ UNCHANGED <<ids, apps, docker>> /\ At(p, "idle") /\ Exists(a)
    BY <1>4 DEF DeployLoad, store
  <2>2. l.pc = "record" /\ l.app = a
    BY WorkFields
  <2> HIDE DEF l
  <2>3. Settled(apps[a], networks[a], containers[a]) =>
           Fits(l.pc, l.row, l.id, apps[a], networks[a], containers[a])
    BY <2>1, <2>2 DEF Fits, Exists
  <2> QED
    BY <2>1, <2>2, <2>3, LoadAlone DEF Away
<1>5. ASSUME NEW a \in Apps, NEW op \in Operations, OperateLoad(p, a, op) PROVE AloneInv'
  <2> DEFINE l == Work(op, a, apps[a], apps[a].container)
  <2>1. Becomes(p, l) /\ UNCHANGED <<ids, apps, docker>> /\ At(p, "idle") /\ Exists(a)
    BY <1>5 DEF OperateLoad, store
  <2>2. l.pc \in Operations /\ l.app = a /\ l.id = apps[a].container
    BY WorkFields
  <2> HIDE DEF l
  <2>3. Settled(apps[a], networks[a], containers[a]) =>
           Fits(l.pc, l.row, l.id, apps[a], networks[a], containers[a])
    BY <2>1, <2>2 DEF Fits, Exists, Operated, Operations, Settled
  <2> QED
    BY <2>1, <2>2, <2>3, LoadAlone DEF Away, Operations
<1>6. ASSUME NEW a \in Apps, DeleteLoad(p, a) PROVE AloneInv'
  <2> DEFINE label == IF apps[a].container # 0 THEN "reload" ELSE "deleteRow"
             l == Work(label, a, NoRow, 0)
  <2>1. Becomes(p, l) /\ UNCHANGED <<ids, apps, docker>> /\ At(p, "idle") /\ Exists(a)
    BY <1>6 DEF DeleteLoad, store
  <2>2. l.pc = label /\ l.app = a
    BY WorkFields
  <2>3. \/ label = "reload"
        \/ label = "deleteRow" /\ apps[a].container = 0
    OBVIOUS
  <2> HIDE DEF l, label
  <2>4. containers[a].id = 0 => containers[a] = NoContainer
    BY DEF AloneInv
  <2>5. Settled(apps[a], networks[a], containers[a]) =>
           Fits(l.pc, l.row, l.id, apps[a], networks[a], containers[a])
    BY <2>1, <2>2, <2>3, <2>4 DEF Fits, Exists, Settled
  <2> QED
    BY <2>1, <2>2, <2>3, <2>5, LoadAlone DEF Away
<1> QED
  BY <1>1, <1>2, <1>3, <1>4, <1>5, <1>6 DEF Request

\* A new row, under an id that nobody has: the goroutine p works for it, or none.
LEMMA CreateAlone ==
    ASSUME IInv, AloneInv, Isolated', NEW n \in Names, NEW v \in Versions, Create(n, v)
    PROVE  AloneInv'
<1>1. PICK a \in Apps \ ids : ids' = ids \cup {a} /\ Save(a, NewRow(n, v))
  BY DEF Create
<1> DEFINE row == NewRow(n, v)
<1>2. UNCHANGED <<proc, networks, containers>>
  BY DEF Create, docker
<1>3. row.status = "created" /\ row.container = 0 /\ row \in AppRow
  BY RowTypes DEF NewRow
<1> HIDE DEF row
<1>4. row # NoRow
  BY <1>3, NoRowAssumption
<1>5. apps'[a] = row /\ \A b \in Apps : b # a => apps'[b] = apps[b]
  BY <1>1 DEF Save, IInv, TypeOK, row
<1>6. networks[a] = 0 /\ containers[a] = NoContainer
  BY <1>1 DEF AloneInv
<1>7. Settled(apps'[a], networks[a], containers[a])
  BY <1>3, <1>4, <1>5, <1>6 DEF Settled, Up, NoContainer
<1>8. ASSUME NEW b \in Apps, AtRest(b)
      PROVE  Settled(apps'[b], networks[b], containers[b])
  BY <1>5, <1>7, <1>8 DEF AloneInv
<1>9. ASSUME NEW b \in Apps \ ids' PROVE apps'[b] = NoRow /\ b \in Apps \ ids
  BY <1>1, <1>5 DEF AloneInv, Exists
<1>10. ASSUME NEW q \in Procs, proc[q].pc \notin Away
       PROVE  App(q) \in ids' /\ apps'[App(q)] = apps[App(q)]
  <2>1. App(q) \in ids /\ App(q) \in Apps
    BY <1>10, AtWork
  <2> QED
    BY <1>1, <1>5, <2>1
<1> QED
  BY <1>2, <1>8, <1>9, <1>10 DEF AloneInv, AtRest, App, Exists

LEMMA ImportAlone ==
    ASSUME IInv, AloneInv, Isolated', NEW p \in Procs,
           \/ ImportCreate(p) \/ ImportUpload(p) \/ ImportUploadFails(p)
           \/ ImportUndo(p) \/ ImportSource(p)
    PROVE  AloneInv'
<1>1. CASE ImportCreate(p)
  <2>1. PICK a \in Apps \ ids : /\ ids' = ids \cup {a}
                                /\ Save(a, proc[p].row)
                                /\ Becomes(p, Work("upload", a, proc[p].row, 0))
    BY <1>1 DEF ImportCreate
  <2> DEFINE l == Work("upload", a, proc[p].row, 0)
             row == proc[p].row
  <2>2. l.pc = "upload" /\ l.app = a
    BY WorkFields
  <2>3. Becomes(p, l) /\ UNCHANGED <<networks, containers>> /\ App(p) = NoRow
    BY <1>1, <2>1 DEF ImportCreate, docker, AloneInv, At, Away
  <2>4. row.status = "created" /\ row.container = 0 /\ row \in AppRow
    BY <1>1, LocalIsOK DEF ImportCreate, At, LocalOK
  <2> HIDE DEF l
  <2>5. networks[a] = 0 /\ containers[a] = NoContainer
    BY <2>1 DEF AloneInv
  <2>6. Leaves(a, row, networks[a], containers[a])
    BY <2>1, <2>3 DEF Leaves, Save, IInv, TypeOK
  <2>7. Fits(l.pc, l.row, l.id, row, networks[a], containers[a])
    <3>1. Unpublished(row)
      BY <2>4, NoRowAssumption DEF Unpublished
    <3>2. Settled(row, networks[a], containers[a])
      BY <2>4, <2>5, <3>1 DEF Settled, Up, NoContainer, Unpublished
    <3> QED
      BY <2>2, <3>1, <3>2 DEF Fits
  <2> QED
    BY <2>1, <2>2, <2>3, <2>5, <2>6, <2>7, AloneKeeps DEF Away
<1>2. CASE ImportUpload(p) \/ ImportUploadFails(p)
  <2>1. PICK label \in {"source", "undo"} : GoTo(p, label)
    BY <1>2 DEF ImportUpload, ImportUploadFails
  <2>2. proc[p].pc = "upload" /\ UNCHANGED <<ids, apps, docker>>
    BY <1>2 DEF ImportUpload, ImportUploadFails, store, At
  <2>3. Fits(label, proc[p].row, proc[p].id,
             apps[App(p)], networks[App(p)], containers[App(p)])
    BY <2>2, AtWork DEF Fits, Away
  <2> QED
    BY <2>1, <2>2, <2>3, StayAlone DEF Away
<1>3. CASE ImportUndo(p)
  <2>1. /\ proc[p].pc = "undo" /\ Return(p) /\ UNCHANGED <<ids, docker>>
        /\ Save(App(p), NoRow)
    BY <1>3 DEF ImportUndo, At
  <2>2. Leaves(App(p), NoRow, networks[App(p)], containers[App(p)])
    BY <2>1 DEF Leaves, Save, docker, IInv, TypeOK
  <2>3. Settled(NoRow, networks[App(p)], containers[App(p)])
    BY <2>1, AtWork DEF Fits, Away, Settled, Unpublished
  <2> QED
    BY <2>1, <2>2, <2>3, AtWork, EndAlone DEF Away, ContainerOf
<1>4. CASE ImportSource(p)
  <2> DEFINE row == WithSource(apps[App(p)])
  <2>1. /\ proc[p].pc = "source" /\ Return(p) /\ UNCHANGED <<ids, docker>>
        /\ Exists(App(p)) => apps' = [apps EXCEPT ![App(p)] = row]
    BY <1>4 DEF ImportSource, At
  <2>2. /\ App(p) \in Apps
        /\ Settled(apps[App(p)], networks[App(p)], containers[App(p)])
        /\ Exists(App(p))
    BY <2>1, AtWork DEF Fits, Away, Unpublished, Exists
  <2>3. row.status = apps[App(p)].status /\ row.container = apps[App(p)].container
    BY DEF WithSource
  <2>4. row # NoRow
    BY <2>2, CopyIsOK, ColumnTypes, NoRowAssumption
  <2> HIDE DEF row
  <2>5. Leaves(App(p), row, networks[App(p)], containers[App(p)])
    BY <2>1, <2>2 DEF Leaves, docker, IInv, TypeOK
  <2>6. Settled(row, networks[App(p)], containers[App(p)])
    BY <2>2, <2>3, <2>4 DEF Settled, Exists
  <2> QED
    BY <2>1, <2>5, <2>6, AtWork, EndAlone DEF Away, ContainerOf
<1> QED
  BY <1>1, <1>2, <1>3, <1>4

LEMMA UpdateAlone ==
    ASSUME IInv, AloneInv, Isolated', NEW p \in Procs,
           UpdateSave(p) \/ CodePut(p) \/ CodePutFails(p)
    PROVE  AloneInv'
<1>1. proc[p].pc \in Saves
  BY DEF UpdateSave, CodePut, CodePutFails, At, Saves
<1>2. /\ Settled(apps[App(p)], networks[App(p)], containers[App(p)])
      /\ apps[App(p)] # NoRow
      /\ proc[p].row.status = apps[App(p)].status
      /\ proc[p].row.container = apps[App(p)].container
  BY <1>1, AtWork DEF Fits, Away, Saves
<1>3. CASE UpdateSave(p)
  <2>1. Return(p) /\ UNCHANGED <<ids, docker>> /\ Save(App(p), proc[p].row)
    BY <1>3 DEF UpdateSave
  <2>2. proc[p].row # NoRow
    BY <1>1, LocalIsOK, NoRowAssumption DEF LocalOK, RowOK
  <2>3. Leaves(App(p), proc[p].row, networks[App(p)], containers[App(p)])
    BY <2>1 DEF Leaves, Save, docker, IInv, TypeOK
  <2>4. Settled(proc[p].row, networks[App(p)], containers[App(p)])
    BY <1>2, <2>2 DEF Settled
  <2> QED
    BY <1>1, <2>1, <2>3, <2>4, AtWork, EndAlone DEF Away, Saves, ContainerOf
<1>4. CASE CodePut(p) \/ CodePutFails(p)
  <2>1. Return(p) \/ GoTo(p, "save")
    BY <1>4 DEF CodePut, CodePutFails, store
  <2>2. UNCHANGED <<ids, apps, docker>>
    BY <1>4 DEF CodePut, CodePutFails, store
  <2>3. Fits("save", proc[p].row, proc[p].id,
             apps[App(p)], networks[App(p)], containers[App(p)])
    BY <1>2 DEF Fits
  <2> QED
    BY <1>1, <1>2, <2>1, <2>2, <2>3, StayAlone DEF Away, Saves
<1> QED
  BY <1>3, <1>4

LEMMA DeployGoesOnAlone ==
    ASSUME IInv, AloneInv, Isolated', NEW p \in Procs,
           \/ PullImage(p) \/ PreparePackage(p)
           \/ CreateSandbox(p) \/ CreateContainer(p) \/ StartContainer(p)
           \/ DeploySetContainer(p) \/ DeploySetRunning(p) \/ DeployPublish(p)
    PROVE  AloneInv'
<1> DEFINE a == App(p)
           d == proc[p].id
<1>1. proc[p].pc \in Deploys \ {"failed", "discard", "destroy"}
  BY DEF PullImage, PreparePackage, CreateSandbox, CreateContainer, StartContainer,
         DeploySetContainer, DeploySetRunning, DeployPublish, At, Deploys
<1>2. /\ proc[p].pc \notin Away /\ a \in Apps
      /\ Fits(proc[p].pc, proc[p].row, d, apps[a], networks[a], containers[a])
      /\ d # 0
  BY <1>1, AtWork, LocalIsOK DEF Away, Deploys, LocalOK, Produced, IInv, TypeOK
<1> HIDE DEF a, d
<1>3. CASE PullImage(p)
  <2>1. UNCHANGED <<ids, apps, docker>> /\ GoTo(p, "package") /\ proc[p].pc = "pull"
    BY <1>3 DEF PullImage, store, At
  <2>2. Fits("package", proc[p].row, d, apps[a], networks[a], containers[a])
    BY <1>2, <2>1 DEF Fits
  <2> QED
    BY <1>2, <2>1, <2>2, StayAlone DEF Away, a, d
<1>4. CASE PreparePackage(p)
  <2>1. UNCHANGED <<ids, apps, docker>> /\ GoTo(p, "network") /\ proc[p].pc = "package"
    BY <1>4 DEF PreparePackage, store, At
  <2>2. Fits("network", proc[p].row, d, apps[a], networks[a], containers[a])
    BY <1>2, <2>1 DEF Fits
  <2> QED
    BY <1>2, <2>1, <2>2, StayAlone DEF Away, a, d
<1>5. CASE CreateSandbox(p)
  <2>1. /\ UNCHANGED <<ids, apps, containers>> /\ GoTo(p, "container")
        /\ proc[p].pc = "network" /\ networks[a] = 0
        /\ networks' = [networks EXCEPT ![a] = d]
    BY <1>5 DEF CreateSandbox, store, At, a, d
  <2>2. /\ Settled(apps[a], networks[a], containers[a]) /\ apps[a] # NoRow
        /\ containers[a].id = 0 => containers[a] = NoContainer
    BY <1>2, <2>1 DEF Fits, AloneInv
  <2>3. containers[a] = NoContainer /\ apps[a].container = 0
    BY <2>1, <2>2 DEF Settled
  <2>4. apps[a].status = "created"
    <3>1. apps[a].status \notin {"running", "stopped"} /\ apps[a] \in AppRow
      BY <1>2, <2>2, <2>3, CopyIsOK DEF RowOK, Points, Exists
    <3> QED
      BY <2>2, <3>1 DEF Settled, AppRow
  <2>5. Leaves(a, apps[a], d, containers[a])
    BY <2>1 DEF Leaves, IInv, TypeOK
  <2>6. Fits("container", proc[p].row, d, apps[a], d, containers[a])
    BY <2>2, <2>3, <2>4 DEF Fits, Unpublished
  <2> QED
    BY <1>2, <2>1, <2>3, <2>5, <2>6, GoAlone DEF Away, a, d
<1>6. CASE CreateContainer(p) \/ StartContainer(p)
  <2> DEFINE state == IF proc[p].pc = "container" THEN "created" ELSE "running"
             label == IF proc[p].pc = "container" THEN "start" ELSE "setContainer"
             con == [id |-> d, state |-> state]
  <2>1. /\ UNCHANGED <<ids, apps, networks>> /\ GoTo(p, label)
        /\ proc[p].pc \in {"container", "start"}
        /\ containers' = [containers EXCEPT ![a] = con]
    BY <1>6 DEF CreateContainer, StartContainer, SetState, store, At, a, d
  <2>2. Unpublished(apps[a]) /\ networks[a] = d
    BY <1>2, <2>1 DEF Fits, Made
  <2>3. Leaves(a, apps[a], networks[a], con)
    BY <2>1 DEF Leaves, IInv, TypeOK
  <2>4. \/ label = "start" /\ state = "created"
        \/ label = "setContainer" /\ state = "running"
    OBVIOUS
  <2> HIDE DEF state, label
  <2>5. Fits(label, proc[p].row, d, apps[a], networks[a], con)
    BY <2>2, <2>4 DEF Fits, Made, Up
  <2>6. con.id # 0
    BY <1>2
  <2> HIDE DEF con
  <2> QED
    BY <1>2, <2>1, <2>3, <2>4, <2>5, <2>6, GoAlone DEF Away, a, d
<1>7. CASE DeploySetContainer(p) \/ DeploySetRunning(p)
  <2>1. PICK label \in {"setRunning", "publish"} : GoTo(p, label)
    BY <1>7 DEF DeploySetContainer, DeploySetRunning
  <2>2. UNCHANGED <<ids, apps, docker>> /\ proc[p].pc \in {"setContainer", "setRunning"}
    BY <1>7 DEF DeploySetContainer, DeploySetRunning, At
  <2>3. Fits(label, proc[p].row, d, apps[a], networks[a], containers[a])
    BY <1>2, <2>2 DEF Fits
  <2> QED
    BY <1>2, <2>1, <2>2, <2>3, StayAlone DEF Away, a, d
<1>8. CASE DeployPublish(p)
  <2> DEFINE row == WithStatus(apps[a], "running", d)
  <2>1. /\ proc[p].pc = "publish" /\ Return(p) /\ UNCHANGED <<ids, docker>>
        /\ UpdateStatus(a, "running", d)
    BY <1>8 DEF DeployPublish, At, a, d
  <2>2. Unpublished(apps[a]) /\ Made(d, Up, networks[a], containers[a])
    BY <1>2, <2>1 DEF Fits
  <2>3. apps' = [apps EXCEPT ![a] = row]
    BY <2>1, <2>2 DEF UpdateStatus, Exists, Unpublished
  <2>4. row.status = "running" /\ row.container = d
    BY DEF WithStatus
  <2>5. row # NoRow
    <3>1. apps[a] \in AppRow /\ d \in Nat
      BY <1>2, <2>2, CopyIsOK, LocalTypes DEF Exists, Unpublished, d
    <3> QED
      BY <3>1, ColumnTypes, NoRowAssumption
  <2> HIDE DEF row
  <2>6. Leaves(a, row, networks[a], containers[a])
    BY <2>1, <2>3 DEF Leaves, docker, IInv, TypeOK
  <2>7. Settled(row, networks[a], containers[a]) /\ containers[a].id # 0
    BY <1>2, <2>2, <2>4, <2>5 DEF Settled, Made, Up
  <2> QED
    BY <1>2, <2>1, <2>6, <2>7, EndAlone DEF a
<1> QED
  BY <1>3, <1>4, <1>5, <1>6, <1>7, <1>8

LEMMA DeployBacksOutAlone ==
    ASSUME IInv, AloneInv, Isolated', NEW p \in Procs,
           \/ DeployEarlyFailure(p) \/ PackageFails(p) \/ CreateContainerFails(p)
           \/ StartContainerFails(p) \/ DiscardContainer(p) \/ DestroySandbox(p)
           \/ DeployFailed(p)
    PROVE  AloneInv'
<1> DEFINE a == App(p)
           d == proc[p].id
<1>1. proc[p].pc \in Deploys
  BY DEF DeployEarlyFailure, PackageFails, CreateContainerFails, StartContainerFails,
         DiscardContainer, DestroySandbox, DeployFailed, At, Deploys
<1>2. /\ proc[p].pc \notin Away /\ a \in Apps
      /\ Fits(proc[p].pc, proc[p].row, d, apps[a], networks[a], containers[a])
      /\ d # 0
  BY <1>1, AtWork, LocalIsOK DEF Away, Deploys, LocalOK, Produced, IInv, TypeOK
<1> HIDE DEF a, d
<1>3. CASE DeployEarlyFailure(p) \/ PackageFails(p)
  <2>1. GoTo(p, "failed") /\ UNCHANGED <<ids, apps, docker>>
    BY <1>3 DEF DeployEarlyFailure, PackageFails, store
  <2>2. proc[p].pc \in {"pull", "package", "network"}
    BY <1>3 DEF DeployEarlyFailure, PackageFails, At
  <2>3. Fits("failed", proc[p].row, d, apps[a], networks[a], containers[a])
    BY <1>2, <2>2 DEF Fits
  <2> QED
    BY <1>2, <2>1, <2>3, StayAlone DEF Away, a, d
<1>4. CASE CreateContainerFails(p)
  <2>1. /\ GoTo(p, "destroy") /\ UNCHANGED <<ids, apps, docker>>
        /\ proc[p].pc = "container"
    BY <1>4 DEF CreateContainerFails, store, At
  <2>2. Fits("destroy", proc[p].row, d, apps[a], networks[a], containers[a])
    BY <1>2, <2>1 DEF Fits
  <2> QED
    BY <1>2, <2>1, <2>2, StayAlone DEF Away, a, d
<1>5. CASE StartContainerFails(p)
  <2>1. /\ GoTo(p, "discard") /\ UNCHANGED <<ids, apps, docker>>
        /\ proc[p].pc = "start"
    BY <1>5 DEF StartContainerFails, store, At
  <2>2. Fits("discard", proc[p].row, d, apps[a], networks[a], containers[a])
    BY <1>2, <2>1 DEF Fits
  <2> QED
    BY <1>2, <2>1, <2>2, StayAlone DEF Away, a, d
<1>6. CASE DiscardContainer(p)
  <2>1. /\ GoTo(p, "destroy") /\ UNCHANGED <<ids, apps, networks>>
        /\ proc[p].pc = "discard" /\ RemoveContainer(a, d)
    BY <1>6 DEF DiscardContainer, store, At, a, d
  <2>2. Unpublished(apps[a]) /\ Made(d, {"created"}, networks[a], containers[a])
    BY <1>2, <2>1 DEF Fits
  <2>3. Leaves(a, apps[a], networks[a], NoContainer)
    BY <2>1, <2>2 DEF Leaves, RemoveContainer, Made, IInv, TypeOK
  <2>4. Fits("destroy", proc[p].row, d, apps[a], networks[a], NoContainer)
    BY <2>2 DEF Fits, Made
  <2> QED
    BY <1>2, <2>1, <2>3, <2>4, GoAlone DEF Away, a, d
<1>7. CASE DestroySandbox(p)
  <2>1. /\ GoTo(p, "failed") /\ UNCHANGED <<ids, apps, containers>>
        /\ proc[p].pc = "destroy" /\ RemoveNetwork(a, d)
    BY <1>7 DEF DestroySandbox, store, At, a, d
  <2>2. Unpublished(apps[a]) /\ networks[a] = d /\ containers[a] = NoContainer
    BY <1>2, <2>1 DEF Fits
  <2>3. Leaves(a, apps[a], 0, containers[a])
    BY <2>1, <2>2 DEF Leaves, RemoveNetwork, Running, NoContainer, IInv, TypeOK
  <2>4. Fits("failed", proc[p].row, d, apps[a], 0, containers[a])
    BY <2>2 DEF Fits, Settled, Up, Unpublished, NoContainer
  <2> QED
    BY <1>2, <2>1, <2>2, <2>3, <2>4, GoAlone DEF Away, a, d
<1>8. CASE DeployFailed(p)
  <2>1. Return(p) /\ UNCHANGED <<ids, apps, docker>> /\ proc[p].pc = "failed"
    BY <1>8 DEF DeployFailed, At
  <2>2. Settled(apps[a], networks[a], containers[a])
    BY <1>2, <2>1 DEF Fits
  <2> QED
    BY <1>2, <2>1, <2>2, StayAlone DEF a
<1> QED
  BY <1>3, <1>4, <1>5, <1>6, <1>7, <1>8

LEMMA OperateAlone ==
    ASSUME IInv, AloneInv, Isolated', NEW p \in Procs,
           \/ StartApp(p) \/ StopApp(p) \/ SetOperated(p)
           \/ OperateFails(p) \/ OperateFailsHalfway(p)
    PROVE  AloneInv'
<1> DEFINE a == App(p)
           d == proc[p].id
<1>1. proc[p].pc \in Operates
  BY DEF StartApp, StopApp, OperateFails, OperateFailsHalfway, SetOperated, At, Operates
<1>2. /\ proc[p].pc \notin Away /\ a \in Apps
      /\ Fits(proc[p].pc, proc[p].row, d, apps[a], networks[a], containers[a])
      /\ d # 0 /\ d \in Nat
  BY <1>1, AtWork, LocalIsOK, LocalTypes
     DEF Away, Operates, LocalOK, Produced, IInv, TypeOK
<1> HIDE DEF a, d
<1>3. CASE StartApp(p) \/ StopApp(p)
  <2> DEFINE state == IF proc[p].pc = "stopApp" THEN "exited" ELSE "running"
             label == IF proc[p].pc = "stopApp" THEN "setStopped" ELSE "setStarted"
             con == [id |-> d, state |-> state]
  <2>1. /\ UNCHANGED <<ids, apps, networks>> /\ GoTo(p, label)
        /\ proc[p].pc \in {"startApp", "restartApp", "stopApp"}
        /\ containers' = [containers EXCEPT ![a] = con]
    BY <1>3 DEF StartApp, StopApp, SetState, store, At, a, d
  <2>2. Settled(apps[a], networks[a], containers[a]) /\ Operated(d, apps[a])
    BY <1>2, <2>1 DEF Fits
  <2>3. Leaves(a, apps[a], networks[a], con)
    BY <2>1 DEF Leaves, IInv, TypeOK
  <2>4. \/ label = "setStarted" /\ state = "running"
        \/ label = "setStopped" /\ state = "exited"
    OBVIOUS
  <2> HIDE DEF state, label
  <2>5. networks[a] = d
    BY <2>2 DEF Settled, Operated
  <2>6. Fits(label, proc[p].row, d, apps[a], networks[a], con)
    BY <2>2, <2>4, <2>5 DEF Fits, Made, Up
  <2>7. con.id # 0
    BY <1>2
  <2> HIDE DEF con
  <2> QED
    BY <1>2, <2>1, <2>3, <2>4, <2>6, <2>7, GoAlone DEF Away, a, d
<1>4. CASE OperateFails(p)
  <2>1. /\ Return(p) /\ UNCHANGED <<ids, apps, docker>>
        /\ proc[p].pc \in {"startApp", "restartApp", "stopApp"}
    BY <1>4 DEF OperateFails, store, At
  <2>2. Settled(apps[a], networks[a], containers[a])
    BY <1>2, <2>1 DEF Fits
  <2> QED
    BY <1>2, <2>1, <2>2, StayAlone DEF a
<1>5. CASE SetOperated(p)
  <2> DEFINE status == IF proc[p].pc = "setStopped" THEN "stopped" ELSE "running"
             row == WithStatus(apps[a], status, d)
  <2>1. /\ Return(p) /\ UNCHANGED <<ids, docker>> /\ UpdateStatus(a, status, d)
        /\ proc[p].pc \in {"setStarted", "setStopped"}
    BY <1>5 DEF SetOperated, At, a, d
  <2>2. \/ status = "running" /\ Made(d, Up, networks[a], containers[a])
        \/ status = "stopped" /\ Made(d, {"exited"}, networks[a], containers[a])
    BY <1>2, <2>1 DEF Fits
  <2>3. Operated(d, apps[a])
    BY <1>2, <2>1 DEF Fits
  <2>4. row.status = status /\ row.container = d
    BY DEF WithStatus
  <2>5. row # NoRow
    <3>1. apps[a] \in AppRow
      BY <1>2, <2>3, CopyIsOK DEF Exists, Operated
    <3> QED
      BY <1>2, <3>1, ColumnTypes, NoRowAssumption
  <2>6. apps' = [apps EXCEPT ![a] = row]
    BY <2>1, <2>3 DEF UpdateStatus, Exists, Operated
  <2> HIDE DEF row, status
  <2>7. Leaves(a, row, networks[a], containers[a])
    BY <2>1, <2>6 DEF Leaves, docker, IInv, TypeOK
  <2>8. Settled(row, networks[a], containers[a]) /\ containers[a].id # 0
    BY <1>2, <2>2, <2>4, <2>5 DEF Settled, Made, Up
  <2> QED
    BY <1>2, <2>1, <2>7, <2>8, EndAlone DEF a
<1>6. CASE OperateFailsHalfway(p)
  <2> DEFINE con == [id |-> d, state |-> "died"]
  <2>1. /\ Return(p) /\ UNCHANGED <<ids, apps, networks>>
        /\ proc[p].pc \in {"restartApp", "stopApp"}
        /\ containers[a].state = "running"
        /\ containers' = [containers EXCEPT ![a] = con]
    BY <1>6 DEF OperateFailsHalfway, SetState, Running, store, At, a, d
  <2>2. Settled(apps[a], networks[a], containers[a]) /\ Operated(d, apps[a])
    BY <1>2, <2>1 DEF Fits
  <2>3. Leaves(a, apps[a], networks[a], con)
    BY <2>1 DEF Leaves, IInv, TypeOK
  <2>4. Settled(apps[a], networks[a], con) /\ con.id # 0
    BY <1>2, <2>1, <2>2 DEF Settled, Operated, Up
  <2> HIDE DEF con
  <2> QED
    BY <1>2, <2>1, <2>3, <2>4, EndAlone DEF a
<1> QED
  BY <1>3, <1>4, <1>5, <1>6

LEMMA DeleteAlone ==
    ASSUME IInv, AloneInv, Isolated', NEW p \in Procs,
           \/ DeleteReload(p) \/ DeleteContainer(p) \/ DeleteNetwork(p)
           \/ DeleteMark(p) \/ DeleteRow(p)
    PROVE  AloneInv'
<1> DEFINE a == App(p)
           d == proc[p].id
<1>1. proc[p].pc \in {"reload", "remove", "removeNetwork", "markDeleted", "deleteRow"}
  BY DEF DeleteReload, DeleteContainer, DeleteNetwork, DeleteMark, DeleteRow, At
<1>2. /\ proc[p].pc \notin Away /\ a \in Apps /\ a \in ids
      /\ Fits(proc[p].pc, proc[p].row, d, apps[a], networks[a], containers[a])
      /\ containers[a].id = 0 => containers[a] = NoContainer
  BY <1>1, AtWork DEF Away, AloneInv
<1> HIDE DEF a, d
<1>3. CASE DeleteReload(p)
  <2>1. proc[p].pc = "reload" /\ UNCHANGED <<ids, apps, docker>>
    BY <1>3 DEF DeleteReload, store, At
  <2>2. Settled(apps[a], networks[a], containers[a]) /\ apps[a] # NoRow
    BY <1>2, <2>1 DEF Fits
  <2> DEFINE l == Work("remove", a, NoRow, apps[a].container)
  <2>3. Becomes(p, l)
    BY <1>3, <2>2 DEF DeleteReload, Exists, a
  <2>4. l.pc = "remove" /\ l.app = a /\ l.id = apps[a].container
    BY WorkFields
  <2> HIDE DEF l
  <2>5. Fits(l.pc, l.row, l.id, apps[a], networks[a], containers[a])
    BY <2>2, <2>4 DEF Fits, Operated, Settled
  <2>6. Leaves(a, apps[a], networks[a], containers[a])
    BY <1>2, <2>1, AtWork DEF a
  <2> QED
    BY <1>2, <2>1, <2>3, <2>4, <2>5, <2>6, AloneKeeps DEF Away, a
<1>4. CASE DeleteContainer(p)
  <2>1. /\ proc[p].pc = "remove" /\ UNCHANGED <<ids, apps, networks>>
        /\ GoTo(p, "removeNetwork")
        /\ IF d # 0 THEN RemoveContainer(a, d) ELSE UNCHANGED containers
    BY <1>4 DEF DeleteContainer, store, At, a, d
  <2>2. Settled(apps[a], networks[a], containers[a]) /\ Operated(d, apps[a])
    BY <1>2, <2>1 DEF Fits
  <2>3. containers[a].id = d
    BY <2>2 DEF Settled, Operated
  <2>4. Leaves(a, apps[a], networks[a], NoContainer)
    BY <1>2, <2>1, <2>3 DEF Leaves, RemoveContainer, IInv, TypeOK
  <2>5. Fits("removeNetwork", proc[p].row, d, apps[a], networks[a], NoContainer)
    BY <2>2 DEF Fits, Operated
  <2> QED
    BY <1>2, <2>1, <2>4, <2>5, GoAlone DEF Away, a, d
<1>5. CASE DeleteNetwork(p)
  <2>1. /\ proc[p].pc = "removeNetwork" /\ UNCHANGED <<ids, apps, containers>>
        /\ GoTo(p, "markDeleted") /\ RemoveNetwork(a, networks[a])
    BY <1>5 DEF DeleteNetwork, store, At, a
  <2>2. apps[a] # NoRow /\ apps[a].status # "deleted" /\ containers[a] = NoContainer
    BY <1>2, <2>1 DEF Fits
  <2>3. Leaves(a, apps[a], 0, containers[a])
    BY <2>1, <2>2 DEF Leaves, RemoveNetwork, Running, NoContainer, IInv, TypeOK
  <2>4. Fits("markDeleted", proc[p].row, d, apps[a], 0, containers[a])
    BY <2>2 DEF Fits
  <2> QED
    BY <1>2, <2>1, <2>3, <2>4, GoAlone DEF Away, a, d
<1>6. CASE DeleteMark(p)
  <2> DEFINE row == WithStatus(apps[a], "deleted", 0)
  <2>1. /\ proc[p].pc = "markDeleted" /\ UNCHANGED <<ids, docker>>
        /\ GoTo(p, "deleteRow") /\ UpdateStatus(a, "deleted", 0)
    BY <1>6 DEF DeleteMark, At, a
  <2>2. apps[a] # NoRow /\ containers[a] = NoContainer /\ networks[a] = 0
    BY <1>2, <2>1 DEF Fits
  <2>3. row # NoRow /\ row.container = 0
    <3>1. apps[a] \in AppRow
      BY <1>2, <2>2, CopyIsOK DEF Exists
    <3>2. row.container = 0
      BY DEF WithStatus
    <3> QED
      BY <3>1, <3>2, ColumnTypes, NoRowAssumption
  <2>4. apps' = [apps EXCEPT ![a] = row]
    BY <2>1, <2>2 DEF UpdateStatus, Exists
  <2> HIDE DEF row
  <2>5. Leaves(a, row, networks[a], containers[a])
    BY <2>1, <2>4 DEF Leaves, docker, IInv, TypeOK
  <2>6. Fits("deleteRow", proc[p].row, d, row, networks[a], containers[a])
    BY <2>2, <2>3 DEF Fits
  <2> QED
    BY <1>2, <2>1, <2>5, <2>6, GoAlone DEF Away, a, d
<1>7. CASE DeleteRow(p)
  <2>1. /\ proc[p].pc = "deleteRow" /\ UNCHANGED <<ids, docker>>
        /\ Return(p) /\ Save(a, NoRow)
    BY <1>7 DEF DeleteRow, At, a
  <2>2. Leaves(a, NoRow, networks[a], containers[a])
    BY <2>1 DEF Leaves, Save, docker, IInv, TypeOK
  <2>3. Settled(NoRow, networks[a], containers[a])
    BY <1>2, <2>1 DEF Fits, Settled, NoContainer
  <2> QED
    BY <1>2, <2>1, <2>2, <2>3, EndAlone DEF a
<1> QED
  BY <1>3, <1>4, <1>5, <1>6, <1>7

LEMMA RecordAlone ==
    ASSUME IInv, AloneInv, Isolated', NEW p \in Procs, DeployRecord(p)
    PROVE  AloneInv'
<1> DEFINE a == App(p)
           l == Work("pull", a, proc[p].row, Len(deployments) + 1)
<1>1. /\ proc[p].pc = "record" /\ UNCHANGED <<ids, apps, docker>> /\ Becomes(p, l)
  BY DEF DeployRecord, At
<1>2. l.pc = "pull" /\ l.app = a
  BY WorkFields
<1> HIDE DEF l
<1>3. /\ a \in Apps /\ a \in ids
      /\ Fits("record", proc[p].row, proc[p].id, apps[a], networks[a], containers[a])
      /\ containers[a].id = 0 => containers[a] = NoContainer
      /\ Leaves(a, apps[a], networks[a], containers[a])
  BY <1>1, AtWork DEF Away, ContainerOf
<1> HIDE DEF a
<1>4. Fits(l.pc, l.row, l.id, apps[a], networks[a], containers[a])
  BY <1>2, <1>3 DEF Fits
<1> QED
  BY <1>1, <1>2, <1>3, <1>4, AloneKeeps DEF Away, a

LEMMA AloneNext ==
    ASSUME Faults \subseteq {"docker"}
    PROVE  IInv /\ AloneInv /\ [Next /\ Isolated']_vars => AloneInv'
<1>1. ASSUME NEW p \in Procs PROVE ~Dropped(p) /\ ~Gone(p)
  BY DEF Dropped, Gone, May
<1>2. ASSUME IInv, AloneInv, Next, Isolated' PROVE AloneInv'
  <2>1. ASSUME NEW p \in Procs, Continue(p) PROVE AloneInv'
    <3>1. CASE DeployGoesOn(p)
      BY <1>2, <3>1, RecordAlone, DeployGoesOnAlone DEF DeployGoesOn
    <3>2. CASE DeployBacksOut(p)
      BY <1>2, <3>2, DeployBacksOutAlone DEF DeployBacksOut
    <3>3. CASE ~DeployGoesOn(p) /\ ~DeployBacksOut(p)
      BY <1>1, <1>2, <2>1, <3>3, ImportAlone, UpdateAlone, OperateAlone, DeleteAlone
         DEF Continue
    <3> QED
      BY <3>1, <3>2, <3>3
  <2> QED
    BY <1>1, <1>2, <2>1, CreateAlone, ExitAlone, RequestAlone DEF Next
<1>3. ASSUME AloneInv, UNCHANGED vars PROVE AloneInv'
  BY <1>3 DEF vars, AloneInv, AtRest, App, Exists, Isolated
<1> QED
  BY <1>2, <1>3

LEMMA AloneInit == Init => AloneInv
<1> SUFFICES ASSUME Init PROVE AloneInv
  OBVIOUS
<1>1. \A p \in Procs : proc[p].pc = "idle" /\ App(p) = NoRow
  BY DEF Init, Idle, App
<1>2. \A a \in Apps : apps[a] = NoRow /\ networks[a] = 0 /\ containers[a] = NoContainer
  BY DEF Init
<1>3. NoContainer.id = 0
  BY DEF NoContainer
<1> QED
  BY <1>1, <1>2, <1>3 DEF AloneInv, Away, AtRest, Exists, Isolated, Settled

\* What a goroutine that is alone with its application knows of it at every
\* step, and that nothing is left over when nobody works on it.
LEMMA AloneInductive ==
    ASSUME Faults \subseteq {"docker"}
    PROVE  IsolatedSpec => [](IInv /\ AloneInv)
<1>1. IInv /\ AloneInv /\ [Next /\ Isolated']_vars => (IInv /\ AloneInv)'
  BY AloneNext, NextKeeps
<1> QED
  BY <1>1, InitOK, AloneInit, PTL DEF IsolatedSpec

\* DeployApp, createAndStartContainer, StartApp, StopApp and DeleteApp: Docker
\* holds what the row says whenever nobody works on an application, for any
\* number of applications and requests, whatever Docker or storage call fails.
THEOREM DockerDoesAgree ==
    ASSUME Faults \subseteq {"docker"}
    PROVE  IsolatedSpec => []DockerAgrees
<1>1. AloneInv => DockerAgrees
  BY DEF AloneInv, DockerAgrees, Settled, Exists, Started, Up
<1> QED
  BY <1>1, AloneInductive, PTL

-----------------------------------------------------------------------------
(***************************************************************************)
(* What the deployments say.  A deployment has an outcome and the          *)
(* container that goes with it, or its goroutine is still at work, and     *)
(* then its container is recorded before its status is.  That needs no     *)
(* isolation, only that no error is dropped and no request cut off.        *)
(***************************************************************************)
Tells(pc, d, dep) ==
    /\ pc \in Deploys \ {"setRunning", "publish"} => dep.container = 0
    /\ pc \in {"setRunning", "publish"} => dep.container = d
    /\ pc = "publish" => dep.status = "running"

Told(d, dep) ==
    \/ dep.status = "running" /\ dep.container = d
    \/ dep.status = "failed" /\ dep.container = 0

HistoryInv ==
    /\ \A p \in Procs : proc[p].pc \in Deploys =>
          Tells(proc[p].pc, proc[p].id, deployments[proc[p].id])
    /\ \A d \in DOMAIN deployments :
          \/ Told(d, deployments[d])
          \/ \E p \in Procs : proc[p].pc \in Deploys /\ proc[p].id = d

\* A step that writes no deployment: its goroutine goes on with the one it has,
\* or leaves it with its outcome.
LEMMA HistoryMoves ==
    ASSUME IInv, HistoryInv, NEW p \in Procs, NEW l, Becomes(p, l),
           UNCHANGED deployments,
           l.pc \in Deploys => /\ proc[p].pc \in Deploys /\ l.id = proc[p].id
                               /\ Tells(l.pc, l.id, deployments[l.id]),
           proc[p].pc \in Deploys =>
              \/ l.pc \in Deploys
              \/ Told(proc[p].id, deployments[proc[p].id])
    PROVE  HistoryInv'
<1>1. proc'[p] = l /\ \A q \in Procs : q # p => proc'[q] = proc[q]
  BY DEF IInv, TypeOK, Becomes
<1>2. ASSUME NEW q \in Procs, proc'[q].pc \in Deploys
      PROVE  Tells(proc'[q].pc, proc'[q].id, deployments[proc'[q].id])
  <2>1. CASE q = p
    BY <1>1, <1>2, <2>1
  <2>2. CASE q # p
    BY <1>1, <1>2, <2>2 DEF HistoryInv
  <2> QED
    BY <2>1, <2>2
<1>3. ASSUME NEW d \in DOMAIN deployments, ~Told(d, deployments[d])
      PROVE  \E q \in Procs : proc'[q].pc \in Deploys /\ proc'[q].id = d
  <2>1. PICK q \in Procs : proc[q].pc \in Deploys /\ proc[q].id = d
    BY <1>3 DEF HistoryInv
  <2>2. proc'[q].pc \in Deploys /\ proc'[q].id = d
    BY <1>1, <1>3, <2>1
  <2> QED
    BY <2>2
<1> QED
  BY <1>2, <1>3 DEF HistoryInv

LEMMA HistoryGoes ==
    ASSUME IInv, HistoryInv, NEW p \in Procs, NEW label, GoTo(p, label),
           UNCHANGED deployments,
           label \in Deploys <=> proc[p].pc \in Deploys,
           label \in {"setRunning", "publish"} => label = proc[p].pc,
           proc[p].pc \in {"setRunning", "publish"} => label = proc[p].pc
    PROVE  HistoryInv'
<1> DEFINE l == Work(label, proc[p].app, proc[p].row, proc[p].id)
<1>1. Becomes(p, l)
  BY DEF GoTo
<1>2. l.pc = label /\ l.id = proc[p].id
  BY WorkFields
<1> HIDE DEF l
<1>3. proc[p].pc \in Deploys =>
         Tells(proc[p].pc, proc[p].id, deployments[proc[p].id])
  BY DEF HistoryInv
<1>4. label \in Deploys => Tells(label, proc[p].id, deployments[proc[p].id])
  BY <1>3 DEF Tells
<1> QED
  BY <1>1, <1>2, <1>4, HistoryMoves

\* A step that writes the deployment d0 of its own goroutine, which nobody else
\* has in flight.
LEMMA HistoryWrites ==
    ASSUME IInv, HistoryInv, NEW p \in Procs, NEW l, Becomes(p, l), NEW d0,
           Differs(deployments, deployments', d0),
           DOMAIN deployments' \subseteq DOMAIN deployments \cup {d0},
           proc[p].pc \in Deploys => proc[p].id = d0,
           \A q \in Procs : proc[q].pc \in Deploys /\ proc[q].id = d0 => q = p,
           \/ /\ l.pc \in Deploys /\ l.id = d0
              /\ Tells(l.pc, d0, deployments'[d0])
           \/ l.pc \notin Deploys /\ Told(d0, deployments'[d0])
    PROVE  HistoryInv'
<1>1. proc'[p] = l /\ \A q \in Procs : q # p => proc'[q] = proc[q]
  BY DEF IInv, TypeOK, Becomes
<1>2. ASSUME NEW q \in Procs, proc'[q].pc \in Deploys
      PROVE  Tells(proc'[q].pc, proc'[q].id, deployments'[proc'[q].id])
  <2>1. CASE q = p
    BY <1>1, <1>2, <2>1
  <2>2. CASE q # p
    <3>1. proc'[q] = proc[q] /\ proc[q].id # d0 /\ proc[q].id \in DOMAIN deployments
      BY <1>1, <1>2, <2>2, OwnIsUnknown
    <3> QED
      BY <1>2, <3>1 DEF HistoryInv, Differs
  <2> QED
    BY <2>1, <2>2
<1>3. ASSUME NEW d \in DOMAIN deployments', ~Told(d, deployments'[d])
      PROVE  \E q \in Procs : proc'[q].pc \in Deploys /\ proc'[q].id = d
  <2>1. CASE d = d0
    BY <1>1, <1>3, <2>1
  <2>2. CASE d # d0
    <3>1. d \in DOMAIN deployments /\ deployments'[d] = deployments[d]
      BY <2>2 DEF Differs
    <3>2. PICK q \in Procs : proc[q].pc \in Deploys /\ proc[q].id = d
      BY <1>3, <3>1 DEF HistoryInv
    <3>3. proc'[q].pc \in Deploys /\ proc'[q].id = d
      BY <1>1, <2>2, <3>2
    <3> QED
      BY <3>3
  <2> QED
    BY <2>1, <2>2
<1> QED
  BY <1>2, <1>3 DEF HistoryInv

LEMMA HistoryOutcome ==
    ASSUME IInv, HistoryInv, NEW p \in Procs,
           DeployFailed(p) \/ DeploySetContainer(p) \/ DeploySetRunning(p)
    PROVE  HistoryInv'
<1> DEFINE d == proc[p].id
           dep == deployments[d]
<1>1. proc[p].pc \in Deploys \ {"publish"}
  BY DEF DeployFailed, DeploySetContainer, DeploySetRunning, At, Deploys
<1>2. /\ d \in DOMAIN deployments /\ dep.status = "building"
      /\ Tells(proc[p].pc, d, dep)
      /\ \A q \in Procs : proc[q].pc \in Deploys /\ proc[q].id = d => q = p
  BY <1>1, OwnDeployment DEF HistoryInv, IInv, Owned
<1>3. PICK status, c : /\ UpdateDeployment(d, status, c)
                       /\ \/ At(p, "failed") /\ status = "failed" /\ c = dep.container
                          \/ At(p, "setContainer") /\ status = "building" /\ c = d
                          \/ At(p, "setRunning") /\ status = "running"
                                /\ c = dep.container
  BY <1>2 DEF DeployFailed, DeploySetContainer, DeploySetRunning
<1>4. PICK l : /\ Becomes(p, l)
               /\ \/ At(p, "failed") /\ l = Idle
                  \/ At(p, "setContainer") /\ l.pc = "setRunning" /\ l.id = d
                  \/ At(p, "setRunning") /\ l.pc = "publish" /\ l.id = d
  BY WorkFields DEF DeployFailed, DeploySetContainer, DeploySetRunning, Return, GoTo
<1> HIDE DEF dep
<1>5. /\ deployments'[d].status = status /\ deployments'[d].container = c
      /\ DOMAIN deployments' = DOMAIN deployments
      /\ Differs(deployments, deployments', d)
  BY <1>2, <1>3 DEF UpdateDeployment, Differs, IInv, TypeOK
<1> HIDE DEF d
<1>6. \/ /\ l.pc \in Deploys /\ l.id = d /\ Tells(l.pc, d, deployments'[d])
      \/ l.pc \notin Deploys /\ Told(d, deployments'[d])
  BY <1>2, <1>3, <1>4, <1>5, IdleIsOK DEF Tells, Told, At, Deploys
<1> QED
  BY <1>2, <1>4, <1>5, <1>6, HistoryWrites DEF d

LEMMA HistoryRecord ==
    ASSUME IInv, HistoryInv, NEW p \in Procs, DeployRecord(p)
    PROVE  HistoryInv'
<1> DEFINE n == Len(deployments) + 1
           r == [app |-> App(p), status |-> "building", container |-> 0]
           l == Work("pull", App(p), proc[p].row, n)
<1>1. /\ proc[p].pc = "record" /\ Becomes(p, l)
      /\ deployments' = Append(deployments, r) /\ deployments \in Seq(DeploymentRow)
  BY DEF DeployRecord, At, IInv, TypeOK
<1>2. l.pc = "pull" /\ l.id = n
  BY WorkFields
<1>3. r.container = 0
  OBVIOUS
<1> HIDE DEF l, r
<1>4. /\ deployments'[n] = r /\ n \notin DOMAIN deployments
      /\ DOMAIN deployments' = DOMAIN deployments \cup {n}
      /\ Differs(deployments, deployments', n)
  BY <1>1 DEF Differs
<1> HIDE DEF n
<1>5. \A q \in Procs : ~(proc[q].pc \in Deploys /\ proc[q].id = n)
  BY <1>4, OwnIsUnknown
<1>6. proc[p].pc \notin Deploys /\ l.pc \in Deploys /\ Tells(l.pc, n, deployments'[n])
  BY <1>1, <1>2, <1>3, <1>4 DEF Tells, Deploys
<1> QED
  BY <1>1, <1>2, <1>4, <1>5, <1>6, HistoryWrites

\* The steps of a goroutine that has no deployment in flight.
LEMMA HistoryElsewhere ==
    ASSUME IInv, HistoryInv, NEW p \in Procs, proc[p].pc \notin Deploys,
           UNCHANGED deployments, NEW l, Becomes(p, l), l.pc \notin Deploys
    PROVE  HistoryInv'
BY HistoryMoves

LEMMA HistoryRequest ==
    ASSUME IInv, HistoryInv, NEW p \in Procs, Request(p)
    PROVE  HistoryInv'
<1>1. proc[p].pc = "idle" /\ UNCHANGED deployments
  BY DEF Request, ImportCheck, UpdateLoad, CodeLoad, DeployLoad, OperateLoad, DeleteLoad,
         At, store
<1>2. \E label \in Labels \ Deploys : \E a, row, d : Becomes(p, Work(label, a, row, d))
  BY DEF Request, ImportCheck, UpdateLoad, CodeLoad, DeployLoad, OperateLoad, DeleteLoad,
         Operations, Labels, Deploys
<1> QED
  BY <1>1, <1>2, HistoryElsewhere, WorkFields DEF Deploys

LEMMA HistoryContinue ==
    ASSUME IInv, HistoryInv, NEW p \in Procs, Continue(p), ~Dropped(p)
    PROVE  HistoryInv'
<1>1. CASE DeployRecord(p) \/ DeployFailed(p) \/ DeploySetContainer(p) \/ DeploySetRunning(p)
  BY <1>1, HistoryRecord, HistoryOutcome
<1>2. CASE DeployPublish(p)
  <2>1. proc[p].pc = "publish" /\ Becomes(p, Idle) /\ UNCHANGED deployments
    BY <1>2 DEF DeployPublish, Return, At
  <2>2. Told(proc[p].id, deployments[proc[p].id])
    BY <2>1 DEF HistoryInv, Tells, Told, Deploys
  <2> QED
    BY <2>1, <2>2, IdleIsOK, HistoryMoves
<1>3. CASE \/ PullImage(p) \/ PreparePackage(p) \/ CreateSandbox(p)
           \/ CreateContainer(p) \/ StartContainer(p)
           \/ DeployEarlyFailure(p) \/ PackageFails(p) \/ CreateContainerFails(p)
           \/ StartContainerFails(p) \/ DiscardContainer(p) \/ DestroySandbox(p)
  <2>1. PICK label \in Deploys \ {"setRunning", "publish"} : GoTo(p, label)
    BY <1>3
       DEF PullImage, PreparePackage, CreateSandbox, CreateContainer, StartContainer,
           DeployEarlyFailure, PackageFails, CreateContainerFails, StartContainerFails,
           DiscardContainer, DestroySandbox, Deploys
  <2>2. /\ UNCHANGED deployments
        /\ proc[p].pc \in Deploys \ {"setRunning", "publish"}
    BY <1>3
       DEF PullImage, PreparePackage, CreateSandbox, CreateContainer, StartContainer,
           DeployEarlyFailure, PackageFails, CreateContainerFails, StartContainerFails,
           DiscardContainer, DestroySandbox, Deploys, At, store
  <2> QED
    BY <2>1, <2>2, HistoryGoes
<1>4. CASE \/ ImportCreate(p) \/ ImportUpload(p) \/ ImportUploadFails(p)
           \/ ImportUndo(p) \/ ImportSource(p)
           \/ UpdateSave(p) \/ CodePut(p) \/ CodePutFails(p)
           \/ StartApp(p) \/ StopApp(p) \/ SetOperated(p)
           \/ OperateFails(p) \/ OperateFailsHalfway(p)
           \/ DeleteReload(p) \/ DeleteContainer(p) \/ DeleteNetwork(p)
           \/ DeleteMark(p) \/ DeleteRow(p)
  <2>1. UNCHANGED deployments /\ proc[p].pc \notin Deploys
    BY <1>4
       DEF ImportCreate, ImportUpload, ImportUploadFails, ImportUndo, ImportSource,
           UpdateSave, CodePut, CodePutFails, StartApp, StopApp, OperateFails,
           OperateFailsHalfway, SetOperated, DeleteReload, DeleteContainer, DeleteNetwork, DeleteMark,
           DeleteRow, Deploys, At, store
  <2>2. \/ Return(p)
        \/ \E label \in Labels \ Deploys : \E a, row, d : Becomes(p, Work(label, a, row, d))
    BY <1>4
       DEF ImportCreate, ImportUpload, ImportUploadFails, ImportUndo, ImportSource,
           UpdateSave, CodePut, CodePutFails, StartApp, StopApp, OperateFails,
           OperateFailsHalfway, SetOperated, DeleteReload, DeleteContainer, DeleteNetwork, DeleteMark,
           DeleteRow, Deploys, Labels, GoTo
  <2> QED
    BY <2>1, <2>2, HistoryElsewhere, IdleIsOK, WorkFields DEF Return
<1> QED
  BY <1>1, <1>2, <1>3, <1>4 DEF Continue, DeployGoesOn, DeployBacksOut

\* The record of a deployment says truly whether it produced a container, as
\* soon as nobody works on its application.  RuntimeManager.DeployApp updates it
\* in three statements; that other requests overlap does not matter to it.
THEOREM HistoryToldTrue ==
    ASSUME Faults \subseteq {"docker"}
    PROVE  Spec => []HistoryIsTrue
<1>1. ASSUME NEW p \in Procs PROVE ~Dropped(p) /\ ~Gone(p)
  BY DEF Dropped, Gone, May
<1>2. Init => HistoryInv
  <2> SUFFICES ASSUME Init PROVE HistoryInv
    OBVIOUS
  <2>1. DOMAIN deployments = {} /\ \A p \in Procs : proc[p] = Idle
    BY DEF Init
  <2> QED
    BY <2>1, IdleIsOK DEF HistoryInv
<1>3. ASSUME IInv, HistoryInv, Next PROVE HistoryInv'
  <2>1. ASSUME NEW n \in Names, NEW v \in Versions, Create(n, v) PROVE HistoryInv'
    BY <1>3, <2>1 DEF Create, HistoryInv
  <2>2. ASSUME NEW a \in Apps, Exits(a) PROVE HistoryInv'
    BY <1>3, <2>2 DEF Exits, store, HistoryInv
  <2> QED
    BY <1>1, <1>3, <2>1, <2>2, HistoryRequest, HistoryContinue DEF Next
<1>4. HistoryInv /\ UNCHANGED vars => HistoryInv'
  BY DEF vars, HistoryInv
<1>5. IInv /\ HistoryInv /\ [Next]_vars => (IInv /\ HistoryInv)'
  BY <1>3, <1>4, NextKeeps
<1>6. IInv /\ HistoryInv => HistoryIsTrue
  <2> SUFFICES ASSUME IInv, HistoryInv, NEW d \in DOMAIN deployments,
                      AtRest(deployments[d].app)
               PROVE  Told(d, deployments[d])
    BY DEF HistoryIsTrue, Told
  <2>1. ASSUME NEW p \in Procs, proc[p].pc \in Deploys, proc[p].id = d PROVE FALSE
    <3>1. App(p) = deployments[d].app
      BY <2>1, LocalIsOK DEF LocalOK, Produced, App
    <3> QED
      BY <3>1 DEF AtRest
  <2> QED
    BY <2>1 DEF HistoryInv
<1> QED
  BY <1>2, <1>5, <1>6, InitOK, PTL DEF Spec

-----------------------------------------------------------------------------
(***************************************************************************)
(* The refinement of AppLifecycle: a step changes the status of one        *)
(* application at most, and that in the order of its life.                 *)
(***************************************************************************)
LifeMove(x, y) ==
    \/ x = y
    \/ x = "unborn" /\ y = "created"
    \/ x = "created" /\ y = "running"
    \/ x = "running" /\ y = "stopped"
    \/ x = "stopped" /\ y = "running"
    \/ x \in {"created", "running", "stopped"} /\ y = "gone"

RowLife(row) == IF row = NoRow \/ row.status = "deleted" THEN "gone" ELSE row.status

Lifes == [a \in Apps |-> Life(a)]

LEMMA LifeSteps ==
    ASSUME NEW a \in Apps, \A b \in Apps : b # a => Life(b)' = Life(b),
           LifeMove(Life(a), Life(a)')
    PROVE  Lives!Next \/ UNCHANGED Lifes
<1>1. DOMAIN Lifes = Apps /\ \A b \in Apps : Lifes[b] = Life(b)
  BY DEF Lifes
<1>2. Lifes' = [Lifes EXCEPT ![a] = Life(a)']
  <2>1. Lifes' = [b \in Apps |-> Life(b)']
    BY DEF Lifes
  <2>2. \A b \in Apps : Life(b)' = IF b = a THEN Life(a)' ELSE Lifes[b]
    BY <1>1
  <2> QED
    BY <1>1, <2>1, <2>2 DEF Lifes
<1>3. CASE Life(a)' = Life(a)
  BY <1>1, <1>2, <1>3 DEF Lifes
<1>4. CASE Life(a)' # Life(a)
  <2>1. Lifes[a] = Life(a)
    BY <1>1
  <2>2. \/ Lifes[a] = "unborn" /\ Life(a)' = "created"
        \/ Lifes[a] = "created" /\ Life(a)' = "running"
        \/ Lifes[a] = "running" /\ Life(a)' = "stopped"
        \/ Lifes[a] = "stopped" /\ Life(a)' = "running"
        \/ Lifes[a] \in {"created", "running", "stopped"} /\ Life(a)' = "gone"
    BY <1>4, <2>1 DEF LifeMove
  <2>3. Lives!Create(a) \/ Lives!Deploy(a) \/ Lives!Stop(a) \/ Lives!Start(a)
           \/ Lives!Delete(a)
    BY <1>2, <2>2
       DEF Lives!Create, Lives!Deploy, Lives!Stop, Lives!Start, Lives!Delete,
           Lives!Moves, Lifes
  <2> QED
    BY <2>3 DEF Lives!Next
<1> QED
  BY <1>3, <1>4

LEMMA SameLives ==
    ASSUME UNCHANGED <<ids, apps>>
    PROVE  UNCHANGED Lifes
<1>1. \A a \in Apps : Life(a)' = Life(a)
  BY DEF Life, Exists
<1> QED
  BY <1>1 DEF Lifes

LEMMA RowSteps ==
    ASSUME IInv, NEW a \in Apps, a \in ids, UNCHANGED ids, NEW row,
           apps' = [apps EXCEPT ![a] = row], LifeMove(RowLife(apps[a]), RowLife(row))
    PROVE  Lives!Next \/ UNCHANGED Lifes
<1>1. apps'[a] = row /\ \A b \in Apps : b # a => apps'[b] = apps[b]
  BY DEF IInv, TypeOK
<1>2. \A b \in Apps : b # a => Life(b)' = Life(b)
  BY <1>1 DEF Life, Exists
<1>3. Life(a) = RowLife(apps[a]) /\ Life(a)' = RowLife(row)
  BY <1>1 DEF Life, Exists, RowLife
<1> QED
  BY <1>2, <1>3, LifeSteps

LEMMA BirthSteps ==
    ASSUME IInv, NEW a \in Apps \ ids, ids' = ids \cup {a}, NEW row \in AppRow,
           row.status = "created", Save(a, row)
    PROVE  Lives!Next \/ UNCHANGED Lifes
<1>1. apps'[a] = row /\ \A b \in Apps : b # a => apps'[b] = apps[b]
  BY DEF IInv, TypeOK, Save
<1>2. \A b \in Apps : b # a => Life(b)' = Life(b)
  BY <1>1 DEF Life, Exists
<1>3. Life(a) = "unborn" /\ Life(a)' = "created"
  BY <1>1, NoRowAssumption DEF Life, Exists
<1> QED
  BY <1>2, <1>3, LifeSteps DEF LifeMove

LEMMA RowKinds ==
    ASSUME IInv, NEW a \in Apps, apps[a] # NoRow
    PROVE  /\ apps[a] \in AppRow
           /\ apps[a].status \in {"created", "running", "stopped", "deleted"}
           /\ apps[a].status \in {"running", "stopped"} <=> apps[a].container # 0
           /\ \A status \in {"running", "stopped", "deleted"}, c \in Nat :
                 WithStatus(apps[a], status, c) # NoRow
<1>1. apps[a] \in AppRow /\ RowOK(deployments, packages, a, apps[a])
  BY CopyIsOK DEF Exists
<1>2. apps[a].status \in {"created", "running", "stopped", "deleted"}
  BY <1>1 DEF AppRow
<1>3. apps[a].status \in {"running", "stopped"} <=> apps[a].container # 0
  BY <1>1 DEF RowOK, Points
<1>4. \A status \in {"running", "stopped", "deleted"}, c \in Nat :
         WithStatus(apps[a], status, c) # NoRow
  BY <1>1, ColumnTypes, NoRowAssumption
<1> QED
  BY <1>1, <1>2, <1>3, <1>4

LEMMA WritersLive ==
    ASSUME IInv, AloneInv, NEW p \in Procs,
           \/ ImportUndo(p) \/ ImportSource(p) \/ UpdateSave(p)
           \/ DeployPublish(p) \/ SetOperated(p) \/ DeleteMark(p) \/ DeleteRow(p)
    PROVE  Lives!Next \/ UNCHANGED Lifes
<1> DEFINE a == App(p)
           d == proc[p].id
<1>1. proc[p].pc \notin Away /\ UNCHANGED ids
  BY DEF ImportUndo, ImportSource, UpdateSave, DeployPublish, SetOperated, DeleteMark,
         DeleteRow, At, Away
<1>2. /\ a \in Apps /\ a \in ids /\ d \in Nat
      /\ Fits(proc[p].pc, proc[p].row, d, apps[a], networks[a], containers[a])
  BY <1>1, AtWork, LocalTypes
<1> HIDE DEF a, d
<1>3. CASE ImportUndo(p)
  <2>1. proc[p].pc = "undo" /\ apps' = [apps EXCEPT ![a] = NoRow]
    BY <1>3 DEF ImportUndo, At, Save, a
  <2>2. LifeMove(RowLife(apps[a]), RowLife(NoRow))
    BY <1>2, <2>1 DEF Fits, Unpublished, LifeMove, RowLife
  <2> QED
    BY <1>1, <1>2, <2>1, <2>2, RowSteps
<1>4. CASE ImportSource(p)
  <2> DEFINE row == WithSource(apps[a])
  <2>1. proc[p].pc = "source" /\ (Exists(a) => apps' = [apps EXCEPT ![a] = row])
    BY <1>4 DEF ImportSource, At, a
  <2>2. Unpublished(apps[a])
    BY <1>2, <2>1 DEF Fits
  <2>3. row # NoRow /\ row.status = apps[a].status
    <3>1. row.status = apps[a].status
      BY DEF WithSource
    <3>2. apps[a] \in AppRow
      BY <1>2, <2>2, RowKinds DEF Unpublished
    <3> QED
      BY <3>1, <3>2, ColumnTypes, NoRowAssumption
  <2> HIDE DEF row
  <2>4. LifeMove(RowLife(apps[a]), RowLife(row))
    BY <2>2, <2>3 DEF Unpublished, LifeMove, RowLife
  <2> QED
    BY <1>1, <1>2, <2>1, <2>2, <2>4, RowSteps DEF Exists, Unpublished
<1>5. CASE UpdateSave(p)
  <2>1. proc[p].pc = "save" /\ apps' = [apps EXCEPT ![a] = proc[p].row]
    BY <1>5 DEF UpdateSave, At, Save, a
  <2>2. apps[a] # NoRow /\ proc[p].row.status = apps[a].status
    BY <1>2, <2>1 DEF Fits
  <2>3. proc[p].row # NoRow
    BY <2>1, LocalIsOK, NoRowAssumption DEF LocalOK, RowOK, Saves
  <2>4. LifeMove(RowLife(apps[a]), RowLife(proc[p].row))
    BY <2>2, <2>3 DEF LifeMove, RowLife
  <2> QED
    BY <1>1, <1>2, <2>1, <2>4, RowSteps
<1>6. CASE DeployPublish(p)
  <2> DEFINE row == WithStatus(apps[a], "running", d)
  <2>1. proc[p].pc = "publish" /\ UpdateStatus(a, "running", d)
    BY <1>6 DEF DeployPublish, At, a, d
  <2>2. Unpublished(apps[a])
    BY <1>2, <2>1 DEF Fits
  <2>3. row # NoRow /\ row.status = "running"
    BY <1>2, <2>2, RowKinds DEF Unpublished, WithStatus
  <2>4. apps' = [apps EXCEPT ![a] = row]
    BY <2>1, <2>2 DEF UpdateStatus, Exists, Unpublished
  <2> HIDE DEF row
  <2>5. LifeMove(RowLife(apps[a]), RowLife(row))
    BY <2>2, <2>3 DEF Unpublished, LifeMove, RowLife
  <2> QED
    BY <1>1, <1>2, <2>4, <2>5, RowSteps
<1>7. CASE SetOperated(p)
  <2>1. PICK status \in {"running", "stopped"} : UpdateStatus(a, status, d)
    BY <1>7 DEF SetOperated, a, d
  <2> DEFINE row == WithStatus(apps[a], status, d)
  <2>2. proc[p].pc \in {"setStarted", "setStopped"}
    BY <1>7 DEF SetOperated, At
  <2>3. Operated(d, apps[a])
    BY <1>2, <2>2 DEF Fits
  <2>4. d # 0
    BY <2>2, LocalIsOK DEF LocalOK, Produced, Operates, IInv, TypeOK, d
  <2>5. apps[a] # NoRow /\ apps[a].status \in {"running", "stopped"}
    BY <1>2, <2>3, <2>4, RowKinds DEF Operated
  <2>6. row.status = status
    BY DEF WithStatus
  <2>7. row # NoRow
    BY <1>2, <2>5, RowKinds
  <2>8. apps' = [apps EXCEPT ![a] = row]
    BY <2>1, <2>5 DEF UpdateStatus, Exists
  <2> HIDE DEF row
  <2>9. LifeMove(RowLife(apps[a]), RowLife(row))
    BY <2>5, <2>6, <2>7 DEF LifeMove, RowLife
  <2> QED
    BY <1>1, <1>2, <2>8, <2>9, RowSteps
<1>8. CASE DeleteMark(p)
  <2> DEFINE row == WithStatus(apps[a], "deleted", 0)
  <2>1. proc[p].pc = "markDeleted" /\ UpdateStatus(a, "deleted", 0)
    BY <1>8 DEF DeleteMark, At, a
  <2>2. apps[a] # NoRow /\ apps[a].status # "deleted"
    BY <1>2, <2>1 DEF Fits
  <2>3. row.status = "deleted"
    BY DEF WithStatus
  <2>4. apps[a].status \in {"created", "running", "stopped"}
    BY <1>2, <2>2, RowKinds
  <2>5. apps' = [apps EXCEPT ![a] = row]
    BY <2>1, <2>2 DEF UpdateStatus, Exists
  <2> HIDE DEF row
  <2>6. LifeMove(RowLife(apps[a]), RowLife(row))
    BY <2>2, <2>3, <2>4 DEF LifeMove, RowLife
  <2> QED
    BY <1>1, <1>2, <2>5, <2>6, RowSteps
<1>9. CASE DeleteRow(p)
  <2>1. proc[p].pc = "deleteRow" /\ apps' = [apps EXCEPT ![a] = NoRow]
    BY <1>9 DEF DeleteRow, At, Save, a
  <2>2. apps[a] # NoRow /\ apps[a].container = 0
    BY <1>2, <2>1 DEF Fits
  <2>3. apps[a].status \in {"created", "deleted"}
    BY <1>2, <2>2, RowKinds
  <2>4. LifeMove(RowLife(apps[a]), RowLife(NoRow))
    BY <2>2, <2>3 DEF LifeMove, RowLife
  <2> QED
    BY <1>1, <1>2, <2>1, <2>4, RowSteps
<1> QED
  BY <1>3, <1>4, <1>5, <1>6, <1>7, <1>8, <1>9

LEMMA NextLives ==
    ASSUME IInv, AloneInv, [Next]_vars
    PROVE  Lives!Next \/ UNCHANGED Lifes
<1>1. ASSUME NEW n \in Names, NEW v \in Versions, Create(n, v)
      PROVE  Lives!Next \/ UNCHANGED Lifes
  <2>1. PICK a \in Apps \ ids : ids' = ids \cup {a} /\ Save(a, NewRow(n, v))
    BY <1>1 DEF Create
  <2>2. NewRow(n, v) \in AppRow /\ NewRow(n, v).status = "created"
    BY RowTypes DEF NewRow
  <2> QED
    BY <2>1, <2>2, BirthSteps
<1>2. ASSUME NEW p \in Procs, ImportCreate(p) PROVE Lives!Next \/ UNCHANGED Lifes
  <2>1. PICK a \in Apps \ ids : ids' = ids \cup {a} /\ Save(a, proc[p].row)
    BY <1>2 DEF ImportCreate
  <2>2. proc[p].row \in AppRow /\ proc[p].row.status = "created"
    BY <1>2, LocalIsOK DEF ImportCreate, At, LocalOK
  <2> QED
    BY <2>1, <2>2, BirthSteps
<1>3. ASSUME NEW p \in Procs, Request(p) \/ Gone(p) PROVE UNCHANGED <<ids, apps>>
  BY <1>3
     DEF Request, ImportCheck, UpdateLoad, CodeLoad, DeployLoad, OperateLoad,
         DeleteLoad, Gone, store
<1>4. ASSUME NEW p \in Procs, DeployGoesOn(p), ~DeployPublish(p)
      PROVE  UNCHANGED <<ids, apps>>
  BY <1>4
     DEF DeployGoesOn, DeployRecord, PullImage, PreparePackage, CreateSandbox,
         CreateContainer, StartContainer, DeploySetContainer, DeploySetRunning, store
<1>5. ASSUME NEW p \in Procs, DeployBacksOut(p) PROVE UNCHANGED <<ids, apps>>
  BY <1>5
     DEF DeployBacksOut, DeployEarlyFailure, PackageFails, CreateContainerFails,
         StartContainerFails, DiscardContainer, DestroySandbox, DeployFailed, store
<1>6. ASSUME NEW p \in Procs, Continue(p) PROVE Lives!Next \/ UNCHANGED Lifes
  <2>1. CASE \/ ImportUndo(p) \/ ImportSource(p) \/ UpdateSave(p)
             \/ DeployPublish(p) \/ SetOperated(p) \/ DeleteMark(p) \/ DeleteRow(p)
    BY <2>1, WritersLive
  <2>2. CASE \/ ImportUpload(p) \/ ImportUploadFails(p) \/ CodePut(p) \/ CodePutFails(p)
             \/ StartApp(p) \/ StopApp(p) \/ OperateFails(p) \/ OperateFailsHalfway(p)
             \/ DeleteReload(p) \/ DeleteContainer(p) \/ DeleteNetwork(p) \/ Dropped(p)
    <3>1. UNCHANGED <<ids, apps>>
      BY <2>2
         DEF ImportUpload, ImportUploadFails, CodePut, CodePutFails, StartApp,
             StopApp, OperateFails, OperateFailsHalfway, DeleteReload, DeleteContainer,
             DeleteNetwork, Dropped, store
    <3> QED
      BY <3>1, SameLives
  <2> QED
    BY <1>2, <1>4, <1>5, <1>6, <2>1, <2>2, SameLives DEF Continue
<1>7. CASE UNCHANGED vars
  BY <1>7, SameLives DEF vars
<1>8. ASSUME NEW a \in Apps, Exits(a) PROVE UNCHANGED <<ids, apps>>
  BY <1>8 DEF Exits, store
<1> QED
  BY <1>1, <1>3, <1>6, <1>7, <1>8, SameLives DEF Next

\* The platform with one request at a time on an application implements
\* AppLifecycle: an application is deployed, started and stopped, and
\* nothing revives a deleted one, whatever Docker or storage call fails.
THEOREM StatusDoesLive ==
    ASSUME Faults \subseteq {"docker"}
    PROVE  IsolatedSpec => StatusLives
<1>1. Init => Lives!Init
  BY DEF Init, Lives!Init, Life
<1>2. IInv /\ AloneInv /\ [Next /\ Isolated']_vars => [Lives!Next]_Lifes
  BY NextLives
<1>3. IsolatedSpec => [][Lives!Next]_Lifes
  BY <1>2, AloneInductive, PTL DEF IsolatedSpec
<1> QED
  BY <1>1, <1>3, PTL DEF IsolatedSpec, StatusLives, Lives!Spec, Lifes
=============================================================================
