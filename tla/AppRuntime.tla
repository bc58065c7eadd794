----------------------------- MODULE AppRuntime -----------------------------
(***************************************************************************)
(* The applications of one organization: ApplicationService,               *)
(* RuntimeManager, the tables applications and application_deployments,    *)
(* the object store and the Docker daemon.                                 *)
(*                                                                         *)
(* As in Workflow, a process p of Procs is the goroutine of one request    *)
(* and an action of p is one call that leaves the process (a database      *)
(* statement, a Docker or storage call) with the code up to the next one;  *)
(* proc[p] is what the goroutine keeps meanwhile.  Nothing keeps two       *)
(* requests on one application apart.                                      *)
(*                                                                         *)
(* A deployment creates one network and one container, so Docker's ids of  *)
(* both are the number of the deployment; the names "app-<id>-net" and     *)
(* "app-<id>" make them unique per application.                            *)
(***************************************************************************)
EXTENDS Integers, Sequences, FiniteSets

CONSTANTS
    Procs,
    Apps,              \* application ids (uuids, never used twice)
    Names,
    Versions,          \* code packages, by the version in their manifest
    Faults,            \* which calls may fail, see below
    NoRow, NoPackage,
    MaxDeployments     \* bound on application_deployments

(***************************************************************************)
(* Faults is a subset of                                                   *)
(*   "docker"    a Docker or storage call fails and the code handles it    *)
(*   "dropped"   a call fails whose error the code drops                   *)
(*   "gone"      a database statement fails and its error is returned, the *)
(*               client hangs up (every later call is on the request's     *)
(*               context, the calls that clean up as well), or the server  *)
(*               stops                                                     *)
(***************************************************************************)

VARIABLES
    ids,           \* ids handed out
    apps,          \* applications: the row of an id, NoRow when there is none
    packages,      \* object storage: the code package of an application
    cache,         \* data/app-packages: the package extracted on the host, which
                   \* is mounted into the container; NoPackage if incomplete
    deployments,   \* application_deployments
    networks,      \* Docker: the network of an application, 0 for none
    containers,    \* Docker: the container of an application
    proc

vars == <<ids, apps, packages, cache, deployments, networks, containers, proc>>

store == <<ids, apps, packages, cache, deployments>>
docker == <<networks, containers>>

\* source stands for source_key being set; container is 0 for none.
AppRow == [name: Names, version: Versions, source: BOOLEAN,
           status: {"created", "running", "stopped", "deleted"}, container: Nat]

DeploymentRow == [app: Apps, status: {"building", "running", "failed"},
                  container: Nat]

NoContainer == [id |-> 0, state |-> "none"]

\* What a goroutine holds: the application it works on, a copy of its row, a
\* deployment or container id.
Work(label, a, row, id) == [pc |-> label, app |-> a, row |-> row, id |-> id]

Idle == [pc |-> "idle", app |-> NoRow, row |-> NoRow, id |-> 0]

Becomes(p, local) == proc' = [proc EXCEPT ![p] = local]
Return(p) == Becomes(p, Idle)
At(p, label) == proc[p].pc = label
GoTo(p, label) ==
    Becomes(p, Work(label, proc[p].app, proc[p].row, proc[p].id))

Exists(a) == apps[a] # NoRow

App(p) == proc[p].app
ContainerOf(p) == containers[App(p)]

May(fault) == fault \in Faults

\* Bounds: a request is admitted only if there is an id, or room for a
\* deployment, for it and for every request in flight that will need one.
Importing == {p \in Procs : At(p, "import")}
Deploying == {p \in Procs : At(p, "record")}
FreeId == Cardinality(Importing) < Cardinality(Apps \ ids)
Room == Len(deployments) + Cardinality(Deploying) < MaxDeployments

(***************************************************************************)
(* The repository.  Save writes the whole row, and inserts it when there   *)
(* is no row to update; UpdateStatus of a missing row changes nothing.     *)
(***************************************************************************)
Save(a, row) == apps' = [apps EXCEPT ![a] = row]

WithStatus(row, status, c) ==
    [name |-> row.name, version |-> row.version, source |-> row.source,
     status |-> status, container |-> c]

UpdateStatus(a, status, c) ==
    apps' = IF Exists(a) THEN [apps EXCEPT ![a] = WithStatus(apps[a], status, c)]
                         ELSE apps

\* Mutant: the record is found by its application.
UpdateDeploymentsOfApp(d, status, c) ==
    deployments' = [e \in DOMAIN deployments |->
        IF deployments[e].app = deployments[d].app
        THEN [app |-> deployments[d].app, status |-> status, container |-> c]
        ELSE deployments[e]]

UpdateDeployment(d, status, c) ==
    deployments' = [deployments EXCEPT
        ![d] = [app |-> deployments[d].app, status |-> status, container |-> c]]

(***************************************************************************)
(* The Docker daemon (external), one operator per call the runtime makes.  *)
(***************************************************************************)
Running(a) == containers[a].state = "running"

\* A container that runs may exit by itself, and it stays down: it is created
\* without a restart policy.  "exited" and "died" are one state to Docker; the
\* model tells a container that was stopped on request from one that was not.
Exits(a) ==
    /\ Running(a)
    /\ containers' = [containers EXCEPT ![a].state = "died"]
    /\ UNCHANGED <<store, networks, proc>>

\* A container starts if it is there and so is the network it was created on.
CanStart(a, c) == containers[a].id = c /\ (Running(a) \/ networks[a] = c)

SetState(a, c, state) ==
    containers' = [containers EXCEPT ![a] = [id |-> c, state |-> state]]

RemoveContainer(a, c) ==
    containers' = IF containers[a].id = c
                  THEN [containers EXCEPT ![a] = NoContainer] ELSE containers

\* A network that a running container is attached to is not removed.
RemoveNetwork(a, n) ==
    networks' = IF networks[a] = n /\ ~(Running(a) /\ containers[a].id = n)
                THEN [networks EXCEPT ![a] = 0] ELSE networks

-----------------------------------------------------------------------------
(***************************************************************************)
(* CreateApp, and ImportApp: check the name, create the row, store the     *)
(* package, record its key.                                                *)
(***************************************************************************)
NewRow(n, v) == [name |-> n, version |-> v, source |-> FALSE,
                 status |-> "created", container |-> 0]

Create(n, v) ==
    /\ FreeId
    /\ \E a \in Apps \ ids :
          /\ ids' = ids \cup {a}
          /\ Save(a, NewRow(n, v))
    /\ UNCHANGED <<packages, cache, deployments, docker, proc>>

\* ExistsByName.
NameTaken(n) == \E a \in Apps : Exists(a) /\ apps[a].name = n

ImportCheck(p, n, v) ==
    /\ At(p, "idle")
    /\ FreeId
    /\ ~NameTaken(n)
    /\ Becomes(p, Work("import", NoRow, NewRow(n, v), 0))
    /\ UNCHANGED <<store, docker>>

ImportCreate(p) ==
    /\ At(p, "import")
    /\ \E a \in Apps \ ids :
          /\ ids' = ids \cup {a}
          /\ Save(a, proc[p].row)
          /\ Becomes(p, Work("upload", a, proc[p].row, 0))
    /\ UNCHANGED <<packages, cache, deployments, docker>>

ImportUpload(p) ==
    /\ At(p, "upload")
    /\ packages' = [packages EXCEPT ![App(p)] = proc[p].row.version]
    /\ GoTo(p, "source")
    /\ UNCHANGED <<ids, apps, cache, deployments, docker>>

\* Mutant: the error of the upload is dropped.
ImportUploadErrorDropped(p) ==
    /\ At(p, "upload")
    /\ May("docker")
    /\ GoTo(p, "source")
    /\ UNCHANGED <<store, docker>>

ImportUploadFails(p) ==
    /\ At(p, "upload")
    /\ May("docker")
    /\ GoTo(p, "undo")
    /\ UNCHANGED <<store, docker>>

ImportUndo(p) ==
    /\ At(p, "undo")
    /\ Save(App(p), NoRow)
    /\ Return(p)
    /\ UNCHANGED <<ids, packages, cache, deployments, docker>>

WithSource(row) ==
    [name |-> row.name, version |-> row.version, source |-> TRUE,
     status |-> row.status, container |-> row.container]

ImportSource(p) ==
    /\ At(p, "source")
    /\ apps' = IF Exists(App(p))
               THEN [apps EXCEPT ![App(p)] = WithSource(apps[App(p)])] ELSE apps
    /\ Return(p)
    /\ UNCHANGED <<ids, packages, cache, deployments, docker>>

(***************************************************************************)
(* UpdateApp and UpdateCode: load the row, (store the package,) save it.   *)
(***************************************************************************)
\* Mutant: an updated application is a new one.
EditedAnew(row, n, v) ==
    [name |-> n, version |-> v, source |-> row.source,
     status |-> "created", container |-> 0]

Edited(row, n, v) ==
    [name |-> n, version |-> v, source |-> row.source,
     status |-> row.status, container |-> row.container]

UpdateLoad(p, a, n, v) ==
    /\ At(p, "idle")
    /\ Exists(a)
    /\ Becomes(p, Work("save", a, Edited(apps[a], n, v), 0))
    /\ UNCHANGED <<store, docker>>

UpdateSave(p) ==
    /\ At(p, "save")
    /\ Save(App(p), proc[p].row)
    /\ Return(p)
    /\ UNCHANGED <<ids, packages, cache, deployments, docker>>

\* id tells whether the row is to be saved: its version changes.
CodeLoad(p, a, v) ==
    /\ At(p, "idle")
    /\ Exists(a)
    /\ apps[a].source
    /\ Becomes(p, Work("putCode", a, Edited(apps[a], apps[a].name, v),
                       IF v = apps[a].version THEN 0 ELSE 1))
    /\ UNCHANGED <<store, docker>>

CodePut(p) ==
    /\ At(p, "putCode")
    /\ packages' = [packages EXCEPT ![App(p)] = proc[p].row.version]
    /\ IF proc[p].id = 0 THEN Return(p) ELSE GoTo(p, "save")
    /\ UNCHANGED <<ids, apps, cache, deployments, docker>>

CodePutFails(p) ==
    /\ At(p, "putCode")
    /\ May("docker")
    /\ Return(p)
    /\ UNCHANGED <<store, docker>>

(***************************************************************************)
(* DeployApp.                                                              *)
(***************************************************************************)
DeployLoad(p, a) ==
    /\ At(p, "idle")
    /\ Room
    /\ Exists(a)
    /\ Becomes(p, Work("record", a, apps[a], 0))
    /\ UNCHANGED <<store, docker>>

\* Mutant: the record takes the status of the application.
DeployRecordOfApp(p) ==
    /\ At(p, "record")
    /\ deployments' = Append(deployments, [app |-> App(p),
                                           status |-> proc[p].row.status,
                                           container |-> 0])
    /\ Becomes(p, Work("pull", App(p), proc[p].row, Len(deployments) + 1))
    /\ UNCHANGED <<ids, apps, packages, cache, docker>>

DeployRecord(p) ==
    /\ At(p, "record")
    /\ deployments' = Append(deployments, [app |-> App(p), status |-> "building",
                                           container |-> 0])
    /\ Becomes(p, Work("pull", App(p), proc[p].row, Len(deployments) + 1))
    /\ UNCHANGED <<ids, apps, packages, cache, docker>>

PullImage(p) ==
    /\ At(p, "pull")
    /\ GoTo(p, "package")
    /\ UNCHANGED <<store, docker>>

HasPackage(p) == proc[p].row.source /\ packages[App(p)] # NoPackage

PreparePackage(p) ==
    /\ At(p, "package")
    /\ HasPackage(p)
    /\ cache' = [cache EXCEPT ![App(p)] = packages[App(p)]]
    /\ GoTo(p, "network")
    /\ UNCHANGED <<ids, apps, packages, deployments, docker>>

CreateSandbox(p) ==
    /\ At(p, "network")
    /\ networks[App(p)] = 0
    /\ networks' = [networks EXCEPT ![App(p)] = proc[p].id]
    /\ GoTo(p, "container")
    /\ UNCHANGED <<store, containers>>

\* The application has no package, or fetching it fails; or unpacking it does,
\* when the old files have been removed.
PackageFails(p) ==
    /\ At(p, "package")
    /\ \/ /\ May("docker") \/ ~HasPackage(p)
          /\ UNCHANGED cache
       \/ /\ May("docker") /\ HasPackage(p)
          /\ cache' = [cache EXCEPT ![App(p)] = NoPackage]
    /\ GoTo(p, "failed")
    /\ UNCHANGED <<ids, apps, packages, deployments, docker>>

\* The image cannot be pulled, or the network created: nothing to undo.
DeployEarlyFailure(p) ==
    /\ \/ At(p, "pull") /\ May("docker")
       \/ At(p, "network") /\ (May("docker") \/ networks[App(p)] # 0)
    /\ GoTo(p, "failed")
    /\ UNCHANGED <<store, docker>>

CreateContainer(p) ==
    /\ At(p, "container")
    /\ ContainerOf(p) = NoContainer
    /\ SetState(App(p), proc[p].id, "created")
    /\ GoTo(p, "start")
    /\ UNCHANGED <<store, networks>>

\* Mutant: the sandbox is not destroyed.
CreateContainerFailsUntidily(p) ==
    /\ At(p, "container")
    /\ May("docker") \/ ContainerOf(p) # NoContainer
    /\ GoTo(p, "failed")
    /\ UNCHANGED <<store, docker>>

CreateContainerFails(p) ==
    /\ At(p, "container")
    /\ May("docker") \/ ContainerOf(p) # NoContainer
    /\ GoTo(p, "destroy")
    /\ UNCHANGED <<store, docker>>

\* Mutant: the container id is not recorded.
StartContainerUnrecorded(p) ==
    /\ At(p, "start")
    /\ CanStart(App(p), proc[p].id)
    /\ SetState(App(p), proc[p].id, "running")
    /\ GoTo(p, "setRunning")
    /\ UNCHANGED <<store, networks>>

StartContainer(p) ==
    /\ At(p, "start")
    /\ CanStart(App(p), proc[p].id)
    /\ SetState(App(p), proc[p].id, "running")
    /\ GoTo(p, "setContainer")
    /\ UNCHANGED <<store, networks>>

StartContainerFails(p) ==
    /\ At(p, "start")
    /\ May("docker") \/ ~CanStart(App(p), proc[p].id)
    /\ GoTo(p, "discard")
    /\ UNCHANGED <<store, docker>>

DiscardContainer(p) ==
    /\ At(p, "discard")
    /\ RemoveContainer(App(p), proc[p].id)
    /\ GoTo(p, "destroy")
    /\ UNCHANGED <<store, networks>>

DestroySandbox(p) ==
    /\ At(p, "destroy")
    /\ RemoveNetwork(App(p), proc[p].id)
    /\ GoTo(p, "failed")
    /\ UNCHANGED <<store, containers>>

DeployFailed(p) ==
    /\ At(p, "failed")
    /\ UpdateDeployment(proc[p].id, "failed", deployments[proc[p].id].container)
    /\ Return(p)
    /\ UNCHANGED <<ids, apps, packages, cache, docker>>

DeploySetContainer(p) ==
    /\ At(p, "setContainer")
    /\ UpdateDeployment(proc[p].id, deployments[proc[p].id].status, proc[p].id)
    /\ GoTo(p, "setRunning")
    /\ UNCHANGED <<ids, apps, packages, cache, docker>>

DeploySetRunning(p) ==
    /\ At(p, "setRunning")
    /\ UpdateDeployment(proc[p].id, "running", deployments[proc[p].id].container)
    /\ GoTo(p, "publish")
    /\ UNCHANGED <<ids, apps, packages, cache, docker>>

DeployPublish(p) ==
    /\ At(p, "publish")
    /\ UpdateStatus(App(p), "running", proc[p].id)
    /\ Return(p)
    /\ UNCHANGED <<ids, packages, cache, deployments, docker>>

(***************************************************************************)
(* StartApp, StopApp, RestartApp: load the row, call Docker, record.       *)
(***************************************************************************)
OperateLoad(p, a, op) ==
    /\ At(p, "idle")
    /\ Exists(a)
    /\ apps[a].container # 0
    /\ Becomes(p, Work(op, a, apps[a], apps[a].container))
    /\ UNCHANGED <<store, docker>>

StartApp(p) ==
    /\ At(p, "startApp") \/ At(p, "restartApp")
    /\ CanStart(App(p), proc[p].id)
    /\ SetState(App(p), proc[p].id, "running")
    /\ GoTo(p, "setStarted")
    /\ UNCHANGED <<store, networks>>

StopApp(p) ==
    /\ At(p, "stopApp")
    /\ ContainerOf(p).id = proc[p].id
    /\ SetState(App(p), proc[p].id, "exited")
    /\ GoTo(p, "setStopped")
    /\ UNCHANGED <<store, networks>>

OperateFails(p) ==
    /\ \/ /\ At(p, "startApp") \/ At(p, "restartApp")
          /\ May("docker") \/ ~CanStart(App(p), proc[p].id)
       \/ /\ At(p, "stopApp")
          /\ May("docker") \/ ContainerOf(p).id # proc[p].id
    /\ Return(p)
    /\ UNCHANGED <<store, docker>>

\* Docker stops a container in several steps, and a restart stops it first: the
\* call may fail when the container has gone down already.
OperateFailsHalfway(p) ==
    /\ At(p, "stopApp") \/ At(p, "restartApp")
    /\ May("docker")
    /\ Running(App(p)) /\ ContainerOf(p).id = proc[p].id
    /\ SetState(App(p), proc[p].id, "died")
    /\ Return(p)
    /\ UNCHANGED <<store, networks>>

\* Mutant: only the status column is updated.
SetOperatedStatusOnly(p) ==
    /\ \/ /\ At(p, "setStarted")
          /\ UpdateStatus(App(p), "running", apps[App(p)].container)
       \/ /\ At(p, "setStopped")
          /\ UpdateStatus(App(p), "stopped", apps[App(p)].container)
    /\ Return(p)
    /\ UNCHANGED <<ids, packages, cache, deployments, docker>>

SetOperated(p) ==
    /\ \/ At(p, "setStarted") /\ UpdateStatus(App(p), "running", proc[p].id)
       \/ At(p, "setStopped") /\ UpdateStatus(App(p), "stopped", proc[p].id)
    /\ Return(p)
    /\ UNCHANGED <<ids, packages, cache, deployments, docker>>

(***************************************************************************)
(* DeleteApp of the service: the runtime's DeleteApp, if the row that was  *)
(* loaded has a container, then the row.                                   *)
(***************************************************************************)
DeleteLoad(p, a) ==
    /\ At(p, "idle")
    /\ Exists(a)
    /\ Becomes(p, Work(IF apps[a].container # 0 THEN "reload" ELSE "deleteRow",
                       a, NoRow, 0))
    /\ UNCHANGED <<store, docker>>

DeleteReload(p) ==
    /\ At(p, "reload")
    /\ IF Exists(App(p))
       THEN Becomes(p, Work("remove", App(p), NoRow, apps[App(p)].container))
       ELSE GoTo(p, "deleteRow")
    /\ UNCHANGED <<store, docker>>

DeleteContainer(p) ==
    /\ At(p, "remove")
    /\ IF proc[p].id # 0 THEN RemoveContainer(App(p), proc[p].id)
                         ELSE UNCHANGED containers
    /\ GoTo(p, "removeNetwork")
    /\ UNCHANGED <<store, networks>>

\* By name: whatever network the application has now.
DeleteNetwork(p) ==
    /\ At(p, "removeNetwork")
    /\ RemoveNetwork(App(p), networks[App(p)])
    /\ GoTo(p, "markDeleted")
    /\ UNCHANGED <<store, containers>>

DeleteMark(p) ==
    /\ At(p, "markDeleted")
    /\ UpdateStatus(App(p), "deleted", 0)
    /\ GoTo(p, "deleteRow")
    /\ UNCHANGED <<ids, packages, cache, deployments, docker>>

DeleteRow(p) ==
    /\ At(p, "deleteRow")
    /\ Save(App(p), NoRow)
    /\ Return(p)
    /\ UNCHANGED <<ids, packages, cache, deployments, docker>>

-----------------------------------------------------------------------------
\* The calls whose error is dropped, and what follows them.
Onward == [undo |-> "idle", discard |-> "destroy", destroy |-> "failed",
           failed |-> "idle", setContainer |-> "setRunning",
           setRunning |-> "publish", publish |-> "idle",
           reload |-> "deleteRow", remove |-> "removeNetwork",
           removeNetwork |-> "markDeleted", markDeleted |-> "deleteRow"]

Dropped(p) ==
    /\ May("dropped")
    /\ proc[p].pc \in DOMAIN Onward
    /\ IF Onward[proc[p].pc] = "idle" THEN Return(p)
                                      ELSE GoTo(p, Onward[proc[p].pc])
    /\ UNCHANGED <<store, docker>>

Gone(p) ==
    /\ May("gone")
    /\ ~At(p, "idle")
    /\ Return(p)
    /\ UNCHANGED <<store, docker>>
-----------------------------------------------------------------------------
Init ==
    /\ ids = {}
    /\ apps = [a \in Apps |-> NoRow]
    /\ packages = [a \in Apps |-> NoPackage]
    /\ cache = [a \in Apps |-> NoPackage]
    /\ deployments = <<>>
    /\ networks = [a \in Apps |-> 0]
    /\ containers = [a \in Apps |-> NoContainer]
    /\ proc = [p \in Procs |-> Idle]

Operations == {"startApp", "stopApp", "restartApp"}

\* A client's call reaches the service.
Request(p) ==
    \/ \E n \in Names, v \in Versions : ImportCheck(p, n, v)
    \/ \E a \in Apps :
          \/ \E n \in Names, v \in Versions : UpdateLoad(p, a, n, v)
          \/ \E v \in Versions : CodeLoad(p, a, v)
          \/ DeployLoad(p, a)
          \/ \E op \in Operations : OperateLoad(p, a, op)
          \/ DeleteLoad(p, a)

DeployGoesOn(p) ==
    \/ DeployRecord(p) \/ PullImage(p) \/ PreparePackage(p)
    \/ CreateSandbox(p) \/ CreateContainer(p) \/ StartContainer(p)
    \/ DeploySetContainer(p) \/ DeploySetRunning(p) \/ DeployPublish(p)

DeployBacksOut(p) ==
    \/ DeployEarlyFailure(p) \/ PackageFails(p) \/ CreateContainerFails(p)
    \/ StartContainerFails(p) \/ DiscardContainer(p) \/ DestroySandbox(p)
    \/ DeployFailed(p)

\* The goroutine of p goes on.
Continue(p) ==
    \/ ImportCreate(p) \/ ImportUpload(p) \/ ImportUploadFails(p)
    \/ ImportUndo(p) \/ ImportSource(p)
    \/ UpdateSave(p) \/ CodePut(p) \/ CodePutFails(p)
    \/ DeployGoesOn(p) \/ DeployBacksOut(p)
    \/ StartApp(p) \/ StopApp(p) \/ SetOperated(p)
    \/ OperateFails(p) \/ OperateFailsHalfway(p)
    \/ DeleteReload(p) \/ DeleteContainer(p) \/ DeleteNetwork(p)
    \/ DeleteMark(p) \/ DeleteRow(p)
    \/ Dropped(p)

Next ==
    \/ \E n \in Names, v \in Versions : Create(n, v)
    \/ \E a \in Apps : Exits(a)
    \/ \E p \in Procs : Request(p) \/ Continue(p) \/ Gone(p)

Spec == Init /\ [][Next]_vars
=============================================================================
