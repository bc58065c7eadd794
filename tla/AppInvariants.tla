---------------------------- MODULE AppInvariants ----------------------------
(***************************************************************************)
(* What the application tables satisfy whatever the interleaving of the    *)
(* requests and whatever calls fail.                                       *)
(***************************************************************************)
EXTENDS AppRuntime

ASSUME NoRowAssumption == NoRow \notin AppRow \cup Apps
ASSUME NoPackageAssumption == NoPackage \notin Versions

Labels == {"idle", "import", "upload", "undo", "source", "save", "putCode",
           "record", "pull", "package", "network", "container", "start",
           "discard", "destroy", "failed", "setContainer", "setRunning",
           "publish", "startApp", "stopApp", "restartApp", "setStarted",
           "setStopped", "reload", "remove", "removeNetwork", "markDeleted",
           "deleteRow"}

Local == [pc: Labels, app: Apps \cup {NoRow}, row: AppRow \cup {NoRow}, id: Nat]

\* Type invariant.
TypeOK ==
    /\ ids \subseteq Apps
    /\ apps \in [Apps -> AppRow \cup {NoRow}]
    /\ packages \in [Apps -> Versions \cup {NoPackage}]
    /\ cache \in [Apps -> Versions \cup {NoPackage}]
    /\ deployments \in Seq(DeploymentRow)
    /\ networks \in [Apps -> Nat]
    /\ containers \in [Apps -> [id: Nat, state: {"none", "created", "running",
                                                 "exited", "died"}]]
    /\ proc \in [Procs -> Local]

\* A row's status and container belong together, and the container is one that
\* a deployment of this very application, not a failed one, has produced.
Points(D, a, row) ==
    /\ row.status \in {"running", "stopped"} <=> row.container # 0
    /\ row.container # 0 =>
          /\ row.container \in DOMAIN D
          /\ D[row.container].app = a
          /\ D[row.container].status # "failed"

\* However requests on an application overlap and whatever fails, its row never
\* says "running" without a container, nor names the container of another
\* application or of a failed deployment: rows are saved whole from stale
\* copies (UpdateApp, UpdateCode), and status and container id are written by
\* deployments, operations and deletions of any age.
RowsPoint == \A a \in Apps : Exists(a) => Points(deployments, a, apps[a])

\* An application that has a code package recorded can be deployed from it:
\* the package is in the object store (ImportApp stores it before it records
\* the key, and nothing removes it).
PackagesStored ==
    \A a \in Apps : Exists(a) /\ apps[a].source => packages[a] # NoPackage

\* The outcome of a deployment is final and is its own: whichever deployments
\* of an application overlap, one that has failed or runs stays so, and belongs
\* to its application (DeployApp updates its record by id).
OutcomesStand ==
    [][\A d \in DOMAIN deployments :
          /\ d \in DOMAIN deployments'
          /\ deployments'[d].app = deployments[d].app
          /\ deployments[d].status # "building" =>
                deployments'[d].status = deployments[d].status]_vars
=============================================================================
