----------------------------- MODULE AppIsolated -----------------------------
(***************************************************************************)
(* The applications when no two requests work on one of them at a time:    *)
(* the condition under which the tables and Docker agree.  Nothing in the  *)
(* code enforces it.                                                       *)
(***************************************************************************)
EXTENDS AppInvariants

Isolated == \A p, q \in Procs : App(p) = App(q) => p = q \/ App(p) = NoRow

IsolatedSpec == Init /\ [][Next /\ Isolated']_vars

AtRest(a) == \A p \in Procs : App(p) # a

Started(a) == containers[a].state \in {"running", "died"}

\* When nobody works on an application, Docker holds exactly what its row
\* says: its one container with its network, or neither, and the row says
\* "running" exactly if that container was started and not since stopped on
\* request (the platform does not notice a container that goes down otherwise).
\* Nothing is left of a deployment that failed at any point (DeployApp and
\* createAndStartContainer undo what they did) or of a deleted application.
DockerAgrees ==
    \A a \in Apps : AtRest(a) =>
       /\ networks[a] = containers[a].id
       /\ containers[a].id = IF Exists(a) THEN apps[a].container ELSE 0
       /\ Exists(a) => (apps[a].status = "running" <=> Started(a))

\* When nobody works on an application, each of its deployments has ended, and
\* says truly whether it produced a container.
HistoryIsTrue ==
    \A d \in DOMAIN deployments : AtRest(deployments[d].app) =>
       \/ deployments[d].status = "running" /\ deployments[d].container = d
       \/ deployments[d].status = "failed" /\ deployments[d].container = 0

Life(a) ==
    IF a \notin ids THEN "unborn"
    ELSE IF ~Exists(a) \/ apps[a].status = "deleted" THEN "gone"
    ELSE apps[a].status

Lives == INSTANCE AppLifecycle WITH life <- [a \in Apps |-> Life(a)]

\* Whatever fails in Docker, the status clients see goes through an
\* application's life in order: nothing revives a deleted application or starts
\* one that was never deployed.  (Deploying again is part of the promised life;
\* RedeployTakesEffect is about whether it can succeed.)
StatusLives == Lives!Spec

\* "Redeploy the app for changes to take effect" (app.update_code): deploying
\* an application that has a code package does not fail, if nothing else does.
RedeployTakesEffect ==
    \A d \in DOMAIN deployments :
       LET a == deployments[d].app
       IN  AtRest(a) /\ Exists(a) /\ apps[a].source => deployments[d].status = "running"
=============================================================================
