# TLA+ specifications of suzuran

This directory holds formal models of suzuran (the Go backend in `src/backend`
and the session handling of the web frontend in `src/frontend`), the TLC
configurations that check them on small instances, and TLAPS proofs of their most
important properties for every instance.

* `tlc -config Workflow.cfg MCWorkflow` checks one instance.
* `tlapm WorkflowProofs.tla` checks the proofs of one module.
* `PROJECT.json` lists the components, the runs, which source lines each
  definition models, the hazards the properties are aimed at, and for each
  property a mutated definition that breaks it.

Contents: [the system](#the-system), [the modules](#the-modules), [the workflow
engine](#the-workflow-engine), [the applications](#the-applications), [tokens and
the browser](#tokens-and-the-browser), [members](#members),
[departments and the DingTalk synchronization](#departments-and-the-dingtalk-synchronization),
[login and first setup](#login-and-first-setup), [sharing and data](#sharing-and-data),
[the proofs](#the-proofs-at-a-glance), [not modelled](#not-modelled),
[divergences](#divergences-that-no-run-shows).

## The system

suzuran is a portal for an organization's small web applications. One Go
process serves an MCP endpoint (JSON-RPC tools), a REST API, an OAuth 2.0
provider and a reverse proxy to the applications, each of which runs in a Docker
container. State is in PostgreSQL (through gorm), Redis, MinIO and a few
in-memory maps. Every request is served by a goroutine of its own; apart from
the OOBE setup nothing runs in a database transaction and no row is ever locked
or versioned, so *any two requests interleave between any two statements*. Most
updates are `Save`: they write back the whole row that was read earlier.

| component | state | operations | what makes it hard | what makes it correct |
|---|---|---|---|---|
| workflow engine (`service/workflow_*.go`, `repository/workflow_repository.go`) | definitions, instances, tasks tables | define, archive, start, approve, reject, cancel; recursive `advance` | stale whole-row writes, a decision racing a cancellation, failures between the writes of one call, cyclic definitions | rows stay coherent, tasks ask what the definition asks, nobody's decision is skipped or taken back, no dangling goto, requests return |
| condition evaluator (`service/workflow_evaluator.go`) | none | evaluate `when` over variables | the order in which operators are looked for, numbers against texts, variables that are not set | a comparison of numbers means what the documentation says, and an order of texts is an error |
| OAuth 2.0 provider (`oauth/oauth_service.go`, `oauth/session.go`) | login sessions in Redis, access and refresh tokens | exchange a login session, refresh, revoke, introspect | lookup, rotation and storage of a token are separate calls, errors of the rotation are dropped, everything expires | every token goes back to a login of its user and a membership, and tokens stop coming when the login has ended |
| WebAuthn, password, DingTalk login (`oauth/webauthn_service.go`, `password_service.go`, `dingtalk_service.go`) | challenges and login sessions in Redis, passkeys with their counters, usernames, DingTalk ids | begin and finish a ceremony, log in, create the account | answers in any order, a challenge deleted late, counter read and saved with its row | a login is its user's own, one login per ceremony, counters grow, a person keeps their account |
| application runtime (`runtime/`) | applications' status and container id, deployments; Docker | deploy, start, stop, restart, delete; router | partial failure of a long deployment or a restart, fixed container names, dropped errors of the last update, containers that go down by themselves | a row's container is one of its own deployments, outcomes are final, database and Docker agree at rest |
| application catalogue and import (`service/application_service.go`, `app_import_service.go`) | applications, code packages | create, update, delete, import | whole-row saves racing a deployment, check-then-create | a deployment's result is not lost |
| organizations and distribution (`service/distribution_service.go`, `handler/provider/`) | organizations, distributions, application admins | create, save, delete; distribute, undistribute, appoint, dismiss | appointing while undistributing, foreign keys that delete | every administrator administers a distributed application |
| members (`service/user_service.go`) | users, bonds | create, update, remove member, reset password | last-admin rule on a snapshot, rows saved whole, a removed bond inserted again | an organization keeps an administrator, saves keep what they are not about |
| first setup, OOBE (`handler/oobe.go`) | organizations, users, bonds, credentials | guard, cleaning up, setup | guard and cleaning up are outside the transaction, each count and deletion may fail unheard | who can log in is spared; a setup starts afresh |
| DingTalk sync (`service/dingtalk_sync_service.go`) | departments, users, bonds | sync departments, sync users | order of arrival, half-done runs | a completed run mirrors the directory; a re-run repairs |
| notifications (`service/notification_service.go`) | in-memory store | send in-app, email, retry | nothing constructs it yet | not modelled |
| departments (`service/department_service.go`) | departments | create, move, delete, tree | a move may close a cycle or cross organizations | every department is in the tree |
| data service (`service/data_service.go`, `repository/data_repository.go`) | data tables' descriptions and the tables themselves | create, drop, add column, rows | two stores without a transaction, one table for all organizations of an application, names cut off by the database, raw SQL | descriptions and tables agree, rows are their organization's |
| MCP pipeline (`mcp/`) | rate-limit windows in Redis, audit log | authenticate, limit, audit, dispatch | which check comes before which tool | a call passes the checks its tool is registered with |
| web frontend (`src/frontend/app/src/api/client.ts`, `stores/auth.ts`) | tokens in localStorage, the calls waiting for a refresh | log in, call, refresh, log out | several calls find the token expired at once, a logout or a login comes while they are under way | one refresh at a time, nobody signed out without need, every call answered |

How they interact: an MCP or REST handler authenticates the bearer token (OAuth
provider), checks that the organization named in the call is the token's
(`RequireOrgAccess`), and calls a service, which calls repositories. Services
call each other rarely: the importer calls the catalogue and the object store,
the catalogue calls the runtime, and the
workflow engine can call notifications (but `cmd/api/main.go` gives it no notifier).
What they share is the tables.

## The modules

One module per component and one with its properties; what interacts is composed
by extension, so that the tables are shared and the actions interleave.

```
Conditions <- WorkflowPayloads           the evaluator, definitions that clients submit
WorkflowDefinition <- Workflow <- WorkflowInvariants <- WorkflowProofs
                      WorkflowIsolated refines WorkflowAtomic (over WorkflowMeaning),
                      proved in WorkflowProofs
                      WorkflowDocs
AppRuntime <- AppInvariants <- AppIsolated (refines AppLifecycle) <- AppProofs
Tokens <- TokenInvariants (refines GrantLife) <- TokenProofs
Tokens <- Browser <- BrowserInvariants <- BrowserProofs
                                         the page and the endpoints it calls
ToolCalls <- Members <- MemberInvariants <- MemberProofs
                                         the checks before a tool; accounts, memberships
             Members <- Departments <- Directory <- DirectoryInvariants <- DirectoryProofs
Login <- FirstSetup <- LoginInvariants <- LoginProofs
                                         passkeys, passwords, the first setup
ToolCalls <- Sharing <- AppData <- SharingInvariants <- SharingProofs
```

`MC…` modules give the constants their values. Everywhere **an action is one call
that leaves the goroutine** (a statement, a Redis, Docker or storage call) with
the code up to the next one, and `proc[p]` holds exactly what goroutine `p` keeps
across the gap; the only database transactions of the program, the one at the end
of the first setup and those that gorm puts around a single statement, are single
actions. Two devices recur:

* `proc[p].alone` is true while no other request has been in flight since `p`
  began. Many promises of the code hold only then, because it checks a rule in
  one statement and acts on it in another; a property that says `alone` says so
  plainly, and the mutants show that it still has something to say. It is no
  evidence about overlapping requests: `LastAdminStays`, `SavesKeepTheRest`,
  `CounterGrows`, `FreshStart`, `OneLoginPerCeremony`, `AdminsWhereDistributed`,
  `TablesDescribed`, `OneOpenTask` and `CallsAreAtomic` say what the code achieves when
  requests are kept apart (and, where they say so, nothing fails); what it does
  when they are not is in [the divergences](#divergences-that-no-run-shows). The
  others hold with every overlap of their model.
* A bound on a table admits a request only if the rows that all requests in
  flight may still insert have room (`Room…`), so it refuses *new* requests and
  never stops one half-way.

Definitions announced by a comment (`\* Mutant: …`) are not part of the model:
each is a plausible bug that one of the properties rules out.

## The workflow engine

### Modules

* `WorkflowDefinition` models the decoded definition, `validateDefinition`, and
  the way the engine reads a definition: which branch a condition step takes and
  which goto a decision follows. A condition appears here as the set of variable
  assignments it holds of and the set it cannot be evaluated over; the order of
  the branches, the error that stops the scan, a `when` that shadows an
  `otherwise` are all kept.
* `Conditions` models the evaluator itself (`EvaluateCondition`, `compare`,
  `resolveOperand`): an expression is a sequence of words and operator characters,
  operators are looked for in the order of the code, `>=` before `>`, and one with
  nothing before it is passed over. What a word reads as (a number or not) and
  which words it takes to make an operand are data.
* `Workflow` models `WorkflowService` and its repositories. Variables: the three
  tables `defs`, `instances`, `tasks` (sequences indexed by id) and `proc`, what
  each goroutine is doing. **One action is one database statement** with the code
  up to the next one, and `proc[p]` holds exactly what the goroutine keeps across
  the gap: its copies of the instance or the task row, and the step it goes to.

  | code | actions |
  |---|---|
  | `DefineWorkflow`, `ArchiveWorkflow` | `Define`, `Archive` |
  | `StartInstance` | `StartLoad`, `StartCreate`, then `Advance…` |
  | `advance`, a round of the recursion | `AdvanceStart`, `AdvanceCondition`, `AdvanceApproval`, `AdvanceEnd`, `AdvanceError` |
  | `createApprovalTasks` | `CreateTask`, `AssignError` |
  | `actOnTask` (approve, reject) | `ActLoad`, `ActSave`, then `ActRoute` (and `Advance…`) or `ActStop` |
  | `CancelInstance` | `CancelLoad`, `CancelSave` |
  | a statement fails, a client hangs up, the server stops | `Fail` |

  `Request(p)` is a client's call: any user of any token, any id. `Continue(p)`
  is the goroutine going on.
* `WorkflowInvariants` states the properties that hold whatever the
  interleaving.
* `WorkflowMeaning` says what a definition means for an instance, at once;
  `WorkflowAtomic` is the abstract specification: one step per call.
* `WorkflowIsolated` restricts the engine to behaviours in which no two requests
  work on *one instance* at a time, and states that then it implements
  `WorkflowAtomic` under the mapping `Views`. Nothing in the code enforces this
  isolation: the refinement shows exactly what a lock per instance would buy.
* `WorkflowDocs` states what `docs/specs/06-workflow-engine.md` says where the
  engine does otherwise.
* `WorkflowPayloads` holds the definitions that clients submit in the runs: the
  leave request of the documentation, a draft that loops back through an
  approval, one with every flaw the validation lets through (a comparison of a
  text with a number among them) and one it refuses. `When` turns an
  expression into the sets that `WorkflowDefinition` wants by calling the
  evaluator. `ComparisonsAreDocumented`, an assumption that TLC evaluates with every
  workflow run, compares the evaluator with the documented meaning of the
  six operators, for numbers on both sides of each other and for a variable
  that is not set. `MCWorkflow` and `MCWorkflowDocs` instantiate the specifications.

### What the runs show

| run | instance | property | result |
|---|---|---|---|
| `workflow` | 2 goroutines on 1 instance, two organizations, definitions that are incomplete, circular or misspelt, statements may fail; 205 961 states | `TypeOK`, `RowsCoherent`, `TasksIssued`, `GotosResolve`, `DecisionsStick`, `HumanInTheLoop`, `RequestsReturn` | hold: lost updates mix no columns, ask nobody the definition does not ask, unmake no decision, walk through no approval; what the validation accepts never sends `advance` to a missing step, except by a condition without a match or a step named "start" of another type; every request returns, unless the definition sends it round a circle of automatic steps |
| `isolated` | 2 goroutines, 2 instances; 245 593 states | `OneOpenTask`, `CallsAreAtomic` | hold: with requests on one instance kept apart, the engine implements `WorkflowAtomic` and no instance is stuck or asks twice |
| `final` | cancellation and decision overlap | `ResolvedIsFinal` | **violated**: a cancelled instance runs again, an approved one becomes cancelled |

### Bounds, and why they are enough

`MaxDefs`, `MaxInstances` and `MaxTasks` bound the tables. A request is admitted
only if `Room` (and, for a start, room for an instance) is left for everything
the requests in flight may still create, so the bound refuses *new calls* and
never stops a goroutine half-way; this is what lets `RequestsReturn` be checked on
a bounded instance. `Vars` has one assignment on each side of the documented
condition. Instances interact only through the goroutines that work on them, so
one instance shows every race and two show what stays apart; a lost update
needs two writers. Five tasks let the leave request run through both its approvals
with two decisions of each overlapping, and the draft loop back. `Procs` is
symmetric except in `workflow`, which checks liveness.

The table is not deadlocked at its bound: clients can always archive a
definition again, so `CHECK_DEADLOCK` stays on everywhere.

### Fairness

`FairSpec` adds weak fairness of `Continue(p)` for each goroutine: the Go
scheduler runs it and its database calls return. Nothing is assumed of
clients, so no request need ever be made, and a failure (`Fail`) is never forced.

`RequestsReturn` does not say that every request returns, because that is false: the
validation accepts a circle of start and condition steps, and `advance` recurses on it
without bound, although `docs/specs/06-workflow-engine.md:172` says that it advances until it
meets an approval or an end. One definition of the run (`Circular`) has such a circle. The property names the
exception (`Circling`: there is a set of automatic steps that the goroutine is in and that
leads nowhere else), so it says that this is the *only* way not to return. Its
mutant leaves an instance that no branch is for at its condition.

### What is proved

The theorems of `WorkflowProofs` hold for any sets of goroutines, users,
organizations, definitions and variables, any bounds, with or without failures.
They assume `PayloadAssumption` (user assignees are users, conditions are lists),
`OrgAssumption` (every token names an organization) and, because the status column
takes whatever an end step says, `ResultAssumption` (results are the documented
ones; the validation does not ask it of a definition).

* `InductiveInvariant`: `Spec => []IInv`. `IInv` joins the type invariant, "every
  stored definition was validated" (`DefsValid`), `RowsCoherent`, `TasksIssued`
  and, the strengthening, `LocalsOK`: for each program counter, what a goroutine's
  *copy* still satisfies although the table has moved on. The argument is that
  tables only grow, and that instance and task rows never change what the copies
  rely on (`SameDefs`, an instance's organization and definition, a task's
  question). So a copy stays coherent with the definitions however stale it is, and
  writing it back whole keeps the row coherent. Without `LocalsOK` the row
  that `CancelSave` writes could be anything.
* `TypeCorrect`, `RowsAreCoherent`, `TasksAreIssued`, `GotosDoResolve` follow from it:
  the theorem for every instance of what `workflow` checks on one.
* `DecisionsDoStick`, an action property: `ActSave` is the only action that
  rewrites a task, and its copy carries a decision and the question of the row it
  overwrites.
* `HumanIsInTheLoop`, an action property with an invariant of its own (`Solo`):
  while no task of an instance is decided, at most one goroutine can be
  advancing it, the one that started it, and its copy is the stored row.
* `OneTaskIsOpen` is about `IsolatedSpec`, and under the hypotheses of the `isolated`
  run: no statement fails, and every definition is `Complete` (the start step is
  named "start", conditions are total, approvals ask a user and both decisions lead
  somewhere; `WellFormedIsComplete`, an assumption that TLC evaluates, says that the
  run's definitions are). Without either an instance may be left where nobody is asked.
  The invariant, `OneInv`, says what the goroutine at work on an instance knows
  (`Onward`: while it advances, nothing is pending there; when it has loaded a
  task, that is the one pending), and that where nobody is at work there is
  one task to decide (`Waits`). A step on one instance leaves every other as it was (`StepAt`).
* `CallsSeemAtomic`, under the same hypotheses, is the refinement: `IsolatedSpec`
  implements `WorkflowAtomic` under the mapping `Views`.
  - `FaithInv` is the strengthening (TLC was asked about it first): what a goroutine
    holds is what the tables say or what it is about to make of it. The row it
    advances is the stored row, and a row about to be created heads for what follows
    the start; the task it will decide is still pending; the instance it will cancel
    is still running. Alone on the instance, nobody makes its copy stale.
  - The step of the first write is the abstract step: `StartCreate` is `Start`,
    `ActSave` is `Decide`, `CancelSave` is `Cancel`, and `Define` and `Archive` are
    themselves. Loads change no view, and every step after the first write is a
    stutter: what `Settle` said of the instance beforehand, the step makes true
    (`StepSeen`, `Stutter`). A step on one instance does not change how any other is seen.
  - `TasksOf` and `Rest` are recursive functions, of which the prover knows nothing
    until their equations are shown to have a solution (`CountsExists`, with an
    induction over the numbers of a *set* (`Upwards`), which is what the provers can
    instantiate; `RestsExists`). `Rest` has one even where steps lead in a circle, which
    the validation lets through: an instance that never comes to rest is seen at an
    arbitrary step, the same in the code's view and in the abstract specification.

Each step is proved by cases over the actions: one lemma per action and
conjunct it disturbs.

### What is only model-checked

`RequestsReturn` (liveness is beyond the prover), `ComparisonsAreDocumented`, and
`final`, which is a counterexample.

### What is not modelled

The listing operations (they only read), the notification of approvers (the
program is built without a notifier), the wording of errors, and time stamps
except whether `completed_at` is set.

## The applications

### Modules

* `AppRuntime` models `ApplicationService` (create, import, update, update_code,
  delete), `RuntimeManager` (deploy, start, stop, restart, delete), the tables
  `applications` and `application_deployments`, the object store and the Docker
  daemon. As in `Workflow` **one action is one call that leaves the process**, a
  statement or a Docker or storage call, with the code up to the next one, and
  `proc[p]` holds the goroutine's copy of the row and the ids it goes on with.

  | code | actions |
  |---|---|
  | `CreateApp` | `Create` (one statement) |
  | `ImportApp` | `ImportCheck`, `ImportCreate`, `ImportUpload` or `ImportUploadFails` and `ImportUndo`, `ImportSource` |
  | `UpdateApp` | `UpdateLoad`, `UpdateSave` |
  | `UpdateCode` | `CodeLoad`, `CodePut` or `CodePutFails`, `UpdateSave` if the version changes |
  | `DeployApp` | `DeployLoad`, `DeployRecord`, `PullImage`, `PreparePackage`, `CreateSandbox`, `CreateContainer`, `StartContainer`, `DeploySetContainer`, `DeploySetRunning`, `DeployPublish`; it fails by `DeployEarlyFailure`, `PackageFails`, `CreateContainerFails` (`DestroySandbox`), `StartContainerFails` (`DiscardContainer`, `DestroySandbox`), and then `DeployFailed` |
  | `StartApp`, `StopApp`, `RestartApp` | `OperateLoad`, `StartApp` or `StopApp` or `OperateFails` or `OperateFailsHalfway`, `SetOperated` |
  | a container goes down by itself | `Exits` |
  | `DeleteApp` of service and runtime | `DeleteLoad`, `DeleteReload`, `DeleteContainer`, `DeleteNetwork`, `DeleteMark`, `DeleteRow` |
  | an error the code drops (`_ = ...`) | `Dropped`, by the table `Onward` |
  | an error that is returned, a client that hangs up, the server stopping | `Gone` |

  Three things of the libraries matter and are modelled by what they do. gorm's
  `Save` writes the whole row and *inserts* it when no row has its key;
  `Updates` of a missing row changes nothing and is no error. Docker refuses a
  second network or container of the same name, does not remove a network that a
  running container is attached to, and creates a container on a network that is
  gone but does not start it. The clean-up calls of a deployment run on the
  request's own context, so when the client hangs up they do nothing (`Gone`).
  A stop takes several steps and a restart stops first, so the call may fail when the
  container is down already (`OperateFailsHalfway`); no container has a restart policy, so
  one that exits stays down (`Exits`). In both cases it is `"died"`, which to Docker is
  the same as the `"exited"` of a stop on request: the model tells them apart because the
  table does.
* `AppInvariants`: what holds of the tables whatever overlaps and fails.
* `AppLifecycle`: the life of an application as the tools promise it, deployed again
  when its code has changed. `AppIsolated` restricts the requests to one at a time *per
  application* and states that tables and Docker then agree and that the status
  implements `AppLifecycle`; and, in `RedeployTakesEffect`, what `app.update_code` says of
  redeploying.
* `AppProofs`: the theorems about both.

### What the runs show

| run | instance | property | result |
|---|---|---|---|
| `app_races` | 2 goroutines on 1 application, 2 deployments, every fault; 882 359 states | `TypeOK`, `RowsPoint`, `PackagesStored`, `OutcomesStand` | hold: no interleaving and no lost update makes a row "running" without a container or points it at a failed or foreign deployment; a recorded package is stored; an outcome is final |
| `app_isolated` | 2 goroutines, 2 applications, 2 versions, Docker and storage fail; 1 330 190 states | `DockerAgrees`, `HistoryIsTrue`, `StatusLives` | hold: every failed deployment undoes what it did, the history tells the truth, nothing comes back from deletion |
| `app_redeploy` | 1 goroutine, 1 application, no faults | `RedeployTakesEffect` | **violated**: a second deployment fails, although nothing else does |

What `DockerAgrees` says of a status is what the table can know: "running" means that the
container was started and not stopped on request since. Whether it is up is another
matter (it may have exited, or a restart may have failed half-way), and the platform never
writes that down: `GetAppStatus` asks Docker.

`app_redeploy` shows a disagreement of code and promise. The description of
`app.update_code` ends "Redeploy the app for changes to take effect"
(`mcp/tools/app_tools.go:138`, and `src/skills/open-suzuran/SKILL.md` says the same), but
network and container have names fixed by the application (`runtime/sandbox.go:28`) and
nothing removes those of the deployment before, so every deployment after a successful one
fails at the network. It has unpacked the new package over the directory that the running
container has mounted by then, so that a *restart* picks up the new code. The row keeps
its status and its container, which is why `DockerAgrees` and `StatusLives` hold all the same:
they are no evidence that a redeployment works.

### Bounds and faults

Applications share nothing but names (and `AppIsolated` runs two of them), so one
application with two goroutines shows every race of two requests; two deployments
let one follow or overlap the other. `FreeId` and `Room` admit a request only if
the ids and deployment numbers it will need are free, so no goroutine is stopped by a
bound. Ids are never used twice (uuids; deployment ids are nanosecond times, taken
to differ). `Faults` names what may fail: `"docker"` (handled), `"dropped"` and
`"gone"`. `app_races` allows all of them; `DockerAgrees` and `HistoryIsTrue` hold
only without the last two, since a clean-up whose error is dropped leaves its
rest behind. `app_redeploy` needs neither faults nor overlaps. The clients may have deleted every application, and then no id
is left: these runs do not check deadlock. No call of an application loops, so
there is no liveness to check beyond the workflow's: `HistoryIsTrue` already says that
a deployment whose goroutine is done has ended.

### What is proved

`AppProofs` holds for any sets of goroutines, applications, names and versions,
any number of deployments and any faults. It assumes `NoRowAssumption` and
`NoPackageAssumption`: the values that stand for "no row" and "no package" are
neither rows nor versions.

* `AppInductive`: `Spec => []IInv`, where `IInv` joins `TypeOK` with three parts.
  `RowsOK` says of every stored row what `RowsPoint` and `PackagesStored` say
  (`RowOK`). `LocalsOK` says it of every *copy* a goroutine may still write back,
  and says at each program counter how far the deployment behind it has come.
  `Owned`, the part that takes thought, says that the number of a deployment in
  flight is known to its own goroutine alone: no row, no copy and no other
  goroutine names it. So a deployment that can still fail is one that nothing
  points to, and writing "failed" leaves all rows and copies true; only
  `DeployPublish` makes the number known, and by then the deployment runs.
* `AppTypes`, `RowsDoPoint` and `PackagesAreStored` follow at once.
* `OutcomesDoStand`, an action property: only `UpdateDeployment` rewrites a
  deployment, and by `Owned` and `LocalsOK` the one it rewrites is still building.

The second part supposes that what fails is Docker or the object store
(`Faults` is a subset of `{"docker"}`), as the run does; the drops and cut-offs of the
other faults leave rests behind, so this is what the code achieves and no more.

* `HistoryToldTrue`: `HistoryIsTrue`, and here for requests that overlap as they like:
  `HistoryInv` says that a deployment without an outcome has its goroutine at work,
  that the container is recorded before the status, and (by `Owned`) that nobody
  else writes either.
* `DockerDoesAgree`: `DockerAgrees` of `IsolatedSpec`. Its invariant, `AloneInv`,
  follows row, network and container of an application through each program counter
  (`Fits`): what a deployment has made so far and what its undoing still has to take
  away, what a start or stop found, what a deletion has removed. Where nobody is at
  work they agree (`Settled`), which is the state that the next request starts from.
  A container that dies, by itself or half-way through a call, keeps its id and is still
  one that was started, so it fits the same row.
* `StatusDoesLive`: `StatusLives`, the refinement of `AppLifecycle`, step by step: every
  action changes the status of one application along the abstract life, or not at all.
  A deployment after a successful one would be a step of that life too; that the code never
  gets there is what `app_redeploy` shows.

### What is not modelled

The parsing of manifests and packages, quotas, the environment of the container,
logs and status queries, the router (it reads a row and proxies), and
organizations: a call about another organization's application is refused before it
reaches the service.

## Tokens and the browser

### Modules

* `Tokens` models the part of `OAuthService` that the platform uses: login
  sessions, their exchange for a pair of tokens, refresh with rotation,
  revocation, and the role that is looked up for each new token. An access token
  and the refresh token issued with it carry the same user, organization and
  time, so one row of `tokens` stands for both. Members come and go meanwhile
  (`Join`, `Leave`), and time passes (`Tick`).

  | code | actions |
  |---|---|
  | the end of every login | `SignIn` |
  | `ExchangeLoginSession` | `Exchange` or `ExchangeElsewhere`, `ResolveRole`, `StoreToken` or `StoreFails`, `DropSession` (it is deferred: it happens in any case) |
  | `RefreshToken` | `RefreshLoad`, `RefreshRotate`, `ResolveRole`, `StoreToken` or `StoreFails` |
  | `RevokeToken` | `RevokeLoad`, `RevokeSave` |
  | the answer; the server stops or the client goes | `Answer`; `Gone` |

* `GrantLife` is the abstract specification: a login is open, brings tokens,
  and ends, after which it brings none. `TokenInvariants` states the refinement,
  `GrantsEnd`, with what "open" means in terms of sessions, tokens and requests in
  flight.
* `Browser` is one tab of the platform (`api/client.ts` and the session part of
  `stores/auth.ts`) put on top of `Tokens`: JavaScript runs each callback to its
  end, so an action is the handling of one response. `calls[c]` is an API call
  of the page and `proc[c]` the server's goroutine for the token request it may
  make. `isRefreshing`, `pendingRequests`, the two entries in localStorage,
  `isAuthenticated` (`signedIn`) and the one retry after a 401 are all kept.
  `LogOut` is the user's own logout, which leaves the calls under way alone: a
  refresh among them stores its tokens again, and if it fails it signs out whoever has
  logged in since. `ChooseOrg` may come a second time while the first exchange of
  the login session is under way, since `Callback.vue` takes a second click; the history
  `twice` names those logins.

### What the runs show

| run | instance | property | result |
|---|---|---|---|
| `tokens` | 2 goroutines, 1 user, 2 organizations, everything fails; 1 037 461 states | `TypeOK`, `GrantsFromBonds`, `GrantsEnd` | hold: a token, however often refreshed, goes back to a login of its user that offered its organization, and a provider's role to a membership of the provider; when a login has ended nobody gets a token for it again, although two refreshes with one token may both succeed |
| `browser` | 3 calls of a page, 2 refreshes in a row, 2 logins, logouts, double clicks, a network that loses requests and answers; 528 074 states | `OneLiveGrant`, `StoredTokenIsLive`, `SignedInStays`, `EveryCallEnds` | hold: what `Tokens` alone does not give (one refresh token per login) the page's own discipline does, if it exchanged the login session once; the page signs out only when asked to, when a refresh is lost or when the token it presented has expired; every call is answered |

`BrowserProofs` shows the first three of `browser` for any number of calls, users
and logins, see [the proofs](#the-proofs-at-a-glance).

`OneLiveGrant` is not an invariant of `Tokens`: two overlapping refreshes, or a
rotation whose error is dropped, leave two live tokens of one login. That is why it
is checked for the page, which never does the first, without the second. It excepts
the logins in `twice`, of which the server does give out two live tokens.

### Bounds and faults

`MaxTime` and the three lifetimes are chosen so that a session, an access token and a
refresh token can each expire at every point of an exchange or a refresh. Three
tokens let an exchange be followed by two refreshes that overlap; a token's
further history adds nothing, since a refresh copies login, user and
organization from the row it found. Logins do not interact, so `tokens` has one.
In `browser` three calls let one drive, one queue and one arrive late, and three
tokens and two logins let a page be signed out and in again in between, and either login be
refreshed or exchanged twice.
`Faults`: `"failed"` a statement returns an error, `"dropped"` one whose error the
code drops, `"gone"` the server stops or its client goes, `"revoke"` clients
revoke tokens, `"lost"` the network loses the page's refresh or its answer. At the
bound of time and tokens nothing need be possible any more, so deadlock is not
checked.

### Fairness

`BrowserSpec` assumes weak fairness of `Page(c)` (the browser runs the
callback of a response that has arrived) and of `Server(c)` (a request that was sent
is served). A network that loses things is covered by its own actions, which
nobody is obliged to take; users need not do anything.

## Members

### Modules

`ToolCalls` has the scope of every MCP tool and the checks before a call:
`RequireScope`, `RequireRole`, `RequireOrgAccess`, and `ValidateToolCall`, which
joins them. The modules below use it to say who may call what; the REST handlers
call the same services behind checks of their own.

`Members` models `UserService`, the DingTalk login and the tables `users` and
`org_user_bonds`. A row that a goroutine has read and will save whole is kept in
`proc[p].row` and `proc[p].member`; `UpdateBond` of a bond that was removed
meanwhile inserts it again, as gorm's `Save` does.

| code | actions |
|---|---|
| `CreateMember` | `Create`, `CreateFindBond`, `CreateCheckName`, `CreateAccount`, `CreateMembership` |
| `UpdateMember` | `Update`, `UpdateLoad`, `UpdateSaveUser`, `UpdateSaveBond` |
| `RemoveMember` | `Remove`, `RemoveCount`, `RemoveDelete` |
| `ResetPassword` | `Reset`, `ResetSave` |
| `findDingTalkUser`, `LoginOrCreate` | `Login`, `LoginCreate` or `LoginRefresh`, `LoginSession` |
| a statement fails, the client goes, the server stops | `Fail` |
| who calls: tool or route | `ToolCreateMember`, `CreateMember`, and so on |

### What the run shows

`members` (2 goroutines, 1 organization, 3 accounts, 2 bonds; 255 825 states),
from the founder alone and from the founder and a person whom a synchronization
has brought in:

* `TypeOK`, with "a username has a password" and "one live bond per membership";
* `LastAdminStays`: a removal that nothing overlaps leaves an administrator;
* `SavesKeepTheRest`: what an undisturbed request saves whole, it changes only
  where it is about it: no update of a member loses a password, no login a phone;
* `SamePersonSameAccount`: after an undisturbed login, a person's later logins lead
  to the same account, whatever is done to it in between.

The first and the last are false without `alone` (see the divergences), and a
demotion has no last-admin rule to check. Two requests are what any of the races
takes; three accounts are an administrator, the one in question, and one that
should not have been found. The clients may fill the tables: deadlock is not
checked. `MemberProofs` shows all four for any number of requests, accounts,
organizations and people.

## Departments and the DingTalk synchronization

### Modules

* `Departments` puts the table `departments` on top of `Members`: create, update,
  delete, set manager and the tree. The tool reads a department and saves it
  (`DeptUpdate`, `DeptUpdateSave`), the REST handler saves a row made of its
  request alone (`DeptReplace`); that difference matters to the next module. gorm's `Save`
  inserts that row if the id in the path is nobody's or a deleted department's, and nothing keeps a department
  from being its own parent. The
  foreign keys (children of a deleted department become roots) are part of
  `DeleteDept`. `BuildTree` is the code's algorithm: roots are those without a
  parent in the organization, children are attached from there.
* `Directory` is `DingTalkSyncService` for one organization, composed with
  everything above. `directory` is what DingTalk holds, external, and changes
  (`DirectoryChanges`); a listing can be unreadable, which the code takes for an
  empty one.

  | code | actions |
  |---|---|
  | `SyncOrganization` | `SyncStart`, `SyncList`, …, `SyncEnd` |
  | `syncDepartments`, per department | `SyncDept`, `SyncSaveDept`; then `SyncDeptsDone` |
  | `syncUsers`, per department and person | `SyncListStaff`, `SyncPerson`, `SyncSavePerson`, `SyncBond`, `SyncSaveBond`, `NextDept` |

### What the run shows

`directory` (500 770 states): one sync at a time, stopped after any statement and
repeated, beside members that are removed and departments of two organizations that
are created, moved, replaced and deleted by anyone. Logins beside a sync are not in this
module; what they do to accounts is in `Members`. A person's row is saved for the ids and the phone
only: a save that only brings a name or an avatar up to date (`upsertUser` compares them) is left out.

* `TreeShowsAll`: a department is in the tree if and only if it is not above
  itself and not below such a one, so a parent in another organization hides nothing;
* `SyncMirrors`: an undisturbed sync, whatever earlier ones left half-done, brings in
  every department, below its parent if that came first, and makes everyone in it a
  member with a department;
* `ResyncIsIdle`: "it is idempotent", as the comment of `SyncOrganization` says: another
  sync changes no row.

The two directories of `MCDirectory` are the two orders of a parent and its child, with a
person in one or both departments and with or without a phone. A department is
looked up, and its parent resolved, from the table and `deptMap` alone, so two
of them show every case there is of a parent. `DirectoryProofs` shows all three for
any number of requests, organizations and departments, and for every directory in
which a department is listed once and a person has one phone.

### What is proved

`DirectoryProofs` assumes of the constants that the synchronized organization is one
(`SyncOrgKnown`), that the directory has people's user ids and perhaps others
(`SyncIdsKnown`), and what DingTalk guarantees of a listing (`DirectoriesKnown`: ids are not
zero and distinct, a person has the same phone wherever listed), besides `IdsKnown`,
`PasswordsKnown` and `PhonesKnown`. No department needs to be listed before its parent,
and circles are allowed.

* `TreeAlwaysShowsAll` is about the tables alone. `BuildTree` and `Ancestors` are recursive
  functions that walk one level at a time, as many levels as there are departments.
  Two lemmas about sets carry the argument: such a walk has a value for every number
  (`IteratesExists`, by an induction over the *set* of numbers for which it has
  one, `Upwards`), and in a finite table it has stopped growing by the
  last level (`Settles`). So the tree is the least set that has the roots and is closed under children (`TreeIs`),
  and `Ancestors` is closed upwards (`AncestorsAre`). Roots are not above themselves, nor are
  children of those that are not (`ShownIsSane`). Of departments that the tree misses
  although neither they nor an ancestor is above itself, one with the fewest ancestors
  would have a parent of the same kind with fewer still (`SaneIsShown`).
* The other two need what a synchronization knows at each statement. `Undone` says so of one
  that nothing disturbs (`Tracks`): `deptMap` holds the first department of each listed id
  done so far (`Mapped`), each below its parent if that was listed before it; everyone seen has
  an account with the directory's ids and phone and is a member with a department (`Done`), and what
  is in hand, at each label, is what the row to be stored will make of it (`InHand`).
  Two departments or people of one listing do not get in each other's way, which is where the
  distinct ids and the one phone are needed. Anything another request does clears `alone`,
  so a sync need only track its own steps.
* `NothingToDo` is what `settled` is worth: every listed department and person is as the
  sync would leave it (`AllDone`), and every request in flight is a sync that has found
  nothing to store yet (`Calm`). Its steps then store nothing, which is `ResyncIsIdle`, and
  keep it calm. `SyncMirrors` follows from `AllDone`.

## Login and first setup

### Modules

* `Login` models `WebAuthnService` and `PasswordService` up to the login session,
  where `Tokens` goes on. A ceremony is a challenge in Redis under a session id.
  What an authenticator answers is any passkey with any counter.

  | code | actions |
  |---|---|
  | `BeginRegistration`, `FinishRegistration` | `BeginRegistration`, `RegistrationChallenge`; `FinishRegistration`, `RegistrationVerify`, `CreateCredential` |
  | `BeginLogin`, `BeginDiscoverableLogin` | `BeginLogin`, `LoginOffer`; `BeginDiscoverableLogin` |
  | `FinishLogin` | `FinishLogin`, `LoginValidate`, `SaveCount`, `StoreLogin` |
  | the deferred deletion of the challenge, which may fail | `DeleteCeremony` |
  | `PasswordService.Login` | `PasswordLogin`, `StoreLogin` |
  | an answer that is refused, a request that stops | `Refused`, `Stopped` |

* `FirstSetup` adds `OOBEHandler`: the two counts of `NeedOOBE` (`Setup`,
  `SetupGuard`), the statements of `cleanupOrphanedOOBE` (`CleanBonds`,
  `CleanUsers`, `CleanOrgs`), each of which may fail unheard, and the
  transaction (`SetupCreate`). The errors of the counts are dropped too, and a count that
  failed reads as zero, so the guard lets a setup through where somebody can log in
  already. `Age` is the passing of thirty minutes, after which
  the cleaning up no longer takes a leftover for its own.

### What the run shows

`login` (2 goroutines, 2 passkeys, 2 ceremonies, 2 logins; 3 017 006 states), from an
empty database, from one that a failed attempt of an older version has left behind, and from
one with two accounts that have a passkey each:

* `SessionsEarned`: a login is of the passkey's owner, whoever the ceremony was begun for;
* `OneLoginPerCeremony`, unless two requests answer the challenge at a time or it could not be
  deleted: the challenge is deleted at the end of the answer, not at its start;
* `CounterGrows`: the stored counter never falls, unless another request overlaps the
  login (the row is read, verified and saved in three steps);
* `FreshStart`: a setup that nothing disturbs, and none of whose counts and deletions fails, happens
  only where nobody could log in, and what is new and not its own is gone (a failed
  count is a second founder: see the divergences);
* `InitializedForGood`: once somebody can log in that stays so, and a cleaning up that
  began before spares them, their passkey and their memberships. This one holds with
  every overlap, every failing deletion and every failing count.

Ceremonies interact only through passkeys and accounts, and two requests at a
time show every overlap of two; two of each let an answer meet another's ceremony.
`LoginProofs` shows all five, and the type invariant, for any number of requests,
passkeys and accounts.

## Sharing and data

### Modules

* `Sharing` models organizations, distributions and application administrators:
  `CreateOrg`, `UpdateOrg` and `UpdateOrgSave` (a saved row that was deleted comes
  back), `DeleteOrg` with what the foreign keys delete (the organization's own applications first of
  all, `init.sql:211`), `DistributeApp` and
  `CreateDistribution`, `UndistributeApp`, `UndistributeList`, `UndistributeNext`
  (the distribution first, then its administrators are listed, then deleted one
  by one), `SetAppAdmin`, `SetAdminMember`, `CreateAdmin`, `RemoveAppAdmin`. Around them
  an application is deleted and members join and leave (`Around`).
* `AppData` adds `DataService`: an application's table is one in the database for all
  the organizations that have the application, and `data_tables` describes it for each.
  `CreateTable`, `CreateDescription`, `CreateUndo`; `DropTable`,
  `DropDescription`; `Insert`, `Update`, `Delete`, `AddColumn`, each after
  `GetTableMetadata` (by tool) or `Authorize` (by route); `ExecRaw`.

The repository has two schemas of distributions and administrators: `init.sql` gives both tables
foreign keys, and `migrations/002_app_distribution.sql` makes them without any. `keyed` says which
one the database has, and every run and theorem is about both; without keys the
rows of a deleted application or organization stay (`Cascades`).

PostgreSQL keeps 63 bytes of a name, and a table's is the application's id (36), an underscore and what
the client asked for, so that two tables whose names share 26 characters are one in the
database. `Cut` says what is kept of a name, `Physical` is the table that results, and
`stored` has only those; `described` has the full names.

`validateRawSQL` looks at what follows the first FROM, INTO, UPDATE and JOIN. `ExecRaw` therefore
may make, alter or drop any table of `AppData` (`Defines`), and write any rows of any
organization (`Manipulates`). The platform's own tables, which such a
statement can reach as well, are not modelled beside it.

`untidy` and `marred` are histories: the pairs of application and organization for which an
overlap or a failure is on record, and the tables of which a creation or removal overlapped,
failed or found the table there already, or that raw SQL has defined.

### What the run shows

`sharing` (2 goroutines, 2 requests, 1 application, 3 organizations, 2 tables of one name in the database, with and without foreign keys; 1 183 561 states):

* `TypeOK`, in which the references to applications and organizations are claimed only of
  a database with foreign keys;

* `AdminsWhereDistributed`: an administrator's application is among the organization's
  (`ListApps`), but while a withdrawal is under way, or where an overlap or failure is on record;
* `TablesDescribed`: a table is described if and only if it is there, and has the columns
  that are described, with the like exceptions;
* `RowsAreTheirs`: a row comes, changes and goes only by a request for the
  organization whose row it is, whichever keys the request names, but for
  an application's own SQL.

Two requests are enough: the states it starts from already hold distributions,
administrators and tables with the rows of two organizations, every race is one of
two requests, and each mutant needs at most two. `SharingProofs` shows all four
for any number of requests, applications, organizations, tables and rows.

## The proofs at a glance

All theorems hold for any sets (of goroutines, users, organizations, applications,
…) and any bounds. Those about the workflow engine and the applications are
explained in their sections.

| module | theorem | property |
|---|---|---|
| `WorkflowProofs` | `InductiveInvariant`, `TypeCorrect`, `RowsAreCoherent`, `TasksAreIssued`, `GotosDoResolve`, `DecisionsDoStick` | `TypeOK`, `RowsCoherent`, `TasksIssued`, `GotosResolve`, `DecisionsStick` |
| | `HumanIsInTheLoop`, `OneTaskIsOpen`, `CallsSeemAtomic` | `HumanInTheLoop`, `OneOpenTask`, `CallsAreAtomic` |
| `AppProofs` | `AppInductive`, `AppTypes`, `RowsDoPoint`, `PackagesAreStored`, `OutcomesDoStand` | `TypeOK`, `RowsPoint`, `PackagesStored`, `OutcomesStand` |
| | `DockerDoesAgree`, `HistoryToldTrue`, `StatusDoesLive` | `DockerAgrees`, `HistoryIsTrue`, `StatusLives` |
| `TokenProofs` | `TypeCorrect`, `TokensAreGranted`, `GrantsDoEnd` | `TypeOK`, `GrantsFromBonds`, `GrantsEnd` |
| `BrowserProofs` | `OneGrantLives`, `StoredTokenLives`, `StaysSignedIn` | `OneLiveGrant`, `StoredTokenIsLive`, `SignedInStays` |
| `MemberProofs` | `MembersInductive`, `MemberTypes`, `AnAdminStays`, `TheRestIsKept`, `SamePersonAlways` | `TypeOK`, `LastAdminStays`, `SavesKeepTheRest`, `SamePersonSameAccount` |
| `DirectoryProofs` | `TreeAlwaysShowsAll`, `SyncAlwaysMirrors`, `ResyncIsAlwaysIdle` | `TreeShowsAll`, `SyncMirrors`, `ResyncIsIdle` |
| `LoginProofs` | `LoginTypes`, `SessionsAreEarned`, `StaysInitialized` | `TypeOK`, `SessionsEarned`, `InitializedForGood` |
| | `OneLoginEach`, `CountersGrow`, `SetupsStartFresh` | `OneLoginPerCeremony`, `CounterGrows`, `FreshStart` |
| `SharingProofs` | `SharingTypes`, `AdminsFollowDistributions`, `TablesAreDescribed`, `RowsStayTheirs` | `TypeOK`, `AdminsWhereDistributed`, `TablesDescribed`, `RowsAreTheirs` |

`TokenProofs` assumes `ProviderIsOrg`, `Lifetimes` and, for `GrantsEnd`,
`LoginsBound` (the bound is a number). `GrantsFromBonds` is not
inductive: a token is issued from what a goroutine holds, and a goroutine's
organization comes from what the session offered. Two parts are added: `Offers`
(whatever a session offers was a membership then, so it is in the history `joined`)
and `InFlight` (what a goroutine is about to issue is already a grant, and if it
holds the provider's role, its user has been a member of the provider). The table of
sessions only grows, and a session's user and offers never change (`SameLogins`), so
`FromLogin` is stable. No assumption is made on overlaps, failures or expiry.
`GrantsDoEnd` is the refinement of `GrantLife`: a step that stores neither a session nor a
token can only end logins (nothing that is open after it was not open before it), signing in
opens one, and storing a token counts one more for a login that is open.

`BrowserProofs` supposes that no call fails whose error the code drops (`"dropped"` is
not in `Faults`): with a revocation lost `OneLiveGrant` is false. `SignedInStays`
also needs statements not to fail, since a refresh that the server could not store is
answered with an error and signs the user out. Requests and answers may be lost
throughout. The invariant `BInv` says that one call at a time refreshes (`OneDriver`: this is
`isRefreshing`), that two calls exchange one session only if it is in `twice` (`OwnSessions`), and that
the token a call has just been issued is nobody else's yet (`OwnTokens`); so the goroutine at work
knows what is left of its login (`Driving`: the presented token is alive until it is revoked, then
nothing of its login is, until the new one is stored; `LoggingIn`), however many logins and logouts lie
between; that the token in localStorage is alive while nobody refreshes (`StorageOK`); and that
a login session still there has brought no token yet, unless its exchange is about to
delete it (`Once`).

`MemberProofs` assumes `IdsKnown`, `PasswordsKnown` and `PhonesKnown`, which say what the
constants are. `IInv` is about tables and copies: every bond and every
copy belongs to an account, a username has a password. For the promises
to undisturbed requests `Undisturbed` says what such a request knows (`Knows`: the
count it took is the table's, the copy it saves is the row), as in `SharingProofs`.
`SamePersonAlways` needs `Known`: after a login the account it led to is the only one that
the person's ids find, and no copy in flight, however stale, would write another's ids over them
(`Spares`). That part holds with every overlap.

`SharingProofs` assumes `ProviderIsOrg`, `FewOrgs` (finitely many organizations)
and `RequestsBound`. It needs no assumption on overlaps either, because `untidy` records
them. `AdminsWhereDistributed` is strengthened by `TablesOK` (with the foreign keys where there are any),
`LocalsOK` (types of what goroutines hold) and `Undisturbed`: what a request that
has been `alone` may rely on, namely that nothing else is in flight, that the
distribution which an appointment found is still there, and that the list a
withdrawal made still names every administrator left. Every request that begins
clears the `alone` of all others, so one of two overlapping requests always knows, and puts
the pair on record. For the tables `DataInv` adds what they are made of (`StoreOK`:
the rows of a table have their own ids), what an undisturbed request knows of its table
(`Careful`: whether it is there and described, at each label), and that a table nobody is at
work on, and nothing is on record of, agrees with its description (`Agreed`).
`RowsAreTheirs` then is about single steps: the statement each makes names the
organization.

`LoginProofs` assumes `CountsAssumption` only, that authenticators count with
natural numbers. `SessionsEarned` is not inductive: whose login a goroutine will
store is decided two calls before, when the answer is validated, and by then the
challenge may be deleted and a first setup may be cleaning up. The strengthening
`Sound` says what a goroutine holds at each label (from `validate` on, the user of
its ceremony; from `count` on, a live passkey of that user), and `Grows` what no step
takes back: challenges are only marked, never removed from the history, and a passkey
keeps its owner and its key and stays live. `Grows` turns every step of somebody else
into one lemma (`LocalsStay`). That the cleaning up obeys it is the interesting part:
an orphan has no live passkey at the moment of each statement, whatever was true when
the setup looked (`OrphansGo`). `Spares`, proved with it action by action, is
`InitializedForGood`. `CounterGrows` and `FreshStart` are promises to undisturbed
requests (`Undisturbed`: the passkey such a login read is still the row; nobody can
log in while such a setup is under way, and what it has cleaned up is gone).
`OneLoginPerCeremony` rests on `Single`: of a challenge that is not spoilt, one
request at most is at work, and if it has led to a login already, that request is about
to delete it.

Every safety property and every action property of the passing runs is thus a theorem, and
so are the three refinements. Only model-checked: liveness (`RequestsReturn`,
`EveryCallEnds`), which is beyond the prover, and the comparison of the condition
evaluator with the documented operators (`ComparisonsAreDocumented`), which is about strings.

## Not modelled

* **The authorization-code half of the OAuth provider** (`Authorize`, codes,
  clients, PKCE). Its entrance is routed without the middleware that puts the user into the
  context (`cmd/api/main.go`), and answers 401 to every caller; no code is ever stored.
* **Notification delivery.** Nothing constructs the service; the engine's notifier is nil.
* **Rate limiter and audit record.** The limiter's counting is one Redis
  pipeline which fails open, and what it refuses never reaches a tool. No component
  reads the audit log.
* **Router and resource quota, status and logs of containers, prompts and
  resources of the MCP server, file and system tools, lists.** They read a row
  and proxy, parse or display.
* **The object storage client** is pure I/O; what its failures do to the import is in `AppRuntime`.
* **Views of the frontend and the application SDK.** They display, or post a call and
  return its answer.
* **The fall-back without Redis** (in-memory maps for sessions and challenges) and the
  log of syncs, whose errors are dropped and which nothing reads.

## Divergences that no run shows

Met while modelling. Each follows from a single place of the code, so it is
recorded here rather than kept as a run. Paths are below
`src/backend/internal`, unless they say otherwise.

Workflow engine:

* The pending check and the write of a decision are two statements: two
  decisions of one task that overlap are both accepted, and both go on to advance
  the instance (`service/workflow_service.go:220`).
* `resolveRoleAssignees` goes through the bonds without adding a user and returns
  an error for every role, after the step has been stored as the current one: the
  instance waits there without a task (`service/workflow_service.go:381`).
  `docs/specs/06-workflow-engine.md` says that all users with the role get one.
* A condition step that routes to itself, or a cycle of start and condition
  steps, is accepted, and `advance` recurses without end
  (`service/workflow_service.go:304`), where `docs/specs/06-workflow-engine.md:172` has it advance
  until an approval or an end. One definition of the `workflow` run has such a cycle;
  `RequestsReturn` says that it is the only way not to return.
* `StartInstance` looks for a step *named* "start" while the validation finds the
  start step by its type: the documented example, whose start step is called
  "submit", is accepted and cannot be started (`service/workflow_service.go:130`).
* Only a provider and the creator may cancel an instance; the tool's description
  says an organization admin may (`mcp/tools/workflow_tools.go:389`).
* The status of an instance is whatever the end step's result says
  (`service/workflow_service.go:316`), not only the documented values. This is why
  the proofs need `ResultAssumption`.
* In a condition, a variable that is not set is taken for its own name: an order is then an
  error, `==` false and `!=` true (`service/workflow_evaluator.go:89`).

Applications:

* An application deleted during its deployment: the row goes, and the deployment
  starts a container that no row names (`service/application_service.go:165`). The
  deployments of a deleted application go by cascade; the model keeps them, as history.
* `UpdateApp` saves the copy it read: status and container id set by a deployment
  meanwhile are lost, and a row that was deleted comes back
  (`service/application_service.go:148`).
* A deployment after a successful one fails, having replaced the files below the running container
  already: this one is the run `app_redeploy`.
* A container that has gone down by itself, or in a stop or restart that failed half-way, is "running"
  in the table; only `GetAppStatus` asks Docker (`runtime/manager.go:157`, `:192`).
* A deleted organization takes its applications' rows with it in the database
  (`docs/sql/init.sql:211`), but not their containers and networks, which no row names afterwards.
* Nothing but `ImportApp` looks at names, and it does so in a statement of its own:
  two applications of an organization may get one name
  (`service/app_import_service.go:54`).
* An application made by `CreateApp`, or whose import failed at its last statement,
  has no package and can never get one: `UpdateCode` refuses it
  (`service/application_service.go:252`).

Tokens and the page:

* Two tabs share localStorage but not `isRefreshing`: the one that refreshes second
  with the same token is refused and signs both out (`src/frontend/app/src/api/client.ts:62`).
* A logout stops nothing that is under way: a refresh stores its tokens again afterwards, on a page
  that shows nobody, and one that fails signs out whoever has logged in since
  (`src/frontend/app/src/stores/auth.ts:133`). The tokens stay valid on the server.
* A second click on an organization, before the first exchange is answered, may bring a second
  pair of tokens of the same login (`src/frontend/app/src/views/Callback.vue:37`).
* The organizations a session offers are not looked at again: who has left one since may still choose it
  (`oauth/oauth_service.go:247`).
* The page's own `determineRole` calls a member of the provider who acts in another
  organization a tenant; the token says provider.
* A session exchange issues the scopes "openid org.read org.write" whatever the
  caller may need; no token the platform issues has a data scope.
* `docs/contracts/oauth.md` says that there is no login with a password; there is one.

Members, departments, DingTalk:

* Rows saved whole undo a password reset that overlaps the update
  (`service/user_service.go:160`); `SavesKeepTheRest` covers the undisturbed case. An
  update also inserts the bond of a member removed meanwhile.
* The last-admin rule of a removal is checked on a snapshot: two administrators
  removed at once both pass (`service/user_service.go:217`). A demotion has no such rule
  (`service/user_service.go:166`).
* A member created without a phone matches the first account without one, which the
  founder's is: the answer is 201 and nobody is created.
* A synchronization looks for a person by the userid alone, which a login by DingTalk need not
  bring: whoever logs in without one before the first synchronization gets a second account
  from it.
* A deleted department stays in the bonds of its members, which a synchronization does not
  repair: it gives a department only to bonds without one. A department saved by the REST
  handler loses its DingTalk id and manager, so that the next synchronization makes another.
* The comment at `service/dingtalk_sync_service.go:88` says that parents come first;
  nothing sorts the list, and a child that comes before its parent becomes a root.
* An answer of DingTalk that cannot be read counts as an empty directory.
* A department moved below its own descendant vanishes from the tree, with
  everything below it (`service/department_service.go:83`). Its level is not updated by a move.

Login and first setup:

* `NeedOOBE` drops the errors of its two counts, and each reads as zero: a setup whose counts fail runs
  in a system that is in use, and founds a second organization and administrator
  (`handler/oobe.go:29`, `:33`). The comment of `Setup` says "Only available when no user has a
  password or passkey" (`handler/oobe.go:44`).
* A login begun for an account whose authenticator sends a user handle is refused.
* Registration and login ceremonies share a store; the model assumes that a challenge is
  answered for what it was asked.
* Two setups that overlap both pass `NeedOOBE` and found an organization each
  (`handler/oobe.go:83`), and a setup that fails uses up the organization id 1, which the
  code takes for the provider's. The cleaning up also removes accounts that a DingTalk login
  has made in the last thirty minutes.

Sharing and data:

* `docs/sql/migrations/002_app_distribution.sql` makes the tables of distributions and
  administrators without the foreign keys of `init.sql`: in a database that was migrated, a deletion leaves
  them behind.
* Tables of one application whose names share 26 characters are one table in the database
  (`service/data_service.go:37`), and dropping either drops it.
* `validateRawSQL` refuses tables that do not belong to the application, but it looks only at the first one
  after each of four keywords, and at none of a DROP, ALTER or TRUNCATE
  (`service/data_service.go:229`).
* `DistributeApp` is called idempotent in its comment; a second call is an error.
* Administrators left by a withdrawal that stopped half-way are back when the application is
  distributed again; a member who leaves the organization stays its administrator of an application.
* A saved organization that was deleted meanwhile is inserted again, without what the
  foreign keys took.
* A table belongs to the application, its description to an organization: creating a
  table that is there, when its description is refused, drops it for all, and so
  does one organization dropping it. A deleted application or organization leaves tables and
  descriptions (there are no foreign keys). `AddColumn` leaves the description as it was.
* The data tools take the application from the caller's context, where nothing puts it
  yet; the model takes any.
