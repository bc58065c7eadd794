------------------------------ MODULE Workflow ------------------------------
(***************************************************************************)
(* The workflow engine: WorkflowService and its three tables.              *)
(*                                                                         *)
(* Every MCP call runs in a goroutine of its own and touches the database  *)
(* one statement at a time, with no transaction and no lock.  A process p  *)
(* of Procs is one such goroutine: an action of p is one database          *)
(* statement together with the code up to the next one, and proc[p] holds  *)
(* what the goroutine keeps meanwhile: the copies of the instance and task *)
(* rows it read, which Save later writes back whole.                       *)
(*                                                                         *)
(* A table is the sequence of its rows, indexed by the autoincrement id.   *)
(***************************************************************************)
EXTENDS WorkflowDefinition, FiniteSets

CONSTANTS
    Procs,         \* goroutines that may be inside the service at once
    Orgs, Users,
    OrgOf,         \* the organization of a user's token: RequireOrgAccess
                   \* lets a call name no other
    Providers,     \* users whose token has role "provider"
    Payloads,      \* decoded definitions that clients submit
    Vars,          \* assignments of the workflow variables
    Faults,        \* whether a database statement may fail or a client hang up
    NoRow,         \* "no local copy"
    MaxDefs, MaxInstances, MaxTasks      \* bounds on the tables

VARIABLES
    defs,          \* workflow_definitions
    instances,     \* workflow_instances
    tasks,         \* workflow_tasks
    proc           \* what each goroutine is doing

vars == <<defs, instances, tasks, proc>>

DefRow == [org: Orgs, wf: Payloads, status: {"active", "archived"}]

Statuses == {"running", "approved", "rejected", "cancelled"}

\* Where a goroutine may be sent: to a step, or by a next that names none.
Names == {NoGoto} \cup UNION {DOMAIN wf \cup {wf[n].next : n \in DOMAIN wf} :
                                wf \in Payloads}

\* completed stands for completed_at being set.
InstanceRow == [org: Orgs, def: Nat, status: Statuses, step: Names, vars: Vars,
                createdBy: Users, completed: BOOLEAN]

TaskRow == [org: Orgs, inst: Nat, step: Names, assignee: Users,
            status: {"pending", "approved", "rejected"}]

Decisions == {"approved", "rejected"}

\* What a goroutine holds: nothing; the instance row it writes to id and the
\* step it goes to; or the task row it writes to tid.
Idle == [pc |-> "idle", id |-> 0, row |-> NoRow, tid |-> 0, task |-> NoRow,
         goto |-> NoGoto]

OnInstance(label, id, row, goto) ==
    [pc |-> label, id |-> id, row |-> row, tid |-> 0, task |-> NoRow,
     goto |-> goto]

OnTask(label, tid, task) ==
    [pc |-> label, id |-> 0, row |-> NoRow, tid |-> tid, task |-> task,
     goto |-> NoGoto]

Becomes(p, local) == proc' = [proc EXCEPT ![p] = local]
Return(p) == Becomes(p, Idle)
At(p, label) == proc[p].pc = label

Busy == {p \in Procs : ~At(p, "idle")}
Creating == {p \in Procs : At(p, "create")}

\* Bound: a request is admitted only if the task table has room for the one
\* task it and every request in flight may create.
Room == Len(tasks) + Cardinality(Busy) < MaxTasks

WfOf(row) == defs[row.def].wf

(***************************************************************************)
(* Definitions.                                                            *)
(***************************************************************************)
Define(u, wf) ==
    /\ Len(defs) < MaxDefs
    /\ ValidateDefinition(wf)
    /\ defs' = Append(defs, [org |-> OrgOf[u], wf |-> wf, status |-> "active"])
    /\ UNCHANGED <<instances, tasks, proc>>

\* One UPDATE, whatever the status was.
Archive(u, d) ==
    /\ d \in DOMAIN defs
    /\ defs[d].org = OrgOf[u]
    /\ defs' = [defs EXCEPT ![d].status = "archived"]
    /\ UNCHANGED <<instances, tasks, proc>>

(***************************************************************************)
(* StartInstance: load the definition, create the row, advance.  The start *)
(* step is looked up by the name "start", not by its type.                 *)
(***************************************************************************)
StartStep(wf) == "start"

StartLoad(p, u, d, v) ==
    /\ At(p, "idle")
    /\ Room
    /\ Len(instances) + Cardinality(Creating) < MaxInstances
    /\ d \in DOMAIN defs
    /\ defs[d].org = OrgOf[u]
    /\ defs[d].status = "active"
    /\ StartStep(defs[d].wf) \in DOMAIN defs[d].wf
    /\ LET n == StartStep(defs[d].wf)
       IN  Becomes(p, OnInstance("create", 0,
               [org |-> OrgOf[u], def |-> d, status |-> "running",
                step |-> n, vars |-> v, createdBy |-> u, completed |-> FALSE],
               defs[d].wf[n].next))
    /\ UNCHANGED <<defs, instances, tasks>>

StartCreate(p) ==
    /\ At(p, "create")
    /\ instances' = Append(instances, proc[p].row)
    /\ Becomes(p, OnInstance("advance", Len(instances) + 1, proc[p].row,
                             proc[p].goto))
    /\ UNCHANGED <<defs, tasks>>

(***************************************************************************)
(* advance: one step of the recursion an action.  Target is the step it is *)
(* called with; Save writes the goroutine's whole copy of the row.         *)
(***************************************************************************)
Target(p) == WfOf(proc[p].row)[proc[p].goto]

Reaches(p, type) ==
    /\ At(p, "advance")
    /\ proc[p].goto \in DOMAIN WfOf(proc[p].row)
    /\ Target(p).type = type

Save(p, row) == instances' = [instances EXCEPT ![proc[p].id] = row]

Entered(p) == [proc[p].row EXCEPT !.step = proc[p].goto]

\* The row of an instance that ends with this status.
Closed(row, status) == [row EXCEPT !.status = status, !.completed = TRUE]

\* Mutant: the recursion stops at a start step.
AdvanceStartStops(p) ==
    /\ Reaches(p, "start")
    /\ Save(p, Entered(p))
    /\ Return(p)
    /\ UNCHANGED <<defs, tasks>>

AdvanceStart(p) ==
    /\ Reaches(p, "start")
    /\ Save(p, Entered(p))
    /\ Becomes(p, OnInstance("advance", proc[p].id, Entered(p), Target(p).next))
    /\ UNCHANGED <<defs, tasks>>

\* Mutant: an instance no branch is for stays at the condition.
AdvanceConditionStays(p) ==
    /\ Reaches(p, "condition")
    /\ Save(p, Entered(p))
    /\ LET n == EvaluateConditions(Target(p), proc[p].row.vars)
       IN  Becomes(p, OnInstance("advance", proc[p].id, Entered(p),
                                 IF n = NoGoto THEN proc[p].goto ELSE n))
    /\ UNCHANGED <<defs, tasks>>

AdvanceCondition(p) ==
    /\ Reaches(p, "condition")
    /\ Save(p, Entered(p))
    /\ Becomes(p, OnInstance("advance", proc[p].id, Entered(p),
                             EvaluateConditions(Target(p), proc[p].row.vars)))
    /\ UNCHANGED <<defs, tasks>>

\* Mutant: the creator's own approval is taken as given.
AdvanceApprovalOfCreator(p) ==
    /\ Reaches(p, "approval")
    /\ Save(p, Entered(p))
    /\ Becomes(p,
           IF Target(p).assignee = [kind |-> "user", value |-> proc[p].row.createdBy]
           THEN OnInstance("advance", proc[p].id, Entered(p), Target(p).on_approve)
           ELSE OnInstance("assign", proc[p].id, Entered(p), proc[p].goto))
    /\ UNCHANGED <<defs, tasks>>

\* The instance waits at an approval step; its task is still to be created.
AdvanceApproval(p) ==
    /\ Reaches(p, "approval")
    /\ Save(p, Entered(p))
    /\ Becomes(p, OnInstance("assign", proc[p].id, Entered(p), proc[p].goto))
    /\ UNCHANGED <<defs, tasks>>

\* Mutant: the result of the end step is not looked at.
FinishedAsCompleted(p) == Closed(Entered(p), "completed")

Finished(p) == Closed(Entered(p), Target(p).result)

AdvanceEnd(p) ==
    /\ Reaches(p, "end")
    /\ Save(p, Finished(p))
    /\ Return(p)
    /\ UNCHANGED <<defs, tasks>>

\* "step not found", and the conditions that route nowhere.
AdvanceError(p) ==
    /\ At(p, "advance")
    /\ proc[p].goto \notin DOMAIN WfOf(proc[p].row)
    /\ Return(p)
    /\ UNCHANGED <<defs, instances, tasks>>

(***************************************************************************)
(* createApprovalTasks: a user gets a task.  A role is resolved to the     *)
(* empty list by resolveRoleAssignees whatever the organization's members  *)
(* are, and that is an error; so is an assignee that does not parse.       *)
(***************************************************************************)
Assignee(p) == Target(p).assignee

\* Mutant: the step is read back from the table.
CreateTaskAtStoredStep(p) ==
    /\ At(p, "assign")
    /\ Assignee(p).kind = "user"
    /\ tasks' = Append(tasks, [org |-> proc[p].row.org, inst |-> proc[p].id,
                               step |-> instances[proc[p].id].step,
                               assignee |-> Assignee(p).value,
                               status |-> "pending"])
    /\ Return(p)
    /\ UNCHANGED <<defs, instances>>

\* Mutant: a step entered again reopens its old task.
CreateTaskReopens(p) ==
    /\ At(p, "assign")
    /\ Assignee(p).kind = "user"
    /\ LET old == {t \in DOMAIN tasks : tasks[t].inst = proc[p].id
                                         /\ tasks[t].step = proc[p].goto}
       IN  tasks' = IF old = {}
                    THEN Append(tasks, [org |-> proc[p].row.org,
                                        inst |-> proc[p].id,
                                        step |-> proc[p].goto,
                                        assignee |-> Assignee(p).value,
                                        status |-> "pending"])
                    ELSE [tasks EXCEPT ![CHOOSE t \in old : TRUE].status = "pending"]
    /\ Return(p)
    /\ UNCHANGED <<defs, instances>>

CreateTask(p) ==
    /\ At(p, "assign")
    /\ Assignee(p).kind = "user"
    /\ tasks' = Append(tasks, [org |-> proc[p].row.org, inst |-> proc[p].id,
                               step |-> proc[p].goto,
                               assignee |-> Assignee(p).value,
                               status |-> "pending"])
    /\ Return(p)
    /\ UNCHANGED <<defs, instances>>

AssignError(p) ==
    /\ At(p, "assign")
    /\ Assignee(p).kind # "user"
    /\ Return(p)
    /\ UNCHANGED <<defs, instances, tasks>>

(***************************************************************************)
(* actOnTask: load and check the task, save the decision, load the         *)
(* instance, route it.  The definition is loaded in between; its content   *)
(* never changes, so that read is part of the routing action.              *)
(***************************************************************************)
\* Mutant: a task that is already decided may be decided again.
ActLoadAnyStatus(p, u, t, decision) ==
    /\ At(p, "idle")
    /\ Room
    /\ t \in DOMAIN tasks
    /\ tasks[t].org = OrgOf[u]
    /\ tasks[t].assignee = u
    /\ Becomes(p, OnTask("saveTask", t, [tasks[t] EXCEPT !.status = decision]))
    /\ UNCHANGED <<defs, instances, tasks>>

ActLoad(p, u, t, decision) ==
    /\ At(p, "idle")
    /\ Room
    /\ t \in DOMAIN tasks
    /\ tasks[t].org = OrgOf[u]
    /\ tasks[t].status = "pending"
    /\ tasks[t].assignee = u
    /\ Becomes(p, OnTask("saveTask", t, [tasks[t] EXCEPT !.status = decision]))
    /\ UNCHANGED <<defs, instances, tasks>>

ActSave(p) ==
    /\ At(p, "saveTask")
    /\ tasks' = [tasks EXCEPT ![proc[p].tid] = proc[p].task]
    /\ Becomes(p, OnTask("loadInstance", proc[p].tid, proc[p].task))
    /\ UNCHANGED <<defs, instances>>

\* The instance row of the task, and the step of the task (which need not be
\* the step the instance is at).
Loaded(p) == instances[proc[p].task.inst]
NextStep(p) == Branch(WfOf(Loaded(p))[proc[p].task.step], proc[p].task.status)

ActRoute(p) ==
    /\ At(p, "loadInstance")
    /\ Loaded(p).status = "running"
    /\ NextStep(p) # NoGoto
    /\ Becomes(p, OnInstance("advance", proc[p].task.inst, Loaded(p),
                             NextStep(p)))
    /\ UNCHANGED <<defs, instances, tasks>>

\* The instance is already resolved, or the step has no such branch: the
\* decision stays recorded and the instance is left where it is.
ActStop(p) ==
    /\ At(p, "loadInstance")
    /\ Loaded(p).status # "running" \/ NextStep(p) = NoGoto
    /\ Return(p)
    /\ UNCHANGED <<defs, instances, tasks>>

(***************************************************************************)
(* CancelInstance.  Tasks of the instance stay as they are.                *)
(***************************************************************************)
MayCancel(u, row) == u \in Providers \/ row.createdBy = u

Cancelled(row) == Closed(row, "cancelled")

CancelLoad(p, u, i) ==
    /\ At(p, "idle")
    /\ i \in DOMAIN instances
    /\ instances[i].org = OrgOf[u]
    /\ instances[i].status = "running"
    /\ MayCancel(u, instances[i])
    /\ Becomes(p, OnInstance("saveCancel", i, Cancelled(instances[i]), NoGoto))
    /\ UNCHANGED <<defs, instances, tasks>>

\* Mutant: only the status and completed_at columns are updated.
CancelSaveColumns(p) ==
    /\ At(p, "saveCancel")
    /\ Save(p, Cancelled(instances[proc[p].id]))
    /\ Return(p)
    /\ UNCHANGED <<defs, tasks>>

CancelSave(p) ==
    /\ At(p, "saveCancel")
    /\ Save(p, proc[p].row)
    /\ Return(p)
    /\ UNCHANGED <<defs, tasks>>

(***************************************************************************)
(* A database statement returns an error, the request's context is         *)
(* cancelled, or the server stops: the goroutine returns, and what it has  *)
(* written so far stays written.                                           *)
(***************************************************************************)
Fail(p) ==
    /\ Faults
    /\ ~At(p, "idle")
    /\ Return(p)
    /\ UNCHANGED <<defs, instances, tasks>>

-----------------------------------------------------------------------------
Init ==
    /\ defs = <<>>
    /\ instances = <<>>
    /\ tasks = <<>>
    /\ proc = [p \in Procs |-> Idle]

\* A client's call reaches the service.
Request(p) ==
    \E u \in Users :
       \/ \E d \in DOMAIN defs, v \in Vars : StartLoad(p, u, d, v)
       \/ \E t \in DOMAIN tasks, decision \in Decisions :
             ActLoad(p, u, t, decision)
       \/ \E i \in DOMAIN instances : CancelLoad(p, u, i)

\* The goroutine of p goes on.
Continue(p) ==
    \/ StartCreate(p)
    \/ AdvanceStart(p) \/ AdvanceCondition(p) \/ AdvanceApproval(p)
    \/ AdvanceEnd(p) \/ AdvanceError(p)
    \/ CreateTask(p) \/ AssignError(p)
    \/ ActSave(p) \/ ActRoute(p) \/ ActStop(p)
    \/ CancelSave(p)

Catalogue ==
    \E u \in Users :
       \/ \E wf \in Payloads : Define(u, wf)
       \/ \E d \in DOMAIN defs : Archive(u, d)

Next ==
    \/ Catalogue
    \/ \E p \in Procs : Request(p) \/ Continue(p) \/ Fail(p)

Spec == Init /\ [][Next]_vars

\* A goroutine that can run is eventually scheduled and its database calls
\* return; clients need not call again.
FairSpec == Spec /\ \A p \in Procs : WF_vars(Continue(p))
=============================================================================
