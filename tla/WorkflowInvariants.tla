------------------------- MODULE WorkflowInvariants -------------------------
(***************************************************************************)
(* What the three workflow tables satisfy whatever the interleaving of the *)
(* goroutines and whatever database statements fail in between.           *)
(***************************************************************************)
EXTENDS Workflow

\* The results docs/specs/06-workflow-engine.md gives an end step.  (The
\* validation accepts any non-empty string, and such a result is then stored.)
ASSUME ResultAssumption ==
    \A wf \in Payloads : \A n \in DOMAIN wf :
       wf[n].type = "end" => wf[n].result \in Statuses \ {"running"}

\* A user assignee is a user, conditions are a list, tokens name an
\* organization.
ASSUME PayloadAssumption ==
    \A wf \in Payloads :
       \A n \in DOMAIN wf :
          /\ wf[n].assignee.kind = "user" => wf[n].assignee.value \in Users
          /\ DOMAIN wf[n].conditions = 1..Len(wf[n].conditions)
          /\ Len(wf[n].conditions) \in Nat

ASSUME OrgAssumption == OrgOf \in [Users -> Orgs]

-----------------------------------------------------------------------------
Labels == {"idle", "create", "advance", "assign", "saveTask", "loadInstance",
           "saveCancel"}

Local == [pc: Labels, id: Nat, row: InstanceRow \cup {NoRow}, tid: Nat,
          task: TaskRow \cup {NoRow}, goto: Names]

\* Type invariant: the shape of the rows and of the goroutines' copies.
TypeOK ==
    /\ defs \in Seq(DefRow)
    /\ instances \in Seq(InstanceRow)
    /\ tasks \in Seq(TaskRow)
    /\ proc \in [Procs -> Local]

\* A row of workflow_instances tells one story over the definitions D:
\* completed_at is set exactly when it is not running, the row stands on an end
\* step exactly as that step's result says, and it is approved or rejected only
\* on an end step.  (StartInstance puts a new row on the step named "start"
\* whatever its type.)
Coherent(D, row) ==
    /\ row.def \in DOMAIN D
    /\ row.org = D[row.def].org
    /\ row.step \in DOMAIN D[row.def].wf
    /\ row.completed <=> row.status # "running"
    /\ LET step == D[row.def].wf[row.step]
       IN  /\ step.type = "end" => row.status = step.result
                                   \/ row.step = "start"
           /\ row.status \in {"approved", "rejected"} =>
                 step.type = "end" /\ row.status = step.result

\* Every instance row is coherent, under every interleaving of approvals,
\* cancellations and failures: rows are written whole from a copy that may be
\* stale (advance, CancelInstance), so the columns of a lost update go
\* together.
RowsCoherent == \A i \in DOMAIN instances : Coherent(defs, instances[i])

\* A task was issued by an approval step of its instance's definition, to the
\* user that step names, in the instance's organization.
Issued(D, I, task) ==
    /\ task.inst \in DOMAIN I
    /\ task.org = I[task.inst].org
    /\ LET wf == D[I[task.inst].def].wf
       IN  /\ task.step \in DOMAIN wf
           /\ wf[task.step].type = "approval"
           /\ wf[task.step].assignee.kind = "user"
           /\ task.assignee = wf[task.step].assignee.value

\* Nobody is asked for a decision the definition did not ask of them, however
\* stale the goroutine that creates the task is (createApprovalTasks).
TasksIssued == \A t \in DOMAIN tasks : Issued(defs, instances, tasks[t])

\* advance is only ever sent to a step that exists, or nowhere: by a condition
\* that does not route or by a step named "start" that is not of type start.
\* Every misspelt goto was refused when the definition was submitted
\* (validateDefinition).
Resolves(D, local) ==
    \/ local.goto \in DOMAIN D[local.row.def].wf
    \/ local.goto = NoGoto
    \/ local.row.step = "start"

GotosResolve ==
    \A p \in Procs : At(p, "advance") => Resolves(defs, proc[p])

SameQuestion(s, t) == /\ s.org = t.org
                      /\ s.inst = t.inst
                      /\ s.step = t.step
                      /\ s.assignee = t.assignee

\* A task once decided is never pending again, and no task changes hands,
\* instance or step: a goroutine's copy is always of the row it writes back
\* and always decided (actOnTask).
DecisionsStick ==
    [][\A t \in DOMAIN tasks :
          /\ t \in DOMAIN tasks'
          /\ SameQuestion(tasks'[t], tasks[t])
          /\ tasks[t].status # "pending" => tasks'[t].status # "pending"]_vars

\* An instance leaves an approval step, other than by being cancelled, only
\* after somebody has decided a task of that instance: the engine never walks
\* through an approval by itself (advance stops at "approval").
Undecided(i) == \A t \in DOMAIN tasks :
                   tasks[t].inst = i => tasks[t].status = "pending"

HumanInTheLoop ==
    [][\A i \in DOMAIN instances :
          /\ WfOf(instances[i])[instances[i].step].type = "approval"
          /\ instances[i].step # "start"
          /\ Undecided(i)
          => \/ instances'[i].step = instances[i].step
             \/ instances'[i].status = "cancelled"]_vars

\* The step that a start or condition step sends an instance with variables v
\* on to.
LeadsTo(wf, v, n) ==
    IF wf[n].type = "start" THEN wf[n].next ELSE EvaluateConditions(wf[n], v)

\* The automatic steps before p lead in a circle: the validation accepts such a
\* definition, and advance then recurses until its context is cancelled.
Circling(p) ==
    LET wf == WfOf(proc[p].row) IN
    /\ At(p, "advance")
    /\ \E steps \in SUBSET DOMAIN wf :
          /\ proc[p].goto \in steps
          /\ \A n \in steps :
                /\ wf[n].type \in {"start", "condition"}
                /\ LeadsTo(wf, proc[p].row.vars, n) \in steps

\* Liveness: a request returns, with an answer or an error, when its database
\* calls do, unless the definition sends it round a circle of automatic steps:
\* that is the only way advance does not come to an approval, an end or an error.
RequestsReturn ==
    \A p \in Procs : ~At(p, "idle") ~> (At(p, "idle") \/ Circling(p))
=============================================================================
