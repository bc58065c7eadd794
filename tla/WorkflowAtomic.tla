--------------------------- MODULE WorkflowAtomic ---------------------------
(***************************************************************************)
(* What the workflow engine promises its callers: each call takes effect   *)
(* at once.  The state of an instance is what GetInstance returns, its row *)
(* and the history of its tasks; a start or a decision carries the         *)
(* instance through to the next approval or to an end in one step.         *)
(***************************************************************************)
EXTENDS WorkflowMeaning

CONSTANTS Users, OrgOf, Providers, Payloads, Vars

VARIABLES defs,    \* workflow_definitions
          views    \* per instance, [row, tasks]

vars == <<defs, views>>

Define(u, wf) ==
    /\ ValidateDefinition(wf)
    /\ defs' = Append(defs, [org |-> OrgOf[u], wf |-> wf, status |-> "active"])
    /\ UNCHANGED views

Archive(u, d) ==
    /\ defs[d].org = OrgOf[u]
    /\ defs' = [defs EXCEPT ![d].status = "archived"]
    /\ UNCHANGED views

\* The definition may have been archived since the call began.
Start(u, d, v) ==
    /\ defs[d].org = OrgOf[u]
    /\ LET wf  == defs[d].wf
           row == [org |-> OrgOf[u], def |-> d, status |-> "running",
                   step |-> "start", vars |-> v, createdBy |-> u,
                   completed |-> FALSE]
       IN  views' = Append(views, Settle(wf, Len(views) + 1,
                                         [row |-> row, tasks |-> <<>>],
                                         wf["start"].next))
    /\ UNCHANGED defs

\* The assignee of a pending task decides it: a running instance moves, a
\* resolved one only keeps the decision in its history.
Decide(u, i, k, decision) ==
    LET task    == views[i].tasks[k]
        wf      == defs[views[i].row.def].wf
        decided == [views[i] EXCEPT !.tasks[k].status = decision]
    IN  /\ task.status = "pending"
        /\ task.assignee = u
        /\ task.org = OrgOf[u]
        /\ views' = [views EXCEPT ![i] =
               IF views[i].row.status = "running"
               THEN Settle(wf, i, decided, Branch(wf[task.step], decision))
               ELSE decided]
        /\ UNCHANGED defs

Cancel(u, i) ==
    LET row == views[i].row
    IN  /\ row.status = "running"
        /\ row.org = OrgOf[u]
        /\ u \in Providers \/ row.createdBy = u
        /\ views' = [views EXCEPT ![i].row.status = "cancelled",
                                  ![i].row.completed = TRUE]
        /\ UNCHANGED defs

Init == defs = <<>> /\ views = <<>>

Next ==
    \E u \in Users :
       \/ \E wf \in Payloads : Define(u, wf)
       \/ \E d \in DOMAIN defs : Archive(u, d)
       \/ \E d \in DOMAIN defs, v \in Vars : Start(u, d, v)
       \/ \E i \in DOMAIN views :
             \/ Cancel(u, i)
             \/ \E k \in DOMAIN views[i].tasks,
                   decision \in {"approved", "rejected"} :
                   Decide(u, i, k, decision)

Spec == Init /\ [][Next]_vars
=============================================================================
