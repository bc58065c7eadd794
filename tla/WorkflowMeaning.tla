-------------------------- MODULE WorkflowMeaning --------------------------
(***************************************************************************)
(* What a definition means for an instance: where it comes to rest when it *)
(* is sent to a step, and what it asks of whom there.  The engine works    *)
(* this out one database statement at a time (advance); the abstract       *)
(* specification uses it whole.  For definitions without a cycle of start  *)
(* and condition steps, whose conditions are total.                        *)
(***************************************************************************)
EXTENDS WorkflowDefinition

\* The step at which an instance with variables v comes to rest when it is
\* sent to step g.
Rest(wf, v, g) ==
    LET rest[n \in DOMAIN wf] ==
          CASE wf[n].type = "start"     -> rest[wf[n].next]
            [] wf[n].type = "condition" -> rest[EvaluateConditions(wf[n], v)]
            [] OTHER                    -> n
    IN  rest[g]

Ask(row, i, n, who) == [org |-> row.org, inst |-> i, step |-> n,
                        assignee |-> who, status |-> "pending"]

\* The view of instance i once the step g has been followed to its rest.
Settle(wf, i, view, g) ==
    LET n   == Rest(wf, view.row.vars, g)
        row == [view.row EXCEPT !.step = n]
    IN  IF wf[n].type = "end"
        THEN [view EXCEPT !.row = [row EXCEPT !.status = wf[n].result,
                                              !.completed = TRUE]]
        ELSE [row |-> row,
              tasks |-> Append(view.tasks,
                               Ask(row, i, n, wf[n].assignee.value))]
=============================================================================
