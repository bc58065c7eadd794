-------------------------- MODULE WorkflowIsolated --------------------------
(***************************************************************************)
(* The engine when requests overlap freely except on one instance: the     *)
(* exact condition under which it keeps the promise of WorkflowAtomic.     *)
(* Nothing in the code enforces it; the run of WorkflowDocs shows what     *)
(* happens without it.                                                     *)
(***************************************************************************)
EXTENDS WorkflowInvariants, WorkflowMeaning

\* The instance a goroutine is working on (0: none yet).
InstanceOf(p) ==
    IF proc[p].pc \in {"saveTask", "loadInstance"} THEN proc[p].task.inst
                                                   ELSE proc[p].id

Isolated == \A p, q \in Procs :
               InstanceOf(p) = InstanceOf(q) => p = q \/ InstanceOf(p) = 0

IsolatedSpec == Init /\ [][Next /\ Isolated']_vars

-----------------------------------------------------------------------------
(***************************************************************************)
(* The refinement mapping.  A call takes effect with its first write: what *)
(* the goroutine still has to do is added to the view of its instance.     *)
(***************************************************************************)
TasksOf(i) ==
    LET among[n \in 0 .. Len(tasks)] ==
          IF n = 0 THEN <<>>
          ELSE IF tasks[n].inst = i THEN Append(among[n - 1], tasks[n])
                                    ELSE among[n - 1]
    IN  among[Len(tasks)]

Stored(i) == [row |-> instances[i], tasks |-> TasksOf(i)]

Workers(i) == {p \in Procs : InstanceOf(p) = i}

InFlight(i, p) ==
    CASE At(p, "advance") ->
           Settle(WfOf(proc[p].row), i, Stored(i), proc[p].goto)
      [] At(p, "assign") ->
           [Stored(i) EXCEPT !.tasks = Append(@, Ask(
               proc[p].row, i, proc[p].goto, Assignee(p).value))]
      [] At(p, "loadInstance") /\ instances[i].status = "running" ->
           Settle(WfOf(instances[i]), i, Stored(i), NextStep(p))
      [] OTHER -> Stored(i)

Views == [i \in DOMAIN instances |->
            IF Workers(i) = {} THEN Stored(i)
            ELSE InFlight(i, CHOOSE p \in Workers(i) : TRUE)]

Abstract == INSTANCE WorkflowAtomic WITH views <- Views

\* While no two requests work on one instance, every call of the engine takes
\* effect atomically: StartInstance, ApproveTask, RejectTask, CancelInstance
\* implement their one-step specifications.
CallsAreAtomic == Abstract!Spec

\* Every way out of every step is there: the start step has the name the engine
\* looks for, a decision leads somewhere, conditions are total, approvals ask a
\* user.
Complete(wf) ==
    /\ "start" \in DOMAIN wf => wf["start"].type = "start"
    /\ \A n \in DOMAIN wf :
          /\ wf[n].type = "condition" =>
                \A v \in Vars : EvaluateConditions(wf[n], v) # NoGoto
          /\ wf[n].type = "approval" =>
                /\ wf[n].assignee.kind = "user"
                /\ wf[n].on_approve # NoGoto /\ wf[n].on_reject # NoGoto

\* A running instance nobody is working on waits for exactly one decision, on
\* the step it stands at: it is never stuck and never asks twice.
Pending(i) == {t \in DOMAIN tasks : tasks[t].inst = i
                                    /\ tasks[t].status = "pending"}

OneOpenTask ==
    \A i \in DOMAIN instances :
       instances[i].status = "running" /\ Workers(i) = {} =>
          \E t \in DOMAIN tasks :
             Pending(i) = {t} /\ tasks[t].step = instances[i].step
=============================================================================
