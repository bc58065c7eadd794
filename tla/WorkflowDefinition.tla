------------------------- MODULE WorkflowDefinition -------------------------
(***************************************************************************)
(* The decoded workflow definition (WorkflowDef in                         *)
(* internal/service/workflow_service.go), the structural validation it     *)
(* passes before it is stored, and the operators the engine reads it with. *)
(*                                                                         *)
(* A definition is a function from step names to steps: validation refuses *)
(* an empty or repeated name, so the list of steps is one.  A step is      *)
(*   [type, next, assignee, on_approve, on_reject, conditions, result]     *)
(* with "" for an absent goto.  An assignee is a record with a field       *)
(* "kind": "none" (nil), "user" (with the user id in "value"), "role", or  *)
(* "invalid" (a type the engine does not know, or a user id that does not  *)
(* parse).  A condition [guarded, holds, fails, goto, otherwise] abstracts *)
(* the expression in "when" by the sets of variable assignments it is true *)
(* of and it cannot be evaluated over; guarded is when /= "".              *)
(***************************************************************************)
EXTENDS Integers, Sequences

StepTypes == {"start", "approval", "condition", "end"}

NoGoto == ""

\* A branch of a condition step names existing steps (a "when" its goto, an
\* "otherwise" its own value, even next to a "when" that shadows it).
ValidCondition(wf, c) ==
    /\ c.guarded => c.goto \in DOMAIN wf
    /\ c.otherwise # NoGoto => c.otherwise \in DOMAIN wf

\* Mutant: reject branches are not checked.
ValidStepApproveOnly(wf, s) ==
    /\ s.type \in StepTypes
    /\ s.type = "approval"  => s.assignee.kind # "none"
    /\ s.type = "end"       => s.result # ""
    /\ s.type = "condition" => s.conditions # <<>>
    /\ s.type = "start"     => s.next \in DOMAIN wf
    /\ s.on_approve # NoGoto => s.on_approve \in DOMAIN wf
    /\ \A k \in DOMAIN s.conditions : ValidCondition(wf, s.conditions[k])

ValidStep(wf, s) ==
    /\ s.type \in StepTypes
    /\ s.type = "approval"  => s.assignee.kind # "none"
    /\ s.type = "end"       => s.result # ""
    /\ s.type = "condition" => s.conditions # <<>>
    /\ s.type = "start"     => s.next \in DOMAIN wf
    /\ s.on_approve # NoGoto => s.on_approve \in DOMAIN wf
    /\ s.on_reject  # NoGoto => s.on_reject \in DOMAIN wf
    /\ \A k \in DOMAIN s.conditions : ValidCondition(wf, s.conditions[k])

\* Structural check at definition time.
ValidateDefinition(wf) ==
    /\ NoGoto \notin DOMAIN wf
    /\ \E n \in DOMAIN wf :
         \A m \in DOMAIN wf : wf[m].type = "start" <=> m = n
    /\ \A n \in DOMAIN wf : ValidStep(wf, wf[n])

\* The branches of a condition step that stop the scan: a "when" that is true
\* or cannot be evaluated, an "otherwise" with no "when" before it.
Stops(c, v) == IF c.guarded THEN v \in c.holds \cup c.fails
                            ELSE c.otherwise # NoGoto

\* The step a condition step routes to over the variables v; NoGoto when no
\* branch matches or a "when" cannot be evaluated.
EvaluateConditions(step, v) ==
    LET c    == step.conditions
        hits == {k \in DOMAIN c : Stops(c[k], v)}
        k    == CHOOSE h \in hits : \A j \in hits : h <= j
    IN  IF hits = {} \/ (c[k].guarded /\ v \in c[k].fails) THEN NoGoto
        ELSE IF c[k].guarded THEN c[k].goto ELSE c[k].otherwise

\* Where a decision on a task of this step sends the instance (NoGoto: the
\* step has no such branch).
Branch(step, decision) ==
    IF decision = "approved" THEN step.on_approve ELSE step.on_reject
=============================================================================
