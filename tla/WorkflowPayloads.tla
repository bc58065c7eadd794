-------------------------- MODULE WorkflowPayloads --------------------------
(***************************************************************************)
(* Definitions that clients submit in the model-checking instances, over   *)
(* two approvers and two assignments of the variable leaveDays, and what   *)
(* the evaluator is expected to make of the documented conditions.         *)
(***************************************************************************)
EXTENDS Conditions, TLC

CONSTANTS ann, bob       \* the approvers

leaveDays == Text("leaveDays")

Days(n) == leaveDays :> Number(n)
ShortOrLong == {Days(2), Days(5)}
Long == {Days(5)}

\* "leaveDays <op> y"
DaysAre(op, y) == <<leaveDays>> \o [i \in DOMAIN op |-> Sign(op[i])] \o <<Number(y)>>

\* What the six operators mean, by the sign of the difference.
Documented ==
    (<<">">> :> {1}) @@ (<<"<">> :> {-1}) @@ (<<">", "=">> :> {0, 1}) @@
    (<<"<", "=">> :> {-1, 0}) @@ (<<"=", "=">> :> {0}) @@ (<<"!", "=">> :> {-1, 1})

\* A comparison of a variable with a number is the documented one; a variable
\* that is not set is a text, which has no order.
ASSUME ComparisonsAreDocumented ==
    \A op \in DOMAIN Documented, x, y \in 0 .. 2 :
       LET sign == IF x > y THEN 1 ELSE IF x < y THEN -1 ELSE 0 IN
       /\ EvaluateCondition(DaysAre(op, y), Days(x)) = Verdict(sign \in Documented[op])
       /\ EvaluateCondition(DaysAre(op, y), Text("leaveType") :> Text("sick")) =
             CASE op = <<"=", "=">> -> "false" [] op = <<"!", "=">> -> "true" [] OTHER -> "error"

NoOne == [kind |-> "none"]
User(u) == [kind |-> "user", value |-> u]
Role(r) == [kind |-> "role", value |-> r]

Blank == [type |-> "end", next |-> "", assignee |-> NoOne, on_approve |-> "",
          on_reject |-> "", conditions |-> <<>>, result |-> ""]

StartStepTo(n) == [Blank EXCEPT !.type = "start", !.next = n]
Approval(who, yes, no) ==
    [Blank EXCEPT !.type = "approval", !.assignee = who, !.on_approve = yes,
                  !.on_reject = no]
Condition(branches) ==
    [Blank EXCEPT !.type = "condition", !.conditions = branches]
End(r) == [Blank EXCEPT !.result = r]

When(expr, n) ==
    LET Is(verdict) == {v \in ShortOrLong : EvaluateCondition(expr, v) = verdict}
    IN  [guarded |-> TRUE, holds |-> Is("true"), fails |-> Is("error"), goto |-> n,
         otherwise |-> ""]
Otherwise(n) == [guarded |-> FALSE, holds |-> {}, fails |-> {}, goto |-> "",
                 otherwise |-> n]

\* The leave request of docs/specs/06-workflow-engine.md, with users for roles,
\* at least 4 days for more than 3, and its start step named so that the engine
\* finds it.
Leave ==
    [n \in {"start", "manager", "days", "director", "yes", "no"} |->
       CASE n = "start"    -> StartStepTo("manager")
         [] n = "manager"  -> Approval(User(ann), "days", "no")
         [] n = "days"     -> Condition(<<When(DaysAre(<<">", "=">>, 4), "director"),
                                          Otherwise("yes")>>)
         [] n = "director" -> Approval(User(bob), "yes", "no")
         [] n = "yes"      -> End("approved")
         [] n = "no"       -> End("rejected")]

\* A rejected draft goes back to its first approver through the start step;
\* the author of the draft may withdraw it on the way.
Resubmit ==
    [n \in {"start", "review", "rework", "yes", "gone"} |->
       CASE n = "start"  -> StartStepTo("review")
         [] n = "review" -> Approval(User(ann), "yes", "rework")
         [] n = "rework" -> Approval(User(bob), "start", "gone")
         [] n = "yes"    -> End("approved")
         [] n = "gone"   -> End("cancelled")]

\* Long requests go round through the start step and never meet a person.  The
\* validation looks at every goto by itself, and accepts it.
Circular ==
    [n \in {"start", "days", "review", "yes", "no"} |->
       CASE n = "start"  -> StartStepTo("days")
         [] n = "days"   -> Condition(<<When(DaysAre(<<">">>, 3), "start"),
                                       Otherwise("review")>>)
         [] n = "review" -> Approval(User(ann), "yes", "no")
         [] n = "yes"    -> End("approved")
         [] n = "no"     -> End("rejected")]

\* A draft whose rejection leads nowhere: the validation refuses it.
Misspelt == [Resubmit EXCEPT !["review"].on_reject = "rewrok"]

\* A role nobody can be resolved from, a branch that is not there, a condition
\* that matches nothing or cannot be evaluated, a misspelt goto.
Ragged ==
    [n \in {"start", "days", "first", "second", "yes"} |->
       CASE n = "start"  -> StartStepTo("days")
         [] n = "days"   -> Condition(<<When(DaysAre(<<">">>, 3), "first"),
                                       When(<<Text("leaveType"), Sign("<"), Number(3)>>, "yes")>>)
         [] n = "first"  -> Approval(User(ann), "second", "")
         [] n = "second" -> Approval(Role("dept_manager"), "yes", "")
         [] n = "yes"    -> End("approved")]
=============================================================================
