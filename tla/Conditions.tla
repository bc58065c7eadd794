----------------------------- MODULE Conditions -----------------------------
(***************************************************************************)
(* The evaluator of the conditions in a workflow definition                *)
(* (internal/service/workflow_evaluator.go).                               *)
(*                                                                         *)
(* An expression is the sequence of its words and of the characters that   *)
(* operators are made of; blanks and quotes are gone.  A word reads as a   *)
(* number or it does not; a workflow variable is named by a word.          *)
(***************************************************************************)
EXTENDS Integers, Sequences

LOCAL INSTANCE SequencesExt

Number(n) == <<"number", n>>
Text(s) == <<"text", s>>
Sign(c) == <<"sign", c>>

\* In the order in which they are looked for.
Operators ==
    << <<">", "=">>, <<"<", "=">>, <<"=", "=">>, <<"!", "=">>, <<">">>, <<"<">> >>

\* Where an operator first occurs; 0: nowhere.
Index(expr, op) ==
    SelectInSeq([i \in DOMAIN expr |-> SubSeq(expr, i, Len(expr))],
                LAMBDA rest : IsPrefix([k \in DOMAIN op |-> Sign(op[k])], rest))

\* A variable, a number, or the text itself, which nothing else is equal to
\* when it has several words or none.
Operand(words, vars) ==
    IF Len(words) # 1 THEN <<"words", words>>
    ELSE IF words[1] \in DOMAIN vars THEN vars[words[1]] ELSE words[1]

Ordered(x, op, y) ==
    CASE op = <<">">> -> x > y
      [] op = <<"<">> -> x < y
      [] op = <<">", "=">> -> x >= y
      [] op = <<"<", "=">> -> x <= y
      [] op = <<"=", "=">> -> x = y
      [] op = <<"!", "=">> -> x # y

Verdict(b) == IF b THEN "true" ELSE "false"

Compare(l, op, r) ==
    IF l[1] = "number" /\ r[1] = "number" THEN Verdict(Ordered(l[2], op, r[2]))
    ELSE IF op = <<"=", "=">> THEN Verdict(l = r)
    ELSE IF op = <<"!", "=">> THEN Verdict(l # r)
    ELSE "error"

\* An operator with nothing before it is passed over.
EvaluateCondition(expr, vars) ==
    LET k == SelectInSeq(Operators, LAMBDA op : Index(expr, op) > 1)
    IN  IF k = 0 THEN "error"
        ELSE LET op == Operators[k]
                 i  == Index(expr, op)
             IN  Compare(Operand(SubSeq(expr, 1, i - 1), vars), op,
                         Operand(SubSeq(expr, i + Len(op), Len(expr)), vars))
=============================================================================
