--------------------------- MODULE SqlParameters ---------------------------
(***************************************************************************)
(* Placeholders of prepared statements (executor.rs): how many values a    *)
(* statement asks for, and the statement with values in their place.       *)
(* Statements and expressions are those of SqlParser.                      *)
(***************************************************************************)
EXTENDS SqlParser, SequencesExt

\* count_expr_placeholders: an aggregate is not looked into.
RECURSIVE CountExpr(_)
CountExpr(x) ==
  CASE x.e = "Placeholder" -> 1
    [] x.e = "Binary"      -> CountExpr(x.l) + CountExpr(x.r)
    [] x.e = "Nested"      -> CountExpr(x.x)
    [] OTHER               -> 0

CountAll(xs) == FoldLeft(LAMBDA n, x : n + CountExpr(x), 0, xs)

\* The expressions of a statement that are looked at, in their order: no
\* selected columns, no defaults.
Expressions(st) ==
  CASE st.st = "Select" \/ st.st = "Delete" -> st.selection
    [] st.st = "Insert" -> FlattenSeq(st.values)
    [] st.st = "Update" -> [i \in DOMAIN st.assignments |-> st.assignments[i].value] \o st.selection
    [] OTHER -> <<>>

\* count_params
CountParams(sts) == FoldLeft(LAMBDA n, st : n + CountAll(Expressions(st)), 0, sts)

\* A panic of the unwrap in substitute_expr; no expression is like it.
Panic == [e |-> "Panic"]

\* A value and how many parameters have been used up to there.
Used(x, idx) == [x |-> x, idx |-> idx]

\* substitute_expr: an aggregate is looked into.
RECURSIVE SubstituteExpr(_, _, _)
SubstituteExpr(x, params, idx) ==
  CASE x.e = "Placeholder" ->
         Used(IF idx < Len(params) THEN params[idx + 1] ELSE Panic, idx + 1)
    [] x.e = "Binary" ->
         LET l == SubstituteExpr(x.l, params, idx)
             r == SubstituteExpr(x.r, params, l.idx)
         IN  Used(IF Panic \in {l.x, r.x} THEN Panic ELSE Binary(l.x, x.op, r.x), r.idx)
    [] x.e \in {"Nested", "Agg"} ->
         LET y == SubstituteExpr(x.x, params, idx)
         IN  Used(IF y.x = Panic THEN Panic ELSE [x EXCEPT !.x = y.x], y.idx)
    [] OTHER -> Used(x, idx)

\* Several expressions one after the other.
SubstituteAll(xs, params, idx) ==
  FoldLeft(LAMBDA acc, x :
             LET y == SubstituteExpr(x, params, acc.idx)
             IN  Used(Append(acc.x, y.x), y.idx),
           Used(<<>>, idx), xs)

\* Mutant: the condition takes its values before the assignments.
SubstituteConditionFirst(st, params, idx) ==
  IF st.st # "Update" THEN Used(st, idx)
  ELSE LET n   == Len(st.assignments)
           sel == SubstituteAll(st.selection, params, idx)
           all == SubstituteAll([i \in 1 .. n |-> st.assignments[i].value], params, sel.idx)
       IN  Used([st EXCEPT !.assignments = [i \in 1 .. n |-> [@[i] EXCEPT !.value = all.x[i]]],
                           !.selection   = sel.x], all.idx)

\* substitute_statement: the values go into the expressions where they stand.
SubstituteStatement(st, params, idx) ==
  LET all == SubstituteAll(Expressions(st), params, idx)
      n   == CASE st.st = "Update" -> Len(st.assignments) [] OTHER -> 0
      Row(i) == LET before == FoldLeft(LAMBDA m, row : m + Len(row), 0, SubSeq(st.values, 1, i - 1))
                IN  SubSeq(all.x, before + 1, before + Len(st.values[i]))
      new == CASE st.st \in {"Select", "Delete"} -> [st EXCEPT !.selection = all.x]
               [] st.st = "Insert" -> [st EXCEPT !.values = [i \in DOMAIN @ |-> Row(i)]]
               [] st.st = "Update" ->
                    [st EXCEPT !.assignments = [i \in 1 .. n |-> [@[i] EXCEPT !.value = all.x[i]]],
                               !.selection   = SubSeq(all.x, n + 1, Len(all.x))]
               [] OTHER -> st
  IN  Used(new, all.idx)

\* The statements of a prepared text, bound to its parameters.
Bind(sts, params) ==
  FoldLeft(LAMBDA acc, st :
             LET y == SubstituteStatement(st, params, acc.idx)
             IN  Used(Append(acc.x, y.x), y.idx),
           Used(<<>>, 0), sts).x
=============================================================================
