----------------------------- MODULE SqlParser -----------------------------
(***************************************************************************)
(* The recursive-descent parser of local_parser/mod.rs on a sequence of    *)
(* tokens.  A token is a record of its kind k and its text s; keywords and *)
(* punctuation are named by how SQL writes them.  Where the code keeps a   *)
(* position in the text, an operator here takes the tokens that are left   *)
(* and returns a value with the tokens left after it, or Err.              *)
(*                                                                         *)
(* An Option of the code is a sequence of at most one element.             *)
(***************************************************************************)
EXTENDS Naturals, Sequences

CONSTANTS
  IntegerTexts,  \* the number texts that parse as i64 (and as u64)
  UnsignedTexts, \* those that only parse as u64
  FloatTexts     \* those with a point that parse as f64

ASSUME TextsAssumption ==
  IntegerTexts \cap UnsignedTexts = {} /\ FloatTexts \cap (IntegerTexts \cup UnsignedTexts) = {}

Symbol(k) == [k |-> k, s |-> ""]
Ident(name) == [k |-> "Ident", s |-> name]
Number(text) == [k |-> "Number", s |-> text]
Quoted(text) == [k |-> "String", s |-> text]

Err == [ok |-> FALSE]
Ok(v, ts) == [ok |-> TRUE, v |-> v, ts |-> ts]

\* The `?` of the code: go on with the value and the tokens left, if any.
Then(r, Continue(_, _)) == IF r.ok THEN Continue(r.v, r.ts) ELSE Err

Current(ts) == IF ts = <<>> THEN "Eof" ELSE Head(ts).k
Advance(ts) == IF ts = <<>> THEN <<>> ELSE Tail(ts)

\* Several expect()s in a row.
RECURSIVE Expect(_, _)
Expect(ts, kinds) ==
  IF kinds = <<>> THEN Ok("", ts)
  ELSE IF Current(ts) = Head(kinds) THEN Expect(Advance(ts), Tail(kinds)) ELSE Err

CurrentIdent(ts) == IF Current(ts) = "Ident" THEN Ok(Head(ts).s, Advance(ts)) ELSE Err

-----------------------------------------------------------------------------
(* Expressions *)

Literal(type, s)   == [e |-> "Literal", type |-> type, s |-> s]
Column(c)          == [e |-> "Column", c |-> c]
Compound(t, c)     == [e |-> "Compound", t |-> t, c |-> c]
Placeholder        == [e |-> "Placeholder"]
Binary(l, op, r)   == [e |-> "Binary", l |-> l, op |-> op, r |-> r]
Nested(x)          == [e |-> "Nested", x |-> x]
Agg(f, x)          == [e |-> "Agg", f |-> f, x |-> x]

AggFuncs    == {"COUNT", "SUM", "MIN", "MAX"}
Comparisons == {"LIKE", "=", "!=", ">", ">=", "<", "<="}

NumberLiteral(s) ==
  CASE s \in FloatTexts   -> <<Literal("Float", s)>>
    [] s \in IntegerTexts -> <<Literal("Integer", s)>>
    [] OTHER              -> <<>>

RECURSIVE ParseOr(_), OrRest(_, _), ParseAnd(_), AndRest(_, _), ParseAtom(_)

ParseAgg(f, ts) ==
  Then(Expect(Advance(ts), <<"(">>), LAMBDA v, r :
    IF f = "COUNT" /\ Current(r) = "*"
    THEN Then(Expect(Advance(r), <<")">>), LAMBDA w, q :
           Ok(Agg(f, Literal("Integer", "1")), q))
    ELSE Then(ParseOr(r), LAMBDA arg, p :
           Then(Expect(p, <<")">>), LAMBDA w, q : Ok(Agg(f, arg), q))))

ParseColumn(ts) ==
  Then(CurrentIdent(ts), LAMBDA first, r :
    IF Current(r) # "." THEN Ok(Column(first), r)
    ELSE Then(CurrentIdent(Advance(r)), LAMBDA second, q : Ok(Compound(first, second), q)))

ParseAtom(ts) ==
  LET k == Current(ts)
      One(x) == Ok(x, Advance(ts))
  IN  CASE k \in AggFuncs -> ParseAgg(k, ts)
        [] k = "("        -> Then(ParseOr(Advance(ts)), LAMBDA x, r :
                               Then(Expect(r, <<")">>), LAMBDA v, q : Ok(Nested(x), q)))
        [] k = "Ident"    -> ParseColumn(ts)
        [] k = "Number"   -> LET lit == NumberLiteral(Head(ts).s)
                             IN  IF lit = <<>> THEN Err ELSE One(lit[1])
        [] k = "String"   -> One(Literal("String", Head(ts).s))
        [] k \in {"TRUE", "FALSE", "NULL"} -> One(Literal(k, ""))
        [] k = "?"        -> One(Placeholder)
        [] OTHER          -> Err

\* One comparison of two atoms, or one atom.
ParseComparison(ts) ==
  Then(ParseAtom(ts), LAMBDA left, r :
    IF Current(r) \notin Comparisons THEN Ok(left, r)
    ELSE Then(ParseAtom(Advance(r)), LAMBDA right, q :
           Ok(Binary(left, Current(r), right), q)))

AndRest(left, ts) ==
  IF Current(ts) # "AND" THEN Ok(left, ts)
  ELSE Then(ParseComparison(Advance(ts)), LAMBDA right, r :
         AndRest(Binary(left, "AND", right), r))

ParseAnd(ts) == Then(ParseComparison(ts), LAMBDA left, r : AndRest(left, r))

\* Mutant: AND and OR bind alike, from the left.
OrRestFlat(left, ts) ==
  CASE Current(ts) = "OR"  -> Then(ParseComparison(Advance(ts)), LAMBDA right, r :
                                OrRest(Binary(left, "OR", right), r))
    [] Current(ts) = "AND" -> Then(ParseComparison(Advance(ts)), LAMBDA right, r :
                                OrRest(Binary(left, "AND", right), r))
    [] OTHER -> Ok(left, ts)

OrRest(left, ts) ==
  IF Current(ts) # "OR" THEN Ok(left, ts)
  ELSE Then(ParseAnd(Advance(ts)), LAMBDA right, r :
         OrRest(Binary(left, "OR", right), r))

ParseOr(ts) == Then(ParseAnd(ts), LAMBDA left, r : OrRest(left, r))

-----------------------------------------------------------------------------
(* Parts of statements *)

DataType(k) ==
  CASE k \in {"INTEGER", "INT", "BIGINT"}              -> "Integer"
    [] k \in {"FLOAT", "DOUBLE", "REAL"}               -> "Float"
    [] k \in {"STRING", "TEXT", "VARCHAR", "CHAR"}     -> "String"
    [] k = "BOOLEAN"                                   -> "Boolean"
    [] k \in {"BLOB", "BYTEA", "VARBINARY", "BINARY"}  -> "Blob"
    [] OTHER                                           -> "none"

\* A size in parentheses is any one token, and is dropped.
ParseDataType(ts) ==
  LET type == DataType(Current(ts))
      r    == Advance(ts)
  IN  IF type = "none" THEN Err
      ELSE IF Current(r) # "(" THEN Ok(type, r)
      ELSE Then(Expect(Advance(Advance(r)), <<")">>), LAMBDA v, q : Ok(type, q))

ColumnDef(name, type, nullable, default) ==
  [name |-> name, type |-> type, nullable |-> nullable, default |-> default]

\* The loop over NOT NULL and DEFAULT: each may come several times, the last wins.
RECURSIVE ParseColumnOptions(_, _)
ParseColumnOptions(def, ts) ==
  CASE Current(ts) = "NOT" ->
         Then(Expect(Advance(ts), <<"NULL">>), LAMBDA v, r :
           ParseColumnOptions([def EXCEPT !.nullable = <<FALSE>>], r))
    [] Current(ts) = "DEFAULT" ->
         Then(ParseOr(Advance(ts)), LAMBDA x, r :
           ParseColumnOptions([def EXCEPT !.default = <<x>>], r))
    [] OTHER -> Ok(def, ts)

ParseColumnDef(ts) ==
  Then(CurrentIdent(ts), LAMBDA name, r :
    Then(ParseDataType(r), LAMBDA type, q :
      ParseColumnOptions(ColumnDef(name, type, <<>>, <<>>), q)))

ParseAssignment(ts) ==
  Then(CurrentIdent(ts), LAMBDA c, r :
    Then(Expect(r, <<"=">>), LAMBDA v, q :
      Then(ParseOr(q), LAMBDA x, p : Ok([column |-> c, value |-> x], p))))

ParseSelectColumn(ts) ==
  Then(ParseOr(ts), LAMBDA x, r :
    IF Current(r) # "AS" THEN Ok([expr |-> x, alias |-> <<>>], r)
    ELSE Then(CurrentIdent(Advance(r)), LAMBDA a, q : Ok([expr |-> x, alias |-> <<a>>], q)))

RECURSIVE ParseList(_, _)

\* A row of VALUES.
ParseRow(ts) ==
  Then(Expect(ts, <<"(">>), LAMBDA v, r :
    Then(ParseList("expr", r), LAMBDA row, q :
      Then(Expect(q, <<")">>), LAMBDA w, p : Ok(row, p))))

ParseItem(item, ts) ==
  CASE item = "ident"      -> CurrentIdent(ts)
    [] item = "expr"       -> ParseOr(ts)
    [] item = "columnDef"  -> ParseColumnDef(ts)
    [] item = "assignment" -> ParseAssignment(ts)
    [] item = "selected"   -> ParseSelectColumn(ts)
    [] item = "row"        -> ParseRow(ts)

\* The loops over items with commas between them.
ParseList(item, ts) ==
  Then(ParseItem(item, ts), LAMBDA x, r :
    IF Current(r) # "," THEN Ok(<<x>>, r)
    ELSE Then(ParseList(item, Advance(r)), LAMBDA xs, q : Ok(<<x>> \o xs, q)))

\* Mutant: a condition may also start with AND.
ParseWhereAlways(ts) ==
  IF Current(ts) \in {"WHERE", "AND"}
  THEN Then(ParseOr(Advance(ts)), LAMBDA x, r : Ok(<<x>>, r)) ELSE Ok(<<>>, ts)

ParseWhere(ts) ==
  IF Current(ts) # "WHERE" THEN Ok(<<>>, ts)
  ELSE Then(ParseOr(Advance(ts)), LAMBDA x, r : Ok(<<x>>, r))

\* The side that names the first table comes first, whatever the order.
ParseJoin(left, ts) ==
  LET start == IF Current(ts) = "INNER" THEN Advance(ts) ELSE ts
      Side(q) == Then(CurrentIdent(q), LAMBDA t, r :
                   Then(Expect(r, <<".">>), LAMBDA v, p :
                     Then(CurrentIdent(p), LAMBDA c, o : Ok(<<t, c>>, o))))
  IN  Then(Expect(start, <<"JOIN">>), LAMBDA v, r :
        Then(CurrentIdent(r), LAMBDA table, q :
          Then(Expect(q, <<"ON">>), LAMBDA w, p :
            Then(Side(p), LAMBDA a, o :
              Then(Expect(o, <<"=">>), LAMBDA u, n :
                Then(Side(n), LAMBDA b, m :
                  Ok([table |-> table,
                      left  |-> IF a[1] = left THEN a ELSE b,
                      right |-> IF a[1] = left THEN b ELSE a], m)))))))

ParseJoinOption(left, ts) ==
  IF Current(ts) \notin {"INNER", "JOIN"} THEN Ok(<<>>, ts)
  ELSE Then(ParseJoin(left, ts), LAMBDA j, r : Ok(<<j>>, r))

ParseOrderBy(ts) ==
  IF Current(ts) # "ORDER" THEN Ok(<<>>, ts)
  ELSE Then(Expect(Advance(ts), <<"BY">>), LAMBDA v, r :
         Then(CurrentIdent(r), LAMBDA c, q :
           Ok(<<[column |-> c, descending |-> Current(q) = "DESC"]>>,
              IF Current(q) \in {"ASC", "DESC"} THEN Advance(q) ELSE q)))

\* LIMIT and OFFSET with a u64.
ParseU64(keyword, ts) ==
  IF Current(ts) # keyword THEN Ok(<<>>, ts)
  ELSE LET r == Advance(ts)
       IN  IF Current(r) = "Number" /\ Head(r).s \in IntegerTexts \cup UnsignedTexts
           THEN Ok(<<Head(r).s>>, Advance(r)) ELSE Err

-----------------------------------------------------------------------------
(* Statements *)

ParseCreateTable(ts) ==
  Then(Expect(ts, <<"CREATE", "TABLE">>), LAMBDA v, r :
    Then(CurrentIdent(r), LAMBDA name, q :
      Then(Expect(q, <<"(">>), LAMBDA w, p :
        Then(ParseList("columnDef", p), LAMBDA defs, o :
          Then(Expect(o, <<")">>), LAMBDA u, n :
            Ok([st |-> "Create", name |-> name, columns |-> defs], n))))))

ParseDropTable(ts) ==
  Then(Expect(ts, <<"DROP", "TABLE">>), LAMBDA v, r :
    Then(CurrentIdent(r), LAMBDA name, q : Ok([st |-> "Drop", name |-> name], q)))

ParseAlterTable(ts) ==
  Then(Expect(ts, <<"ALTER", "TABLE">>), LAMBDA v, r :
    Then(CurrentIdent(r), LAMBDA name, q :
      Then(Expect(q, <<"ADD">>), LAMBDA w, p :
        Then(CurrentIdent(IF Current(p) = "COLUMN" THEN Advance(p) ELSE p), LAMBDA c, o :
          Then(ParseDataType(o), LAMBDA type, n :
            Ok([st |-> "Alter", name |-> name, add |-> ColumnDef(c, type, <<>>, <<>>)], n))))))

\* Without a list of columns the list is empty.
ParseColumnNames(ts) ==
  IF Current(ts) # "(" THEN Ok(<<>>, ts)
  ELSE Then(ParseList("ident", Advance(ts)), LAMBDA cols, r :
         Then(Expect(r, <<")">>), LAMBDA v, q : Ok(cols, q)))

ParseInsert(ts) ==
  Then(Expect(ts, <<"INSERT", "INTO">>), LAMBDA v, r :
    Then(CurrentIdent(r), LAMBDA table, q :
      Then(ParseColumnNames(q), LAMBDA cols, p :
        Then(Expect(p, <<"VALUES">>), LAMBDA w, o :
          Then(ParseList("row", o), LAMBDA rows, n :
            Ok([st |-> "Insert", table |-> table, columns |-> cols, values |-> rows], n))))))

ParseUpdate(ts) ==
  Then(Expect(ts, <<"UPDATE">>), LAMBDA v, r :
    Then(CurrentIdent(r), LAMBDA table, q :
      Then(Expect(q, <<"SET">>), LAMBDA w, p :
        Then(ParseList("assignment", p), LAMBDA sets, o :
          Then(ParseWhere(o), LAMBDA sel, n :
            Ok([st |-> "Update", table |-> table, assignments |-> sets,
                selection |-> sel], n))))))

ParseDelete(ts) ==
  Then(Expect(ts, <<"DELETE", "FROM">>), LAMBDA v, r :
    Then(CurrentIdent(r), LAMBDA table, q :
      Then(ParseWhere(q), LAMBDA sel, p :
        Ok([st |-> "Delete", table |-> table, selection |-> sel], p))))

\* `*` alone is the list without columns.
ParseSelectColumns(ts) ==
  IF Current(ts) = "*" THEN Ok(<<>>, Advance(ts)) ELSE ParseList("selected", ts)

ParseSelect(ts) ==
  Then(Expect(ts, <<"SELECT">>), LAMBDA v, r :
    Then(ParseSelectColumns(r), LAMBDA cols, q :
      Then(Expect(q, <<"FROM">>), LAMBDA w, p :
        Then(CurrentIdent(p), LAMBDA table, o :
          Then(ParseJoinOption(table, o), LAMBDA join, n :
            Then(ParseWhere(n), LAMBDA sel, m :
              Then(ParseOrderBy(m), LAMBDA order, l :
                Then(ParseU64("LIMIT", l), LAMBDA limit, k :
                  Then(ParseU64("OFFSET", k), LAMBDA offset, j :
                    Ok([st |-> "Select", columns |-> cols, table |-> table,
                        join |-> join, selection |-> sel, orderBy |-> order,
                        limit |-> limit, offset |-> offset], j))))))))))

ParseStatement(ts) ==
  CASE Current(ts) = "CREATE" -> ParseCreateTable(ts)
    [] Current(ts) = "DROP"   -> ParseDropTable(ts)
    [] Current(ts) = "ALTER"  -> ParseAlterTable(ts)
    [] Current(ts) = "INSERT" -> ParseInsert(ts)
    [] Current(ts) = "UPDATE" -> ParseUpdate(ts)
    [] Current(ts) = "DELETE" -> ParseDelete(ts)
    [] Current(ts) = "SELECT" -> ParseSelect(ts)
    [] OTHER                  -> Err

\* parse_statements: a semicolon between statements is optional.  It stops at
\* Eof, which is also what the parser takes every tokenizer error for.
RECURSIVE ParseStatements(_)
ParseStatements(ts) ==
  IF Current(ts) = "Eof" THEN Ok(<<>>, <<>>)
  ELSE Then(ParseStatement(ts), LAMBDA st, r :
         Then(ParseStatements(IF Current(r) = ";" THEN Advance(r) ELSE r),
              LAMBDA sts, q : Ok(<<st>> \o sts, q)))
=============================================================================
