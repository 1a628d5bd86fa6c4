----------------------------- MODULE SqlResults -----------------------------
(***************************************************************************)
(* What a query answers once its rows are found: ORDER BY, LIMIT and       *)
(* OFFSET, projection and aggregates of the SQL executor                   *)
(* (extensions/sql/src/executor.rs), and the readers of the N-API          *)
(* (extensions/napi/src/database/query.rs and the column exports of        *)
(* Table), which read the same cells without SQL.                          *)
(*                                                                         *)
(* Here rows are a sequence of positions.  A scan gives them in the order  *)
(* of the table; an index gives them in the order of its posting list,     *)
(* which is left open: every arrangement is looked at.                     *)
(***************************************************************************)
EXTENDS SqlStatements

CONSTANTS
  IntMin,    \* i64::MIN
  IntMax,    \* i64::MAX
  MaxSize,   \* usize::MAX
  PageSizes, \* the LIMITs of clients that read in pages
  Panic      \* the call panics

\* Integers are of type i64.  A table has fewer rows than usize::MAX: a Vec has
\* isize::MAX bytes at most.
ASSUME SizesAssumption ==
  /\ IntMin \in Int /\ IntMax \in Int /\ IntMin <= 0 /\ 0 <= IntMax
  /\ \A v \in Values : v.type = "integer" => v.n \in IntMin .. IntMax
  /\ MaxSize \in Nat /\ AutoLimit < MaxSize

\* A page holds a row, and the end of a page past the last one is a usize.
ASSUME PagesAssumption ==
  \A size \in PageSizes : size \in Nat /\ 1 <= size /\ AutoLimit + size <= MaxSize

AllRows == [p \in Positions(table) |-> p]

FromIndex(clause) ==
  clause # NoClause /\ EqLiteral(clause) # <<>> /\ Indexed(EqLiteral(clause)[1])

\* The orders in which a clause may give its rows.
Arrangements(clause) ==
  IF clause = NoClause THEN {AllRows}
  ELSE IF FromIndex(clause) THEN SetToSeqs(Where(clause))
  ELSE {Ascending(Where(clause))}

-----------------------------------------------------------------------------
(* ORDER BY, LIMIT, OFFSET *)

OrderBy(c, descending) == [column |-> c, descending |-> descending]

\* Mutant: symbols are compared.
BeforeBySymbol(ob, p, q) ==
  LET lower  == IF ob.descending THEN q ELSE p
      higher == IF ob.descending THEN p ELSE q
  IN  /\ ob.column \in Cols
      /\ ValueLess(table.data[lower][ob.column], table.data[higher][ob.column])

\* The comparison of sort_by.  to_map has the strings, not their symbols; a
\* column it does not have, "id" among them, leaves every two rows equal.
Before(ob, p, q) ==
  LET lower  == IF ob.descending THEN q ELSE p
      higher == IF ob.descending THEN p ELSE q
  IN  /\ ob.column \in Cols
      /\ ValueLess(Resolved(table.data[lower][ob.column]),
                   Resolved(table.data[higher][ob.column]))

\* sort_by is stable.
Sorted(rows, ob) ==
  LET First(i, j) == \/ Before(ob, rows[i], rows[j])
                     \/ ~Before(ob, rows[j], rows[i]) /\ i < j
      order == CHOOSE s \in SetToSeqs(DOMAIN rows) : \A i, j \in DOMAIN s : i < j => First(s[i], s[j])
  IN  [k \in DOMAIN rows |-> rows[order[k]]]

NoLimit == MaxSize

\* start + limit does not fit when an OFFSET has no LIMIT.
Page(rows, limit, offset) ==
  IF offset >= Len(rows) THEN <<>>
  ELSE IF offset + limit > MaxSize THEN Panic
  ELSE SubSeq(rows, offset + 1, Min({offset + limit, Len(rows)}))

-----------------------------------------------------------------------------
(* SELECT columns *)

\* to_map
StarRow(p) == [c \in Cols |-> Resolved(table.data[p][c])]

\* eval_select_expr and eval_agg_arg: cells as they are, symbols included.
CellOf(e, p) ==
  CASE e.node = "literal" -> e.value
    [] e.node = "column"  -> IF e.name \in Cols THEN table.data[p][e.name] ELSE Null
    [] OTHER -> Null

Agg(func, arg) == [node |-> "agg", func |-> func, arg |-> arg]

Saturated(n) == IF n > IntMax THEN IntMax ELSE IF n < IntMin THEN IntMin ELSE n

\* Mutant: every loop starts with 0.
StartFromZero(func) == 0

Start(func) ==
  CASE func = "SUM" -> 0
    [] func = "MIN" -> IntMax
    [] func = "MAX" -> IntMin

\* What a loop makes of one more value.
Step(func, acc, v) ==
  IF v.type # "integer" THEN acc
  ELSE CASE func = "SUM" -> Saturated(acc + v.n)
         [] func = "MIN" -> IF v.n < acc THEN v.n ELSE acc
         [] func = "MAX" -> IF v.n > acc THEN v.n ELSE acc

\* The loops over the values of e on some rows.
Loop(func, e, rows) ==
  FoldLeft(LAMBDA acc, p : Step(func, acc, CellOf(e, p)), Start(func), rows)

\* evaluate_aggregation
Aggregated(agg, rows) ==
  IF agg.func = "COUNT" THEN Integer(Len(rows))
  ELSE LET end == Loop(agg.func, agg.arg, rows)
       IN  IF <<agg.func, end>> \in {<<"MIN", IntMax>>, <<"MAX", IntMin>>} THEN Null
           ELSE Integer(end)

\* The columns are <<>> for *, or expressions; an aggregate that is not alone
\* is Null in every row.
Answer(columns, rows) ==
  IF columns = <<>> THEN [i \in DOMAIN rows |-> StarRow(rows[i])]
  ELSE IF Len(columns) = 1 /\ columns[1].node = "agg"
       THEN << <<Aggregated(columns[1], rows)>> >>
  ELSE [i \in DOMAIN rows |-> [k \in DOMAIN columns |-> CellOf(columns[k], rows[i])]]

\* The first WHERE id = n of an executor fills id_map, takes the row and is
\* done: columns, ORDER BY and LIMIT are not looked at.
FirstById(n) ==
  LET p == Get(LeaveSequential(table), n)
  IN  IF p = 0 THEN <<>> ELSE <<StarRow(p)>>

-----------------------------------------------------------------------------
(* The readers of the N-API *)

IntegerOr0(v) == IF v.type = "integer" THEN v.n ELSE 0

\* export_column_i64 and export_column_string: <<>> stands for the empty string.
ExportI64(c) == [p \in Positions(table) |-> IntegerOr0(table.data[p][c])]
ExportString(c) ==
  [p \in Positions(table) |->
     IF Resolved(table.data[p][c]).type = "string" THEN Resolved(table.data[p][c]).chars ELSE <<>>]

\* try_extract_id_filter finds an id
NamesId(clause) ==
  LET eq == EqLiteral(clause)
  IN  eq # <<>> /\ eq[1] = "id" /\ eq[2].type = "integer"

\* execute_i64 never asks an index, and leaves ORDER BY and LIMIT aside.
ExecuteI64(c, clause) ==
  LET found == IF clause = NoClause THEN Positions(table)
               ELSE IF NamesId(clause) THEN DirectId(clause) ELSE Select(clause)
      rows == Ascending(found)
  IN  [i \in DOMAIN rows |-> IntegerOr0(table.data[rows[i]][c])]

SumColumn(c) == Loop("SUM", Column(c), AllRows)
MinColumn(c) == LET m == Loop("MIN", Column(c), AllRows)
                IN  IF m = IntMax THEN 0 ELSE m
MaxColumn(c) == LET m == Loop("MAX", Column(c), AllRows)
                IN  IF m = IntMin THEN 0 ELSE m

\* row_to_json
RowToJson(p) == [id |-> table.ids[p], cells |-> StarRow(p)]

\* get_row_by_id
GetRowById(id) ==
  IF GetIndex(table, id) = 0 THEN <<>> ELSE <<RowToJson(GetIndex(table, id))>>

\* find_by_i64, find_by_string and find_by_bool
FindBy(c, v) == {table.ids[p] : p \in FindByColumn(c, v)}

\* Mutant: the id is taken for the position.
RowAtId(id) == RowToJson(Min({id + 1, Len(table.ids)}))

\* The row whose id the find before it gave, or else the first row.
RowFound(id) == RowToJson(IF GetIndex(table, id) = 0 THEN 1 ELSE GetIndex(table, id))

\* get_row_by_column_i64, _string and _bool: one of the rows, the first of an
\* unknown order.
GetRowByColumn(c, v) == {RowFound(id) : id \in FindBy(c, v)}

\* get_rows
GetRows(limit, offset) ==
  LET rows == Page(AllRows, limit, offset)
  IN  [i \in DOMAIN rows |-> RowToJson(rows[i])]

\* hash_join_i64
HashJoinI64(c, t, d) ==
  {<<table.ids[x[1]], t.ids[x[2]]>> : x \in HashJoin(table, c, t, d)}

-----------------------------------------------------------------------------
(* What an answer promises *)

Orders == {OrderBy(c, d) : c \in Cols \cup {"id"}, d \in BOOLEAN}

\* A client that reads a result page by page, in any order and with any size
\* of page, reads the rows its condition has, each once, in the order of the
\* strings and numbers written; rows the order does not tell apart stay as
\* they were.  Of LIMIT and OFFSET, sort_by and the symbols in the cells.
PagesPartition ==
  \A clause \in Clauses \cup {NoClause}, ob \in Orders, size \in PageSizes :
    \A rows \in Arrangements(clause) :
      LET sorted == Sorted(rows, ob)
          pages  == [k \in 1 .. Len(rows) + 1 |-> Page(sorted, size, (k - 1) * size)]
          Cell(p) == Resolved(table.data[p][ob.column])
          Place(p) == CHOOSE i \in DOMAIN rows : rows[i] = p
      IN  /\ FlattenSeq(pages) = sorted
          /\ Page(sorted, NoLimit, 0) = sorted
          /\ Range(sorted) = Taken(clause) /\ Len(sorted) = Cardinality(Taken(clause))
          /\ \A i, j \in DOMAIN sorted : i < j =>
               LET p == sorted[i]
                   q == sorted[j]
               IN  IF ob.column \notin Cols \/ Cell(p) = Cell(q) THEN Place(p) < Place(q)
                   ELSE IF ob.descending THEN ValueLess(Cell(q), Cell(p))
                                         ELSE ValueLess(Cell(p), Cell(q))

\* SQL's aggregates and the column functions of the N-API agree with each
\* other and with the values in the table, except at the ends of i64: a sum
\* stops there, so that the order of the rows matters when signs are mixed,
\* and a column with no other value than the one a loop starts from counts as
\* empty, which SQL calls Null and the N-API 0.  COUNT is the number of values
\* of a column that has one in every row: it counts the rows without one too.
AggregatesAgree ==
  \A c \in Cols :
    LET cells == {p \in Positions(table) : table.data[p][c].type = "integer"}
        values == {p \in Positions(table) : table.data[p][c] # Null}
        N(p)  == table.data[p][c].n
        OneSign  == (\A p \in cells : N(p) >= 0) \/ (\A p \in cells : N(p) <= 0)
        least    == {N(p) : p \in cells} \ {IntMax}
        greatest == {N(p) : p \in cells} \ {IntMin}
        Sql(func) == Answer(<<Agg(func, Column(c))>>, AllRows)[1][1]
        Or0(v) == IF v = Null THEN 0 ELSE v.n
    IN  /\ OneSign => SumColumn(c) = Saturated(MapThenSumSet(N, cells))
        /\ Sql("SUM") = Integer(SumColumn(c))
        /\ Sql("MIN") = IF least = {} THEN Null ELSE Integer(Min(least))
        /\ Sql("MAX") = IF greatest = {} THEN Null ELSE Integer(Max(greatest))
        /\ MinColumn(c) = Or0(Sql("MIN")) /\ MaxColumn(c) = Or0(Sql("MAX"))
        /\ values = Positions(table) => Sql("COUNT") = Integer(Cardinality(values))

\* However a row is read, with SQL, by its id, by a value of a column, page by
\* page, as a column or as a side of a join, it is the row that is there: ids
\* and positions, which deletions set apart, are never taken for each other,
\* and the first query of an executor answers as the ones after it.
ReadersAgree ==
  LET RowsOf(id) == {RowToJson(p) : p \in {q \in Positions(table) : table.ids[q] = id}}
      With(c, v) == {RowToJson(p) : p \in {q \in Positions(table) : Resolved(table.data[q][c]) = v}}
  IN  /\ \A id \in Id :
           /\ Range(GetRowById(id)) = RowsOf(id)
           /\ {r.cells : r \in RowsOf(id)} = Range(FirstById(id))
           /\ \A e \in Conditions : NamesId(e) /\ EqLiteral(e)[2].n = id =>
                FirstById(id) = Answer(<<>>, SetToSeq(Where(e)))
      /\ \A c \in Cols, row \in Rows :
           GetRowByColumn(c, row[c]) = With(c, row[c])
      /\ \A c \in Cols :
           /\ ExportI64(c) = ExecuteI64(c, NoClause)
           /\ \A p \in Positions(table) :
                LET v == GetRows(1, p - 1)[1].cells[c]
                IN  ExportString(c)[p] = (IF v.type = "string" THEN v.chars ELSE <<>>)
           /\ \A clause \in Clauses :
                LET rows == Ascending(Meaning(clause))
                IN  ExecuteI64(c, clause) = [i \in DOMAIN rows |-> ExportI64(c)[rows[i]]]
      /\ \A u \in Others, c \in Cols \ StringCols :
           \A x \in HashJoinI64(c, u, c) :
             \E r \in RowsOf(x[1]), q \in Positions(u) :
               u.ids[q] = x[2] /\ u.data[q][c] = r.cells[c]
=============================================================================
