---------------------------- MODULE StridedTable ----------------------------
(***************************************************************************)
(* A table of src/core/table.rs whose columns may change: the cells of all *)
(* rows are in one vector, and a row is found by multiplying its position  *)
(* with the number of columns.  Module TableOps keeps the rows apart and   *)
(* has the versions and indexes, which are left out here.                  *)
(***************************************************************************)
EXTENDS Naturals, Sequences, FiniteSets, SequencesExt

CONSTANTS
  Null,      \* the cell without a value
  NoClause,  \* a statement without WHERE
  MaxIds     \* bound: the automatic ids of a table are 0 .. MaxIds - 1

ASSUME MaxIdsAssumption == MaxIds \in Nat

\* A column has a name and the values it admits: those of its type, and Null
\* unless it is NOT NULL.
NewTable(columns) ==
  [exists     |-> TRUE,
   columns    |-> columns,
   ids        |-> <<>>,
   data       |-> <<>>,
   idMap      |-> [id \in 0 .. MaxIds - 1 |-> 0],
   nextId     |-> 0,
   sequential |-> TRUE]

NoTable == [exists |-> FALSE]

Width(t) == Len(t.columns)
Rows(t) == 1 .. Len(t.ids)
ColumnNames(t) == {t.columns[i].name : i \in 1 .. Width(t)}

\* column_map: of two columns with one name it keeps the later.  0 for none.
ColumnIndex(t, c) ==
  SelectLastInSeq(t.columns, LAMBDA column : column.name = c)

Cell(t, p, i) == t.data[(p - 1) * Width(t) + i]

\* to_map
RowMap(t, p) == [c \in ColumnNames(t) |-> Cell(t, p, ColumnIndex(t, c))]

FillIdMap(t) ==
  [t EXCEPT !.sequential = FALSE,
            !.idMap = [id \in DOMAIN @ |->
               IF \E p \in Rows(t) : t.ids[p] = id
               THEN CHOOSE p \in Rows(t) : t.ids[p] = id ELSE @[id]]]

LeaveSequential(t) == IF t.sequential THEN FillIdMap(t) ELSE t

\* get and get_index, which agree on the ids of this module.
Get(t, id) ==
  IF id \notin DOMAIN t.idMap THEN 0
  ELSE IF t.sequential /\ id < Len(t.ids) THEN id + 1 ELSE t.idMap[id]

-----------------------------------------------------------------------------
(* Rows come, change and go *)

Append1(t, cells) ==
  [t EXCEPT !.ids    = Append(@, t.nextId),
            !.data   = @ \o cells,
            !.idMap  = IF t.sequential THEN @ ELSE [@ EXCEPT ![t.nextId] = Len(t.ids) + 1],
            !.nextId = @ + 1]

\* A row for each sequence of cells.
AppendAll(t, rows) ==
  LET done[k \in 0 .. Len(rows)] == IF k = 0 THEN t ELSE Append1(done[k - 1], rows[k])
  IN  done[Len(rows)]

\* The cells of one map, and those of another where it has none.
Merged(cells, others) ==
  [c \in DOMAIN cells \cup DOMAIN others |->
     IF c \in DOMAIN cells THEN cells[c] ELSE others[c]]

\* validate_and_convert: cells for all columns, in their order.
Converted(t, map) ==
  [i \in 1 .. Width(t) |->
     LET c == t.columns[i].name
     IN  IF c \in DOMAIN map /\ ColumnIndex(t, c) = i THEN map[c] ELSE Null]

\* Mutant: a missing cell is not asked for.
AdmittedIfPresent(t, map) ==
  \A i \in 1 .. Width(t) : Converted(t, map)[i] \in t.columns[i].admits \cup {Null}

Admitted(t, map) ==
  \A i \in 1 .. Width(t) : Converted(t, map)[i] \in t.columns[i].admits

\* The vector with the cells from column i of row p on replaced.
Overwritten(t, p, i, cells) ==
  LET at == (p - 1) * Width(t) + i - 1
  IN  [k \in DOMAIN t.data |->
         IF k - at \in DOMAIN cells THEN cells[k - at] ELSE t.data[k]]

\* delete, of an id that has a row: the block of the last row takes the place
\* of the one that goes.
Delete(t, id) ==
  LET p    == Get(t, id)
      last == Len(t.ids)
      u    == LeaveSequential(t)
      block == SubSeq(t.data, (last - 1) * Width(t) + 1, last * Width(t))
      unmapped == [u.idMap EXCEPT ![id] = 0]
  IN  [u EXCEPT
         !.ids   = SubSeq([@ EXCEPT ![p] = t.ids[last]], 1, last - 1),
         !.data  = SubSeq(Overwritten(t, p, 1, block), 1, (last - 1) * Width(t)),
         !.idMap = IF p < last THEN [unmapped EXCEPT ![t.ids[last]] = p] ELSE unmapped]

\* Mutant: the vector keeps its cells as they are.
WithColumnKeepingData(t, column) ==
  [LeaveSequential(t) EXCEPT !.columns = Append(@, column),
                             !.data = @ \o [p \in Rows(t) |-> Null]]

\* ALTER TABLE ADD COLUMN: every block is copied and gets one cell more.
WithColumn(t, column) ==
  LET old == Width(t)
      new == old + 1
      Copied(k) == IF k % new = 0 THEN Null ELSE t.data[(k \div new) * old + (k % new)]
  IN  [LeaveSequential(t) EXCEPT
         !.columns = Append(@, column),
         !.data    = [k \in 1 .. Len(t.ids) * new |-> Copied(k)]]

-----------------------------------------------------------------------------
(* The rows a clause finds *)

\* A column of the name hides the ids the table gives: try_extract_id_filter.
DeclaresId(t) == "id" \in ColumnNames(t)

\* The positions that satisfy a clause: by id, by a scan of one column, none
\* when there is no such column.
Found(t, clause) ==
  IF clause = NoClause THEN Rows(t)
  ELSE IF clause.column = "id" /\ ~DeclaresId(t) THEN {Get(t, clause.value)} \ {0}
  ELSE {p \in Rows(t) : /\ clause.column \in ColumnNames(t)
                        /\ Cell(t, p, ColumnIndex(t, clause.column)) = clause.value}

=============================================================================
