------------------------------ MODULE Sessions ------------------------------
(***************************************************************************)
(* A client of the SQL executor (extensions/sql/src/executor.rs) and of    *)
(* the prepared statements and transactions of the N-API                   *)
(* (extensions/napi/src/database/mod.rs): CREATE, DROP and ALTER TABLE,    *)
(* INSERT, UPDATE, DELETE and SELECT, runBatch, begin, commit, rollback.   *)
(*                                                                         *)
(* A call is a function of the state: its effect is the tables and the     *)
(* executor's list `populated` after it, and its answer.  One call is one  *)
(* step here; module Writers has the steps of UPDATE and DELETE apart.     *)
(***************************************************************************)
EXTENDS StridedTable

CONSTANTS
  Names,        \* the names of tables
  Schemas,      \* the columns CREATE TABLE may give a table
  Extras,       \* the columns ALTER TABLE may add
  Inserted,     \* what INSERT gives: functions from some columns to values
  Clauses,      \* the WHERE clauses, [column |-> c, value |-> v]
  Assignments,  \* what UPDATE sets: functions from some columns to values
  Prepared,     \* the statements that are run in batches
  FlatParams,   \* the parameters a batch may get
  MaxRows,      \* bound: rows in the database
  MaxSaved,     \* bound: rows in the database when a transaction begins
  MaxColumns    \* bound: columns of a table

Columns == (UNION {Range(columns) : columns \in Schemas}) \cup Extras

\* A column id comes from ALTER TABLE.  For one of CREATE TABLE a unique index
\* is made, whose positions DELETE leaves behind: that is module TableOps' matter.
ASSUME ColumnsAssumption ==
  /\ Schemas \subseteq Seq(Columns)
  /\ \A columns \in Schemas : \A column \in Range(columns) : column.name # "id"

\* ALTER TABLE makes every column nullable.
ASSUME ExtrasAssumption == \A column \in Extras : Null \in column.admits

\* A statement with placeholders has one at least.
ASSUME PreparedAssumption ==
  \A stmt \in Prepared :
    /\ stmt.table \in Names
    /\ \/ stmt.op = "insert" /\ stmt.columns \in Seq(Range(stmt.columns)) \ {<<>>}
       \/ stmt.op = "update"

ASSUME ParamsAssumption == \A flat \in FlatParams : flat \in Seq(Range(flat))

\* A statement without WHERE is none that has one.
ASSUME NoClauseAssumption ==
  \A flat \in FlatParams : \A id \in Range(flat) : NoClause # [column |-> "id", value |-> id]

VARIABLES
  tables,     \* the table under each name, NoTable when there is none
  populated,  \* the names populate_id_map_once has seen in this executor
  saved,      \* original_tables of the transaction, NoTransaction without one
  replaced,   \* names whose table was replaced since populated got them
  call        \* the last call, with its arguments and its answer

vars == <<tables, populated, saved, replaced, call>>
state == <<tables, populated, saved, replaced>>

NoTransaction == [taken |-> FALSE]
Snapshot(ts) == [taken |-> TRUE, tables |-> ts]

Init ==
  /\ tables = [n \in Names |-> NoTable]
  /\ populated = {}
  /\ saved = NoTransaction
  /\ replaced = {}
  /\ call = [op |-> "none", answer |-> "ok"]

Effect(ts, seen, answer) == [tables |-> ts, populated |-> seen, answer |-> answer]
Now == Effect(tables, populated, "ok")
Fresh == Effect(tables, {}, "ok")

Put(e, n, t) == [e EXCEPT !.tables[n] = t, !.answer = "ok"]
Refuse(e) == [e EXCEPT !.answer = "error"]
Exists(e, n) == e.tables[n].exists

-----------------------------------------------------------------------------
(* Effects of the statements *)

\* Mutant: the name is noted and the table left sequential.
PopulateOnlyNotes(e, n) == [e EXCEPT !.populated = @ \cup {n}]

\* populate_id_map_once: not when the name is in the list already.
PopulateOnce(e, n) ==
  IF n \in e.populated THEN e
  ELSE [e EXCEPT !.populated = @ \cup {n}, !.tables[n] = LeaveSequential(@)]

\* INSERT of one row names the columns it has; unknown ones are ignored.
InsertOne(e, n, map) ==
  IF Exists(e, n) /\ Admitted(e.tables[n], map)
  THEN Put(e, n, Append1(e.tables[n], Converted(e.tables[n], map)))
  ELSE Refuse(e)

\* The cells of a row that is put down by position, for columns of the table:
\* of two values for one column the later.
Placed(t, columns, row) ==
  [i \in 1 .. Width(t) |->
     LET k == SelectLastInSubSeq(columns, 1, Min({Len(columns), Len(row)}),
                                 LAMBDA c : ColumnIndex(t, c) = i)
     IN  IF k = 0 THEN Null ELSE row[k]]

\* INSERT of several rows, and of a batch: the cells are not validated, and an
\* unknown column is an error.
InsertMany(e, n, columns, rows) ==
  LET t == e.tables[n]
  IN  IF Exists(e, n) /\ \A i \in DOMAIN columns : ColumnIndex(t, columns[i]) # 0
      THEN Put(e, n, AppendAll(t, [r \in DOMAIN rows |-> Placed(t, columns, rows[r])]))
      ELSE Refuse(e)

\* update_row: the row is found in id_map alone.
UpdateRow(e, n, id, map) ==
  LET t == e.tables[n]
  IN  IF e.answer = "error" \/ ~Admitted(t, map) \/ t.idMap[id] = 0 THEN Refuse(e)
      ELSE Put(e, n, [t EXCEPT !.data = Overwritten(t, t.idMap[id], 1, Converted(t, map))])

\* UPDATE: the rows are collected with all their cells and written back one by
\* one, in their order; the first that is refused ends it.
UpdateWhere(e, n, clause, cells) ==
  LET d == PopulateOnce(e, n)
      t == d.tables[n]
      done[p \in 0 .. Len(t.ids)] ==
        IF p = 0 THEN [d EXCEPT !.answer = "ok"]
        ELSE IF p \notin Found(t, clause) THEN done[p - 1]
        ELSE UpdateRow(done[p - 1], n, t.ids[p], Merged(cells, RowMap(t, p)))
  IN  IF Exists(e, n) THEN done[Len(t.ids)] ELSE Refuse(e)

\* DELETE: the ids are collected and deleted one by one.
DeleteWhere(e, n, clause) ==
  LET d == PopulateOnce(e, n)
      t == d.tables[n]
      done[p \in 0 .. Len(t.ids)] ==
        IF p = 0 THEN t
        ELSE IF p \notin Found(t, clause) THEN done[p - 1]
        ELSE Delete(done[p - 1], t.ids[p])
  IN  IF Exists(e, n) THEN Put(d, n, done[Len(t.ids)]) ELSE Refuse(e)

\* SELECT by id populates id_map too, the others only read.
SelectWhere(e, n, clause) ==
  IF ~Exists(e, n) THEN Refuse(e)
  ELSE IF clause # NoClause /\ clause.column = "id" /\ ~DeclaresId(e.tables[n])
  THEN PopulateOnce(e, n) ELSE e

\* The rows it returns, from the table as it is then.
Returned(t, clause) ==
  IF t.exists THEN {[id |-> t.ids[p], row |-> RowMap(t, p)] : p \in Found(t, clause)} ELSE {}

\* Mutant: the id is taken for a position.
UpdateByPosition(e, n, changes) ==
  LET Write(t, change) ==
        IF change.id \notin 0 .. Len(t.ids) - 1 THEN t
        ELSE [t EXCEPT !.data = Overwritten(t, change.id + 1,
                                            ColumnIndex(t, change.column), <<change.value>>)]
      done[k \in 0 .. Len(changes)] ==
        IF k = 0 THEN e.tables[n] ELSE Write(done[k - 1], changes[k])
  IN  Put(e, n, done[Len(changes)])

\* update_batch_by_indices: no validation, ids without a row are passed over.
UpdateByIndices(e, n, changes) ==
  LET Write(t, change) ==
        IF Get(t, change.id) = 0 THEN t
        ELSE [t EXCEPT !.data = Overwritten(t, Get(t, change.id),
                                            ColumnIndex(t, change.column), <<change.value>>)]
      done[k \in 0 .. Len(changes)] ==
        IF k = 0 THEN e.tables[n] ELSE Write(done[k - 1], changes[k])
  IN  Put(e, n, done[Len(changes)])

-----------------------------------------------------------------------------
(* Prepared statements: every value is a placeholder *)

Placeholders(stmt) == IF stmt.op = "insert" THEN Len(stmt.columns) ELSE 2

\* execute_prepared, for INSERT (..) VALUES (?, ..) and UPDATE SET c = ? WHERE id = ?.
RunOnce(e, stmt, params) ==
  IF e.answer = "error" \/ Len(params) # Placeholders(stmt) THEN Refuse(e)
  ELSE IF stmt.op = "insert"
  THEN InsertOne(e, stmt.table, [c \in Range(stmt.columns) |->
                                   params[SelectLastInSeq(stmt.columns, LAMBDA d : d = c)]])
  ELSE UpdateWhere(e, stmt.table, [column |-> "id", value |-> params[2]],
                   [c \in {stmt.column} |-> params[1]])

\* runBatchI64 and its siblings cut their flat array into rows; what is left
\* over at the end is a row too.
Chunks(flat, size) ==
  [i \in 1 .. (Len(flat) + size - 1) \div size |->
     SubSeq(flat, (i - 1) * size + 1, Min({i * size, Len(flat)}))]

\* The changes of the fast path of UPDATE.  A last parameter that is no integer
\* is the id of no row.
Changes(stmt, rows) ==
  [i \in DOMAIN rows |-> [id |-> rows[i][2], column |-> stmt.column, value |-> rows[i][1]]]

\* execute_prepared_batch, its two fast paths.  That of UPDATE takes the value of
\* id for the id the table gave, of a table that declares a column id too: it looks
\* for the column and makes no use of what it finds.
RunRows(e, stmt, rows) ==
  IF ~Exists(e, stmt.table) THEN Refuse(e)
  ELSE IF stmt.op = "insert" THEN InsertMany(e, stmt.table, stmt.columns, rows)
  ELSE UpdateByIndices(e, stmt.table, Changes(stmt, rows))

-----------------------------------------------------------------------------
(* The calls *)

Lives(n) == tables[n].exists
RowsNow == {x \in Names \X (1 .. MaxRows) : Lives(x[1]) /\ x[2] \in Rows(tables[x[1]])}

\* The bounds of the model: new rows, and their ids.
Room(n, k) == Lives(n) => /\ Cardinality(RowsNow) + k <= MaxRows
                          /\ tables[n].nextId + k <= MaxIds

\* The call did e; args is what it was asked.
Did(e, args) ==
  /\ tables' = e.tables
  /\ populated' = e.populated
  /\ call' = Merged(args, [answer |-> e.answer])

Create(n, columns) ==
  /\ Did(Put(Now, n, NewTable(columns)),
         [op |-> "create", table |-> n, columns |-> {columns[i].name : i \in DOMAIN columns}])
  /\ replaced' = replaced \cup (populated \cap {n})
  /\ UNCHANGED saved

DropTable(n) ==
  /\ Did(IF Lives(n) THEN Put(Now, n, NoTable) ELSE Refuse(Now), [op |-> "drop", table |-> n])
  /\ UNCHANGED <<saved, replaced>>

AddColumn(n, column) ==
  /\ Lives(n) => Width(tables[n]) < MaxColumns
  /\ Did(IF Lives(n) THEN Put(Now, n, WithColumn(tables[n], column)) ELSE Refuse(Now),
         [op |-> "alter", table |-> n, column |-> column.name])
  /\ UNCHANGED <<saved, replaced>>

InsertRow(n, map) ==
  /\ Room(n, 1)
  /\ Did(InsertOne(Now, n, map), [op |-> "insert", table |-> n, rows |-> <<map>>])
  /\ UNCHANGED <<saved, replaced>>

Update(n, clause, cells) ==
  /\ Did(UpdateWhere(Now, n, clause, cells),
         [op |-> "update", table |-> n, clause |-> clause, cells |-> cells])
  /\ UNCHANGED <<saved, replaced>>

DeleteRows(n, clause) ==
  /\ Did(DeleteWhere(Now, n, clause), [op |-> "delete", table |-> n, clause |-> clause])
  /\ UNCHANGED <<saved, replaced>>

Select(n, clause) ==
  LET e == SelectWhere(Now, n, clause)
  IN  /\ Did(e, [op |-> "select", table |-> n, clause |-> clause,
                 found |-> Returned(e.tables[n], clause)])
      /\ UNCHANGED <<saved, replaced>>

\* The arguments of a batch, as what is asked of the relation.
Cells(columns, row) ==
  [c \in {columns[i] : i \in 1 .. Min({Len(columns), Len(row)})} |->
     row[SelectLastInSubSeq(columns, 1, Min({Len(columns), Len(row)}), LAMBDA d : d = c)]]

Asked(stmt, rows) ==
  IF stmt.op = "insert"
  THEN [op |-> "insert many", table |-> stmt.table,
        rows |-> [i \in DOMAIN rows |-> Cells(stmt.columns, rows[i])]]
  ELSE [op |-> "update each", table |-> stmt.table,
        changes |-> [i \in DOMAIN Changes(stmt, rows) |->
          LET change == Changes(stmt, rows)[i]
          IN  [id |-> change.id, cells |-> [c \in {change.column} |-> change.value]]]]

\* runBatch of the N-API, with an executor of its own.  A row without its id
\* and a column that is not there are a panic on the fast path of UPDATE.
RunBatch(stmt, flat) ==
  LET rows == Chunks(flat, Placeholders(stmt))
  IN  /\ stmt.op = "insert" => Room(stmt.table, Len(rows))
      /\ stmt.op = "update" =>
           /\ Len(flat) % Placeholders(stmt) = 0
           /\ Lives(stmt.table) => stmt.column \in ColumnNames(tables[stmt.table])
      /\ Did([RunRows(Fresh, stmt, rows) EXCEPT !.populated = populated], Asked(stmt, rows))
      /\ UNCHANGED <<saved, replaced>>

\* INSERT of several rows, each with a value for every column it names.
InsertRows(stmt, flat) ==
  LET rows == Chunks(flat, Placeholders(stmt))
  IN  /\ stmt.op = "insert" /\ Len(rows) > 1 /\ Len(flat) % Placeholders(stmt) = 0
      /\ Room(stmt.table, Len(rows))
      /\ Did(InsertMany(Now, stmt.table, stmt.columns, rows), Asked(stmt, rows))
      /\ UNCHANGED <<saved, replaced>>

\* A call of the N-API and a new SqlExecutor start with an empty list.
NewExecutor ==
  /\ populated' = {} /\ replaced' = {}
  /\ UNCHANGED <<tables, saved, call>>

\* Bounds: one transaction object, of a database with at most MaxSaved rows.
BeginTransaction ==
  /\ saved = NoTransaction /\ Cardinality(RowsNow) <= MaxSaved
  /\ saved' = Snapshot(tables)
  /\ call' = [op |-> "begin", answer |-> "ok"]
  /\ UNCHANGED <<tables, populated, replaced>>

\* commit of the N-API leaves the object as it is.
Commit ==
  /\ saved # NoTransaction
  /\ call' = [op |-> "commit", answer |-> "ok"]
  /\ UNCHANGED state

\* The tables of the snapshot are put back over those of their names.
Restored(ts) == [n \in Names |-> IF ts[n].exists THEN ts[n] ELSE tables[n]]

\* rollback of the N-API may be called again, and after commit.
Rollback ==
  /\ saved # NoTransaction
  /\ tables' = Restored(saved.tables)
  /\ replaced' = replaced \cup {n \in populated : saved.tables[n].exists}
  /\ call' = [op |-> "rollback", answer |-> "ok"]
  /\ UNCHANGED <<populated, saved>>

Next ==
  \/ \E n \in Names :
       \/ \E columns \in Schemas : Create(n, columns)
       \/ DropTable(n)
       \/ \E column \in Extras : AddColumn(n, column)
       \/ \E map \in Inserted : InsertRow(n, map)
       \/ \E clause \in Clauses \cup {NoClause} :
            \/ DeleteRows(n, clause) \/ Select(n, clause)
            \/ \E cells \in Assignments : Update(n, clause, cells)
  \/ \E stmt \in Prepared, flat \in FlatParams : InsertRows(stmt, flat) \/ RunBatch(stmt, flat)
  \/ NewExecutor \/ BeginTransaction \/ Commit \/ Rollback

Spec == Init /\ [][Next]_vars

-----------------------------------------------------------------------------
(* Properties *)

CellAdmitted(t, p, i) == Cell(t, p, i) \in t.columns[i].admits

AllAdmitted(ts) ==
  \A n \in Names : ts[n].exists =>
    \A p \in Rows(ts[n]), i \in 1 .. Width(ts[n]) : CellAdmitted(ts[n], p, i)

NamesDiffer(table) == Cardinality(ColumnNames(table)) = Width(table)

\* The relation a table stands for.
AsRelation(t) ==
  IF ~t.exists THEN NoTable
  ELSE [exists  |-> TRUE,
        columns |-> ColumnNames(t),
        rows    |-> [id \in Range(t.ids) |-> RowMap(t, CHOOSE p \in Rows(t) : t.ids[p] = id)],
        next    |-> t.nextId]

AsRelations(ts) == [n \in Names |-> AsRelation(ts[n])]

Abstract ==
  INSTANCE Relations WITH
    relations <- AsRelations(tables),
    saved     <- IF saved.taken THEN [taken |-> TRUE, relations |-> AsRelations(saved.tables)]
                                ELSE saved

\* Every call does to the rows what Relations promises of it, and to no other
\* row: the blocks that ALTER copies and DELETE moves, the columns that are
\* found by name, the ids given away again after a rollback.
Refinement == Abstract!Spec

\* The rows of an array that has a value for every placeholder of each.
WholeRows(flat, size) ==
  [i \in 1 .. Len(flat) \div size |-> SubSeq(flat, (i - 1) * size + 1, i * size)]

\* The statement is run once for each row.
RunEach(e, stmt, rows) ==
  LET run[k \in 0 .. Len(rows)] ==
        IF k = 0 THEN e ELSE RunOnce(run[k - 1], stmt, rows[k])
  IN  run[Len(rows)]

\* Every value a batch of UPDATE writes is one its column admits.  Of two changes
\* of one cell the table only shows the later, and the statement that is run for
\* each row is refused at the first.
AllWritten(stmt, t, rows) ==
  stmt.op = "update" =>
    \A r \in DOMAIN rows : rows[r][1] \in t.columns[ColumnIndex(t, stmt.column)].admits

\* The column id, if the table declares one, has the ids the table gave, and is not
\* the column that changes.
IdsAsGiven(t, column) ==
  DeclaresId(t) => /\ column # "id"
                   /\ \A p \in Rows(t) : Cell(t, p, ColumnIndex(t, "id")) = t.ids[p]

\* A batch leaves the table it would leave if the statement were run once per
\* row, when it is accepted, every row is whole, every cell and every value that
\* is written admitted and no column hidden by a later one of its name: a hidden
\* column that is NOT NULL makes every INSERT and UPDATE of one row an error.
\* UPDATE .. WHERE id = ? of a table with a column id goes by that column when it
\* is run, and by the ids the table gave in a batch: they are the same rows as
\* long as IdsAsGiven holds.
BatchIsSequence ==
  [][\A stmt \in Prepared, flat \in FlatParams :
       call'.op \in {"insert many", "update each"} /\ RunBatch(stmt, flat) =>
         LET size == Placeholders(stmt)
             rows == WholeRows(flat, size)
         IN  /\ call'.answer = "ok" /\ Len(flat) % size = 0
             /\ AllAdmitted(tables') /\ NamesDiffer(tables[stmt.table])
             /\ AllWritten(stmt, tables[stmt.table], rows)
             /\ (stmt.op = "update" => IdsAsGiven(tables[stmt.table], stmt.column))
             => AsRelations(tables') = AsRelations(RunEach(Fresh, stmt, rows).tables)]_vars

\* An UPDATE whose rows all admit their new cells reaches every one of them,
\* unless the table was replaced behind the executor's list.
UpdateReaches ==
  [][\A n \in Names, clause \in Clauses \cup {NoClause}, cells \in Assignments :
       /\ call'.op = "update" /\ Lives(n) /\ n \notin replaced
       /\ \A p \in Found(tables[n], clause) :
            Admitted(tables[n], Merged(cells, RowMap(tables[n], p)))
       /\ Update(n, clause, cells)
       => call'.answer = "ok"]_vars

\* INSERT of one row, UPDATE and ALTER TABLE put no cell into a column that
\* does not admit it; INSERT of several rows and batches do.
StatementsAdmit ==
  [][AllAdmitted(tables) /\ call'.op \in {"insert", "update", "alter"}
     => AllAdmitted(tables')]_vars

=============================================================================
