------------------------------- MODULE Table -------------------------------
(***************************************************************************)
(* One table of src/core/table.rs under the calls a client may make.       *)
(*                                                                         *)
(* Every public operation runs under the table's write lock, so one call   *)
(* is one step.  `Calls` says which entry points the clients use and       *)
(* `IndexKinds` which indexes they create: the properties that hold for    *)
(* some uses only name the restriction they need.                          *)
(***************************************************************************)
EXTENDS TableOps

CONSTANTS
  Calls,       \* subset of AllCalls: the entry points the clients use
  IndexKinds,  \* subset of {"plain", "unique"}: the indexes they create
  IndexCols,   \* the columns they create them on
  CellCols,    \* the columns they write with update_batch_by_indices
  CellsBehindIndexes,  \* whether they do so when the column has an index
  MaxRows,     \* bound: rows in the table
  MaxBatch,    \* bound: rows in one batch
  MaxVersion   \* bound: the version of a row

AllCalls == {"insert", "insert_batch", "insert_batch_values", "insert_flat",
             "insert_custom", "update_values", "update",
             "update_by_indices", "update_batch", "delete", "create_index", "fill_id_map"}

ASSUME CallsAssumption == Calls \subseteq AllCalls
ASSUME IndexKindsAssumption == IndexKinds \subseteq {"plain", "unique"}
ASSUME ColsAssumption == IndexCols \subseteq Cols /\ CellCols \subseteq Cols

VARIABLE table

RowArg == Row \cup {BadRow}

Init == table = EmptyTable

\* Room for k more rows (MaxRows) and for k more automatic ids (the u64).
Room(k) == /\ Len(table.ids) + k <= MaxRows
           /\ table.nextId + k <= AutoLimit

InsertRow(row) ==
  /\ "insert" \in Calls
  /\ Room(1)
  /\ table' = Insert(table, row)

InsertBatchRows(batch) ==
  /\ "insert_batch" \in Calls
  /\ Room(Len(batch))
  /\ table' = InsertBatch(table, batch)

InsertBatchOfValues(batch) ==
  /\ "insert_batch_values" \in Calls
  /\ Room(Len(batch))
  /\ table' = InsertBatchValues(table, batch)

InsertFlat(rows) ==
  /\ "insert_flat" \in Calls
  /\ Room(Len(rows))
  /\ table' = InsertBatchFlat(table, rows)

InsertWithId(id, row) ==
  /\ "insert_custom" \in Calls
  /\ Len(table.ids) < MaxRows
  /\ table' = InsertCustom(table, id, row)

Versioned(p) == p # 0 => table.versions[p] < MaxVersion

UpdateRowValues(id, row) ==
  /\ "update_values" \in Calls
  /\ Versioned(GetIndex(table, id))
  /\ table' = UpdateValues(table, id, row)

UpdateRow(id, row) ==
  /\ "update" \in Calls
  /\ Versioned(table.idMap[id])
  /\ table' = Update(table, id, row)

UpdateCell(id, c, v) ==
  /\ "update_by_indices" \in Calls
  /\ table.indexes[c].kind # "none" => CellsBehindIndexes
  /\ table' = UpdateByIndices(table, id, c, v)

UpdateBatch(id, c, v) ==
  /\ "update_batch" \in Calls
  /\ Versioned(GetIndex(table, id))
  /\ table' = UpdateBatchCell(table, id, c, v)

DeleteRow(id) ==
  /\ "delete" \in Calls
  /\ table' = Delete(table, id)

MakeIndex(c, kind) ==
  /\ "create_index" \in Calls
  /\ table' = CreateIndex(table, c, kind)

\* populate_id_map_once of the SQL executor
PopulateIdMap ==
  /\ "fill_id_map" \in Calls
  /\ table' = LeaveSequential(table)

Batches(S) == UNION {[1 .. k -> S] : k \in 1 .. MaxBatch}

Next ==
  \/ \E row \in Row : InsertRow(row)
  \/ \E batch \in Batches(RowArg) : InsertBatchRows(batch)
  \/ \E batch \in Batches(RowArg) : InsertBatchOfValues(batch)
  \/ \E rows \in Batches(Row) : InsertFlat(rows)
  \/ \E id \in CustomIds, row \in Row : InsertWithId(id, row)
  \/ \E id \in Id, row \in Row : UpdateRowValues(id, row)
  \/ \E id \in Id, row \in Row : UpdateRow(id, row)
  \/ \E id \in Id, c \in CellCols, v \in Values : UpdateCell(id, c, v)
  \/ \E id \in Id \cap Nat, c \in Cols, v \in Values : UpdateBatch(id, c, v)
  \/ \E id \in Id : DeleteRow(id)
  \/ \E c \in IndexCols, kind \in IndexKinds : MakeIndex(c, kind)
  \/ PopulateIdMap

Spec == Init /\ [][Next]_table

-----------------------------------------------------------------------------
(* Properties *)

\* The parallel vectors and the maps keep their types and their lengths.
TypeOK == table \in TableRecord /\ Aligned(table)

\* A sequential table has the ids 0, 1, 2, ... in place and an empty id_map,
\* which is what the position-is-the-id fast paths rely on.
SequentialIsDense ==
  table.sequential =>
    /\ table.nextId = Len(table.ids)
    /\ \A p \in Positions(table) : table.ids[p] = p - 1
    /\ \A id \in Id : table.idMap[id] = 0

\* Whatever ids clients choose, an id_map entry points at a row with that id:
\* swap_remove and the id_map repair of delete never leave it dangling.
IdMapSound ==
  \A id \in Id : table.idMap[id] # 0 =>
    /\ table.idMap[id] \in Positions(table)
    /\ table.ids[table.idMap[id]] = id

\* get, whose fast path does not compare ids, answers like get_index.
GetAgrees == \A id \in Id : Get(table, id) = GetIndex(table, id)

\* The integers among the ids that clients choose; the table may give them
\* away as well, and then two rows share one.
Contested == CustomIds \cap Nat

\* Every other row is the one its id finds, so its id is its own.
RowsReachable ==
  \A p \in Positions(table) :
    table.ids[p] \notin Contested => GetIndex(table, table.ids[p]) = p

\* A non-unique index lists a row with an automatic id once under the value it
\* has and under no other, as a scan would, in spite of the stale ids delete
\* leaves in the posting lists: clients must not write indexed columns with
\* update_batch_by_indices, and a name that is used again may be found under
\* the values of its earlier row.
PlainIndexExact ==
  ~CellsBehindIndexes =>
    \A c \in Cols, v \in Values, p \in Positions(table) :
      LET id == table.ids[p]
      IN  table.indexes[c].kind = "plain" /\ id \in Nat \ Contested =>
            /\ p \in Lookup(table, c, v) <=> p \in Scan(table, c, v)
            /\ table.indexes[c].posting[v][id] <= 1

\* The docs: a find through an index returns rows that hold the value.
FindByColumnCorrect ==
  \A c \in Cols : table.indexes[c].kind # "none" =>
    \A v \in Values : Lookup(table, c, v) \subseteq Scan(table, c, v)

-----------------------------------------------------------------------------
(* The table implements RowStore. *)

\* The ids RowStore speaks of, and what a table has under them.
Promised == Id \ Contested

With(t, id) == {p \in Positions(t) : t.ids[p] = id}

Stored(t, id) ==
  IF With(t, id) = {} THEN [live |-> FALSE]
  ELSE LET p == LastPosition(With(t, id))
       IN  [live |-> TRUE, row |-> t.data[p], version |-> t.versions[p]]

StoredRows(t) == [id \in Promised |-> Stored(t, id)]

Abs == INSTANCE RowStore WITH
  Id <- Promised, rows <- StoredRows(table), next <- table.nextId

Refinement == Abs!Spec

=============================================================================
