------------------------------ MODULE TableOps ------------------------------
(***************************************************************************)
(* The operations of `Table` (src/core/table.rs) as pure operators on a    *)
(* table record.  A row position p of the code (0-based) is p + 1 here, so *)
(* that 0 can stand for "no entry" in the three position maps.             *)
(*                                                                         *)
(*   ids, data, versions   the parallel vectors, one element per row       *)
(*   idMap                 id_map: position of an id, 0 when absent        *)
(*   nextId                next_int_id, the next automatic id              *)
(*   sequential            is_sequential_ids: while TRUE the code finds    *)
(*                         row i by position i and leaves id_map empty     *)
(*   indexes               per column, the Index struct or kind "none"     *)
(*                                                                         *)
(* The posting list `Vec<Id>` of a non-unique index is kept as a bag: how  *)
(* often an id occurs in it; the order of its elements is left out.        *)
(***************************************************************************)
EXTENDS Naturals, Sequences, FiniteSets

CONSTANTS
  Cols,       \* the columns of the schema
  Values,     \* the cell values
  BadRow,     \* a row argument the operation rejects (arity or type)
  CustomIds,  \* the ids callers may pass to insert; integers or names
  AutoLimit   \* automatic ids are 0 .. AutoLimit - 1 (u64 in the code)

ASSUME AutoLimitAssumption == AutoLimit \in Nat

Id == (0 .. AutoLimit - 1) \cup CustomIds

Row == [Cols -> Values]

ASSUME BadRowAssumption == BadRow \notin Row

Index == [kind    : {"none", "plain", "unique"},
          posting : [Values -> [Id -> Nat]],
          uniq    : [Values -> Nat]]

TableRecord == [ids        : Seq(Id),
                data       : Seq(Row),
                versions   : Seq(Nat),
                idMap      : [Id -> Nat],
                nextId     : Nat,
                sequential : BOOLEAN,
                indexes    : [Cols -> Index]]

\* The vectors of the code keep one length.
Aligned(t) == Len(t.data) = Len(t.ids) /\ Len(t.versions) = Len(t.ids)

NoIndex == [kind    |-> "none",
            posting |-> [v \in Values |-> [x \in Id |-> 0]],
            uniq    |-> [v \in Values |-> 0]]

EmptyTable == [ids        |-> <<>>,
               data       |-> <<>>,
               versions   |-> <<>>,
               idMap      |-> [x \in Id |-> 0],
               nextId     |-> 0,
               sequential |-> TRUE,
               indexes    |-> [c \in Cols |-> NoIndex]]

Positions(t) == 1 .. Len(t.ids)

-----------------------------------------------------------------------------
(* Lookups *)

\* get_index: the fast path compares the id it finds, the other asks id_map.
GetIndex(t, id) ==
  IF /\ t.sequential
     /\ id \in Nat
     /\ id < Len(t.ids)
     /\ t.ids[id + 1] = id
  THEN id + 1
  ELSE t.idMap[id]

\* get: the fast path does not compare the id.
Get(t, id) ==
  IF t.sequential /\ id \in Nat /\ id < Len(t.ids)
  THEN id + 1
  ELSE t.idMap[id]

\* find_by_column without an index: the positions that hold v.
Scan(t, c, v) == {p \in Positions(t) : t.data[p][c] = v}

\* find_by_column through the index of column c: unique_map gives one
\* position, unchecked; a posting list gives the rows its ids still resolve to.
Lookup(t, c, v) ==
  LET ix == t.indexes[c]
      Hits(id) == IF ix.posting[v][id] > 0 THEN {Get(t, id)} ELSE {}
  IN  (IF ix.kind = "unique" THEN {ix.uniq[v]} ELSE UNION {Hits(id) : id \in Id})
        \ {0}

-----------------------------------------------------------------------------
(* Helpers of the mutators *)

\* The largest element of a non-empty set of positions: the last writer wins
\* when a loop inserts several positions under one key.
LastPosition(S) == CHOOSE p \in S : \A q \in S : q <= p

\* The loop that fills id_map when a table stops being sequential.
FillIdMap(t) ==
  LET At(id) == {p \in Positions(t) : t.ids[p] = id}
  IN  [t EXCEPT !.sequential = FALSE,
                !.idMap = [id \in Id |-> IF At(id) = {} THEN t.idMap[id]
                                                        ELSE LastPosition(At(id))]]

\* Mutant: the mode is not left.
StaySequential(t) == t

LeaveSequential(t) == IF t.sequential THEN FillIdMap(t) ELSE t

\* One index after the rows rows[i] with ids newIds[i] were put at positions
\* n + 1, n + 2, ...  The loops that look at is_unique are called with the kinds
\* {"unique"}, those of insert_batch and insert_batch_raw, which always use
\* `map`, with {}.
IndexAppend(ix, c, n, newIds, rows, uniqueKinds) ==
  LET With(v) == {i \in 1 .. Len(rows) : rows[i][c] = v}
      Pushed(v, id) == \E i \in With(v) : newIds[i] = id
  IN  CASE ix.kind = "none" -> ix
        [] ix.kind \in uniqueKinds ->
             [ix EXCEPT !.uniq =
                [v \in Values |-> IF With(v) = {} THEN ix.uniq[v]
                                                  ELSE n + LastPosition(With(v))]]
        [] OTHER ->
             [ix EXCEPT !.posting =
                [v \in Values |-> [id \in Id |->
                   ix.posting[v][id] + (IF Pushed(v, id) THEN 1 ELSE 0)]]]

\* Extending the vectors, id_map and the indexes by some rows.
AppendRows(t, newIds, rows, uniqueKinds) ==
  LET n == Len(t.ids)
      New(id) == {i \in 1 .. Len(newIds) : newIds[i] = id}
  IN  [t EXCEPT
        !.ids      = @ \o newIds,
        !.data     = @ \o rows,
        !.versions = @ \o [i \in 1 .. Len(rows) |-> 1],
        !.idMap    = IF t.sequential THEN @
                     ELSE [id \in Id |-> IF New(id) = {} THEN t.idMap[id]
                                                         ELSE n + LastPosition(New(id))],
        !.indexes  = [c \in Cols |-> IndexAppend(t.indexes[c], c, n, newIds,
                                                 rows, uniqueKinds)]]

\* The next k automatic ids.
FreshIds(t, k) == [i \in 1 .. k |-> t.nextId + i - 1]

AppendAuto(t, rows, uniqueKinds) ==
  [AppendRows(t, FreshIds(t, Len(rows)), rows, uniqueKinds)
     EXCEPT !.nextId = t.nextId + Len(rows)]

\* The rows a batch loop inserts before the first one it rejects.
AcceptedPrefix(batch) ==
  LET bad == {i \in 1 .. Len(batch) : batch[i] = BadRow}
  IN  IF bad = {} THEN batch
      ELSE SubSeq(batch, 1, (CHOOSE i \in bad : \A j \in bad : i <= j) - 1)

\* Mutant: the id stays under the old value.
IndexUpdateKeepsOld(ix, id, old, new) ==
  IF ix.kind = "none" \/ old = new THEN ix
  ELSE [ix EXCEPT !.posting[new][id] = @ + 1]

\* The index part of update and update_values: `map` only, whatever the kind.
IndexUpdate(ix, id, old, new) ==
  LET dropped == [ix.posting EXCEPT ![old][id] = 0]
  IN  IF ix.kind = "none" \/ old = new THEN ix
      ELSE [ix EXCEPT !.posting = [dropped EXCEPT ![new][id] = @ + 1]]

WriteRow(t, p, id, row) ==
  [t EXCEPT !.data[p]     = row,
            !.versions[p] = @ + 1,
            !.indexes     = [c \in Cols |->
               IndexUpdate(t.indexes[c], id, t.data[p][c], row[c])]]

\* Vec::swap_remove: the last element takes the place of the removed one.
SwapRemove(s, p) ==
  [q \in 1 .. Len(s) - 1 |-> IF q = p THEN s[Len(s)] ELSE s[q]]

\* Mutant: the version vector is forgotten.
RemoveRowKeepsVersion(t, p, map) ==
  [t EXCEPT !.ids = SwapRemove(@, p), !.data = SwapRemove(@, p), !.idMap = map]

\* Mutant: the last block is cut off and not moved.
RemoveRowTruncates(t, p, map) ==
  [t EXCEPT !.ids      = SwapRemove(@, p),
            !.data     = SubSeq(@, 1, Len(@) - 1),
            !.versions = SwapRemove(@, p),
            !.idMap    = map]

\* The block of the last row is moved over the one of the removed row.
RemoveRow(t, p, map) ==
  [t EXCEPT !.ids      = SwapRemove(@, p),
            !.data     = SwapRemove(@, p),
            !.versions = SwapRemove(@, p),
            !.idMap    = map]

\* Mutant: the removed id stays in id_map.
UnmappedKeepsId(t, id, p) ==
  IF p < Len(t.ids) THEN [t.idMap EXCEPT ![t.ids[Len(t.ids)]] = p] ELSE t.idMap

\* Mutant: the moved row keeps its old position.
UnmappedForgetsMove(t, id, p) == [t.idMap EXCEPT ![id] = 0]

\* id_map without id, and with the moved row at its new position.
Unmapped(t, id, p) ==
  LET removed == [t.idMap EXCEPT ![id] = 0]
      last == Len(t.ids)
  IN  IF p < last THEN [removed EXCEPT ![t.ids[last]] = p] ELSE removed

-----------------------------------------------------------------------------
(* The operations *)

\* Mutant: `map` whatever the kind of the index, as in insert_batch.
InsertIntoMap(t, row) == AppendAuto(t, <<row>>, {})

\* insert, no custom id; insert_batch_values, insert_values
Insert(t, row) == AppendAuto(t, <<row>>, {"unique"})
InsertBatchValues(t, batch) == AppendAuto(t, AcceptedPrefix(batch), {"unique"})

\* insert_batch and insert_batch_raw
InsertBatch(t, batch) == AppendAuto(t, AcceptedPrefix(batch), {})

\* The flat family checks the shape of the whole batch before it writes.
InsertBatchFlat(t, rows) == AppendAuto(t, rows, {"unique"})

\* insert with a custom id: the table leaves sequential mode even when the
\* id turns out to be a duplicate.
IsDuplicate(t, id) == LeaveSequential(t).idMap[id] # 0

InsertCustom(t, id, row) ==
  LET u == LeaveSequential(t)
  IN  IF IsDuplicate(t, id) THEN u ELSE AppendRows(u, <<id>>, <<row>>, {"unique"})

\* update_values finds its row with get_index, update with id_map alone.
UpdateValues(t, id, row) ==
  IF GetIndex(t, id) = 0 THEN t ELSE WriteRow(t, GetIndex(t, id), id, row)

Update(t, id, row) ==
  IF t.idMap[id] = 0 THEN t ELSE WriteRow(t, t.idMap[id], id, row)

\* Database::update_batch_by_indices, for one cell: no index, no version.
UpdateByIndices(t, id, c, v) ==
  IF GetIndex(t, id) = 0 THEN t
  ELSE [t EXCEPT !.data[GetIndex(t, id)][c] = v]

\* update_batch_i64 of the N-API: reads the row at the position that equals the
\* id, whatever the mode, and writes it back under the id with a new cell.
UpdateBatchCell(t, id, c, v) ==
  IF id < Len(t.ids)
  THEN UpdateValues(t, id, [t.data[id + 1] EXCEPT ![c] = v]) ELSE t

\* delete: the indexes are not touched.
Delete(t, id) ==
  LET p == GetIndex(t, id)
      u == LeaveSequential(t)
  IN  IF p = 0 THEN t ELSE RemoveRow(u, p, Unmapped(u, id, p))

\* create_index / create_unique_index: replaces the column's index.
CreateIndex(t, c, kind) ==
  LET At(v, id) == {p \in Scan(t, c, v) : t.ids[p] = id}
      ix == [kind    |-> kind,
             posting |-> IF kind = "plain"
                         THEN [v \in Values |-> [id \in Id |-> Cardinality(At(v, id))]]
                         ELSE NoIndex.posting,
             uniq    |-> IF kind = "unique"
                         THEN [v \in Values |-> IF Scan(t, c, v) = {} THEN 0
                                                ELSE LastPosition(Scan(t, c, v))]
                         ELSE NoIndex.uniq]
  IN  [t EXCEPT !.indexes[c] = ix]

=============================================================================
