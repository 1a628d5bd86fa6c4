---------------------------- MODULE TableProofs ----------------------------
(***************************************************************************)
(* Safety of one table for all schemas, ids, bounds and calls.  NextInv    *)
(* puts the lemmas of TableOpsProofs together, one case per action, and    *)
(* the theorems read the properties off the invariant.  At the end: a      *)
(* table implements RowStore.                                              *)
(***************************************************************************)
EXTENDS Table, TableOpsProofs

\* A new table satisfies Inv.
LEMMA InitInv == Init => Inv(table)
BY EmptyInv DEF Init

\* The row that update_batch_i64 writes back is well typed, whichever it read.
LEMMA UpdateBatchRow ==
  ASSUME NEW t, Inv(t), NEW id \in Id \cap Nat, NEW c \in Cols, NEW v \in Values
  PROVE  \/ UpdateBatchCell(t, id, c, v) = t
         \/ \E row \in Row : UpdateBatchCell(t, id, c, v) = UpdateValues(t, id, row)
<1>1. CASE id < Len(t.ids)
  <2>1. id + 1 \in Positions(t)
    BY <1>1, Fields
  <2>2. t.data[id + 1] \in Row
    BY <2>1, Fields
  <2>3. [t.data[id + 1] EXCEPT ![c] = v] \in Row
    BY <2>2 DEF Row
  <2> QED BY <1>1, <2>3 DEF UpdateBatchCell
<1>2. CASE ~(id < Len(t.ids))
  BY <1>2 DEF UpdateBatchCell
<1> QED BY <1>1, <1>2

\* What the batch calls append.
LEMMA BatchRows ==
  ASSUME Inv(table), NEW k \in 1 .. MaxBatch, NEW batch \in [1 .. k -> RowArg], Room(Len(batch))
  PROVE  /\ AcceptedPrefix(batch) \in Seq(Row)
         /\ table.nextId + Len(AcceptedPrefix(batch)) <= AutoLimit
<1>1. k \in Nat /\ Len(batch) = k
  BY LenProperties, IsASeq
<1>2. /\ AcceptedPrefix(batch) \in Seq(Row)
      /\ Len(AcceptedPrefix(batch)) <= k
      /\ Len(AcceptedPrefix(batch)) \in Nat
  BY <1>1, AcceptedPrefixType, LenProperties DEF RowArg
<1>3. table.nextId + k <= AutoLimit /\ table.nextId \in Nat /\ AutoLimit \in Nat
  BY <1>1, Fields, AutoLimitAssumption DEF Room
<1> QED BY <1>1, <1>2, <1>3

\* Every step preserves Inv; one case per action.
LEMMA NextInv ==
  ASSUME Inv(table), [Next]_table
  PROVE  Inv(table')
<1>1. table.nextId \in Nat /\ AutoLimit \in Nat
  BY AutoLimitAssumption DEF Inv, Good, TableRecord
<1>2. ASSUME NEW row \in Row, InsertRow(row)
      PROVE  Inv(table')
  <2>1. <<row>> \in Seq(Row) /\ Len(<<row>>) = 1
    OBVIOUS
  <2>2. table.nextId + 1 <= AutoLimit
    BY <1>2 DEF InsertRow, Room
  <2>3. Inv(AppendAuto(table, <<row>>, {"unique"}))
    BY <2>1, <2>2, AppendAutoInv
  <2> QED BY <1>2, <2>3 DEF InsertRow, Insert
<1>3. ASSUME NEW k \in 1 .. MaxBatch, NEW batch \in [1 .. k -> RowArg],
             InsertBatchRows(batch) \/ InsertBatchOfValues(batch)
      PROVE  Inv(table')
  <2>1. /\ AcceptedPrefix(batch) \in Seq(Row)
        /\ table.nextId + Len(AcceptedPrefix(batch)) <= AutoLimit
    BY <1>3, BatchRows DEF InsertBatchRows, InsertBatchOfValues
  <2>2. /\ Inv(AppendAuto(table, AcceptedPrefix(batch), {"unique"}))
        /\ Inv(AppendAuto(table, AcceptedPrefix(batch), {}))
    BY <2>1, AppendAutoInv
  <2> QED
    BY <1>3, <2>2 DEF InsertBatchRows, InsertBatchOfValues, InsertBatch,
                      InsertBatchValues
<1>4. ASSUME NEW k \in 1 .. MaxBatch, NEW rows \in [1 .. k -> Row],
             InsertFlat(rows)
      PROVE  Inv(table')
  <2>1. k \in Nat /\ Len(rows) = k /\ rows \in Seq(Row)
    BY LenProperties, IsASeq
  <2>2. table.nextId + Len(rows) <= AutoLimit
    BY <1>4 DEF InsertFlat, Room
  <2>3. Inv(AppendAuto(table, rows, {"unique"}))
    BY <2>1, <2>2, AppendAutoInv
  <2> QED BY <1>4, <2>3 DEF InsertFlat, InsertBatchFlat
<1>5. ASSUME NEW id \in CustomIds, NEW row \in Row, InsertWithId(id, row)
      PROVE  Inv(table')
  BY <1>5, InsertCustomInv DEF InsertWithId, Id
<1>6. ASSUME NEW id \in Id, NEW row \in Row,
             UpdateRowValues(id, row) \/ UpdateRow(id, row)
      PROVE  Inv(table')
  BY <1>6, UpdateInv DEF UpdateRowValues, UpdateRow
<1>7. ASSUME NEW id \in Id, NEW c \in CellCols, NEW v \in Values, UpdateCell(id, c, v)
      PROVE  Inv(table')
  BY <1>7, UpdateByIndicesInv, ColsAssumption DEF UpdateCell
<1>8. ASSUME NEW id \in Id, DeleteRow(id)
      PROVE  Inv(table')
  BY <1>8, DeleteInv DEF DeleteRow
<1>9. ASSUME NEW c \in IndexCols, NEW kind \in IndexKinds, MakeIndex(c, kind)
      PROVE  Inv(table')
  BY <1>9, CreateIndexInv, IndexKindsAssumption, ColsAssumption DEF MakeIndex
<1>10. ASSUME PopulateIdMap
       PROVE  Inv(table')
  BY <1>10, LeaveSequentialInv DEF PopulateIdMap
<1>11. ASSUME NEW id \in Id \cap Nat, NEW c \in Cols, NEW v \in Values,
              UpdateBatch(id, c, v)
       PROVE  Inv(table')
  <2>1. \/ table' = table
        \/ \E row \in Row : table' = UpdateValues(table, id, row)
    BY <1>11, UpdateBatchRow DEF UpdateBatch
  <2> QED BY <2>1, UpdateInv
<1>12. CASE UNCHANGED table
  BY <1>12
<1> QED
  BY <1>2, <1>3, <1>4, <1>5, <1>6, <1>7, <1>8, <1>9, <1>10, <1>11, <1>12
     DEF Next, Batches

\* Inv holds in every reachable state of a table, whatever its clients call.
THEOREM Invariance == Spec => []Inv(table)
<1>1. Inv(table) /\ [Next]_table => Inv(table)'
  BY NextInv
<1> QED BY InitInv, <1>1, PTL DEF Spec

\* The vectors of a table keep one length and their types (table.rs:73-99).
THEOREM TypeCorrect == Spec => []TypeOK
<1>1. Inv(table) => TypeOK
  BY DEF Inv, Good, TypeOK
<1> QED BY Invariance, <1>1, PTL

\* While is_sequential_ids is set, row i has id i, whatever was called.
THEOREM SequentialTablesAreDense == Spec => []SequentialIsDense
<1>1. Inv(table) => SequentialIsDense
  BY DEF Inv, Dense, SequentialIsDense
<1> QED BY Invariance, <1>1, PTL

\* No id_map entry dangles, whatever custom ids the callers choose.
THEOREM IdMapNeverDangles == Spec => []IdMapSound
<1>1. Inv(table) => IdMapSound
  BY DEF Inv, Sound, IdMapSound
<1> QED BY Invariance, <1>1, PTL

\* The unchecked fast path of get is safe: it answers as get_index does.
THEOREM FastPathSafe == Spec => []GetAgrees
<1>1. Inv(table) => GetAgrees
  BY GetIndexFinds DEF GetAgrees
<1> QED BY Invariance, <1>1, PTL

-----------------------------------------------------------------------------
(* Rows under their ids, and in the indexes *)

\* Every step keeps the uncontested rows owned; one case per kind of action.
LEMMA NextOwned ==
  ASSUME Inv(table), Owned(table, Contested), [Next]_table
  PROVE  Owned(table', Contested)
<1>1. ASSUME NEW row \in Row, InsertRow(row)
      PROVE  Owned(table', Contested)
  <2>1. <<row>> \in Seq(Row) /\ table.nextId + Len(<<row>>) <= AutoLimit
    BY <1>1 DEF InsertRow, Room
  <2> QED BY <1>1, <2>1, AppendAutoOwned DEF InsertRow, Insert
<1>2. ASSUME NEW k \in 1 .. MaxBatch, NEW batch \in [1 .. k -> RowArg],
             InsertBatchRows(batch) \/ InsertBatchOfValues(batch)
      PROVE  Owned(table', Contested)
  <2>1. /\ AcceptedPrefix(batch) \in Seq(Row)
        /\ table.nextId + Len(AcceptedPrefix(batch)) <= AutoLimit
    BY <1>2, BatchRows DEF InsertBatchRows, InsertBatchOfValues
  <2> QED BY <1>2, <2>1, AppendAutoOwned
          DEF InsertBatchRows, InsertBatchOfValues, InsertBatch, InsertBatchValues
<1>3. ASSUME NEW k \in 1 .. MaxBatch, NEW rows \in [1 .. k -> Row], InsertFlat(rows)
      PROVE  Owned(table', Contested)
  <2>1. rows \in Seq(Row)
    BY IsASeq
  <2>2. table.nextId + Len(rows) <= AutoLimit
    BY <1>3 DEF InsertFlat, Room
  <2> QED BY <1>3, <2>1, <2>2, AppendAutoOwned DEF InsertFlat, InsertBatchFlat
<1>4. ASSUME NEW id \in CustomIds, NEW row \in Row, InsertWithId(id, row)
      PROVE  Owned(table', Contested)
  <2>1. CustomIds \cap Nat \subseteq Contested
    BY DEF Contested
  <2> QED BY <1>4, <2>1, InsertCustomOwned DEF InsertWithId
<1>5. ASSUME NEW id \in Id, NEW row \in Row, UpdateRowValues(id, row) \/ UpdateRow(id, row)
      PROVE  Owned(table', Contested)
  BY <1>5, UpdateOwned DEF UpdateRowValues, UpdateRow
<1>6. ASSUME NEW id \in Id, NEW c \in CellCols, NEW v \in Values, UpdateCell(id, c, v)
      PROVE  Owned(table', Contested)
  BY <1>6, UpdateByIndicesOwned DEF UpdateCell
<1>7. ASSUME NEW id \in Id \cap Nat, NEW c \in Cols, NEW v \in Values, UpdateBatch(id, c, v)
      PROVE  Owned(table', Contested)
  <2>1. \/ table' = table
        \/ \E row \in Row : table' = UpdateValues(table, id, row)
    BY <1>7, UpdateBatchRow DEF UpdateBatch
  <2> QED BY <2>1, UpdateOwned
<1>8. ASSUME NEW id \in Id, DeleteRow(id)
      PROVE  Owned(table', Contested)
  BY <1>8, DeleteOwned DEF DeleteRow
<1>9. ASSUME NEW c \in IndexCols, NEW kind \in IndexKinds, MakeIndex(c, kind)
      PROVE  Owned(table', Contested)
  BY <1>9, CreateIndexOwned DEF MakeIndex
<1>10. ASSUME PopulateIdMap
       PROVE  Owned(table', Contested)
  BY <1>10, LeaveSequentialOwned DEF PopulateIdMap
<1> QED BY <1>1, <1>2, <1>3, <1>4, <1>5, <1>6, <1>7, <1>8, <1>9, <1>10 DEF Next, Batches

\* And listed, while no cell is written behind an index.
LEMMA NextListed ==
  ASSUME Inv(table), Owned(table, Contested), ~CellsBehindIndexes,
         NEW c \in Cols, Listed(table, c, Contested), [Next]_table
  PROVE  Listed(table', c, Contested)
<1>0. "plain" \notin {"unique"} /\ "plain" \notin {}
  OBVIOUS
<1>1. ASSUME NEW row \in Row, InsertRow(row)
      PROVE  Listed(table', c, Contested)
  <2>1. <<row>> \in Seq(Row) /\ table.nextId + Len(<<row>>) <= AutoLimit
    BY <1>1 DEF InsertRow, Room
  <2> QED BY <1>0, <1>1, <2>1, AppendAutoListed DEF InsertRow, Insert
<1>2. ASSUME NEW k \in 1 .. MaxBatch, NEW batch \in [1 .. k -> RowArg],
             InsertBatchRows(batch) \/ InsertBatchOfValues(batch)
      PROVE  Listed(table', c, Contested)
  <2>1. /\ AcceptedPrefix(batch) \in Seq(Row)
        /\ table.nextId + Len(AcceptedPrefix(batch)) <= AutoLimit
    BY <1>2, BatchRows DEF InsertBatchRows, InsertBatchOfValues
  <2> QED BY <1>0, <1>2, <2>1, AppendAutoListed
          DEF InsertBatchRows, InsertBatchOfValues, InsertBatch, InsertBatchValues
<1>3. ASSUME NEW k \in 1 .. MaxBatch, NEW rows \in [1 .. k -> Row], InsertFlat(rows)
      PROVE  Listed(table', c, Contested)
  <2>1. rows \in Seq(Row)
    BY IsASeq
  <2>2. table.nextId + Len(rows) <= AutoLimit
    BY <1>3 DEF InsertFlat, Room
  <2> QED BY <1>0, <1>3, <2>1, <2>2, AppendAutoListed DEF InsertFlat, InsertBatchFlat
<1>4. ASSUME NEW id \in CustomIds, NEW row \in Row, InsertWithId(id, row)
      PROVE  Listed(table', c, Contested)
  <2>1. CustomIds \cap Nat \subseteq Contested
    BY DEF Contested
  <2> QED BY <1>4, <2>1, InsertCustomListed DEF InsertWithId
<1>5. ASSUME NEW id \in Id, NEW row \in Row, UpdateRowValues(id, row) \/ UpdateRow(id, row)
      PROVE  Listed(table', c, Contested)
  BY <1>5, UpdateListed DEF UpdateRowValues, UpdateRow
<1>6. ASSUME NEW id \in Id, NEW d \in CellCols, NEW v \in Values, UpdateCell(id, d, v)
      PROVE  Listed(table', c, Contested)
  <2>1. table.indexes[d].kind = "none" /\ d \in Cols
    BY <1>6, ColsAssumption DEF UpdateCell
  <2> QED BY <1>6, <2>1, UpdateByIndicesListed DEF UpdateCell
<1>7. ASSUME NEW id \in Id \cap Nat, NEW d \in Cols, NEW v \in Values, UpdateBatch(id, d, v)
      PROVE  Listed(table', c, Contested)
  <2>1. \/ table' = table
        \/ \E row \in Row : table' = UpdateValues(table, id, row)
    BY <1>7, UpdateBatchRow DEF UpdateBatch
  <2> QED BY <2>1, UpdateListed
<1>8. ASSUME NEW id \in Id, DeleteRow(id)
      PROVE  Listed(table', c, Contested)
  BY <1>8, DeleteListed DEF DeleteRow
<1>9. ASSUME NEW d \in IndexCols, NEW kind \in IndexKinds, MakeIndex(d, kind)
      PROVE  Listed(table', c, Contested)
  BY <1>9, CreateIndexListed, ColsAssumption DEF MakeIndex
<1>10. ASSUME PopulateIdMap
       PROVE  Listed(table', c, Contested)
  <2> DEFINE u == LeaveSequential(table)
  <2>1. /\ u.ids = table.ids /\ u.data = table.data /\ u.nextId = table.nextId
        /\ u.indexes = table.indexes
    BY LeaveSequentialInv
  <2> HIDE DEF u
  <2>2. Listed(u, c, Contested)
    BY <2>1, SameRowsListed
  <2> QED BY <1>10, <2>2 DEF PopulateIdMap, u
<1> QED BY <1>1, <1>2, <1>3, <1>4, <1>5, <1>6, <1>7, <1>8, <1>9, <1>10 DEF Next, Batches

\* The invariant of rows and plain indexes together.
IndexInv ==
  /\ Inv(table) /\ Owned(table, Contested)
  /\ ~CellsBehindIndexes => \A c \in Cols : Listed(table, c, Contested)

\* The invariant of the ids and posting lists holds of every table, whatever was called.
THEOREM IndexInvariance == Spec => []IndexInv
<1>1. Init => IndexInv
  BY InitInv, EmptyOwned, EmptyListed DEF IndexInv, Init
<1>2. IndexInv /\ [Next]_table => IndexInv'
  <2> SUFFICES ASSUME IndexInv, [Next]_table PROVE IndexInv'
    OBVIOUS
  <2>1. Inv(table') /\ Owned(table', Contested)
    BY NextInv, NextOwned DEF IndexInv
  <2>2. ~CellsBehindIndexes => \A c \in Cols : Listed(table', c, Contested)
    BY NextListed DEF IndexInv
  <2> QED BY <2>1, <2>2 DEF IndexInv
<1> QED BY <1>1, <1>2, PTL DEF Spec

\* Whatever ids clients choose and in whatever order rows come and go, a row
\* whose id is not contested is the one that its id finds.
THEOREM RowsStayReachable == Spec => []RowsReachable
<1>1. IndexInv => RowsReachable
  BY OwnedFound DEF IndexInv, RowsReachable
<1> QED BY IndexInvariance, <1>1, PTL

\* Although delete leaves its ids in the posting lists, a plain index answers
\* like a scan and lists no row twice.
THEOREM PlainIndexesExact == Spec => []PlainIndexExact
<1>1. IndexInv => PlainIndexExact
  <2> SUFFICES ASSUME IndexInv, ~CellsBehindIndexes,
                      NEW c \in Cols, NEW v \in Values, NEW p \in Positions(table),
                      table.indexes[c].kind = "plain", table.ids[p] \in Nat \ Contested
               PROVE  /\ p \in Lookup(table, c, v) <=> p \in Scan(table, c, v)
                      /\ table.indexes[c].posting[v][table.ids[p]] <= 1
    BY DEF PlainIndexExact
  <2>1. Listed(table, c, Contested) /\ Inv(table) /\ Owned(table, Contested)
    BY DEF IndexInv
  <2>2. table.ids[p] \in Id
    BY <2>1, Fields
  <2>3. table.indexes[c].posting[v][table.ids[p]] <= 1
    BY <2>1, <2>2 DEF Listed
  <2> QED BY <2>1, <2>3, ListedFinds
<1> QED BY IndexInvariance, <1>1, PTL

-----------------------------------------------------------------------------
(* A table implements RowStore.  The refinement mapping is well behaved    *)
(* because every uncontested row is owned (TableOpsProofs): it is the only *)
(* one with its id, so the row stored under the id is that one, wherever   *)
(* swap-remove has put it.                                                 *)

\* The row at an owned position is the one stored under its id.
LEMMA StoredHere ==
  ASSUME NEW t, Inv(t), Owned(t, Contested), NEW p \in Positions(t), t.ids[p] \notin Contested
  PROVE  Stored(t, t.ids[p]) = [live |-> TRUE, row |-> t.data[p], version |-> t.versions[p]]
<1>1. With(t, t.ids[p]) = {p}
  BY OwnedOnce DEF With
<1>2. LastPosition({p}) = p
  <2>1. Positions(t) \subseteq Nat
    BY Fields
  <2> QED BY <2>1 DEF LastPosition
<1> QED BY <1>1, <1>2 DEF Stored

\* Nothing is stored under an id no row has.
LEMMA StoredNowhere ==
  ASSUME NEW t, NEW id, \A p \in Positions(t) : t.ids[p] # id
  PROVE  Stored(t, id) = [live |-> FALSE]
<1>1. With(t, id) = {}
  BY DEF With
<1> QED BY <1>1 DEF Stored

\* Tables with the same rows store the same.
LEMMA SameRowsStored ==
  ASSUME NEW t, NEW u, u.ids = t.ids, u.data = t.data, u.versions = t.versions
  PROVE  StoredRows(u) = StoredRows(t)
BY DEF StoredRows, Stored, With, Positions

\* An id is stored wherever it has a row, and at its position.
LEMMA StoredCases ==
  ASSUME NEW t, Inv(t), Owned(t, Contested), NEW id \in Promised
  PROVE  \/ /\ \A p \in Positions(t) : t.ids[p] # id
            /\ Stored(t, id) = [live |-> FALSE]
         \/ \E p \in Positions(t) :
              /\ t.ids[p] = id
              /\ Stored(t, id) = [live |-> TRUE, row |-> t.data[p], version |-> t.versions[p]]
<1>1. CASE \A p \in Positions(t) : t.ids[p] # id
  BY <1>1, StoredNowhere
<1>2. CASE \E p \in Positions(t) : t.ids[p] = id
  <2>1. PICK p \in Positions(t) : t.ids[p] = id
    BY <1>2
  <2>2. t.ids[p] \notin Contested
    BY <2>1 DEF Promised
  <2> QED BY <2>1, <2>2, StoredHere
<1> QED BY <1>1, <1>2

\* An entry and its fields.
LEMMA EntryFields ==
  ASSUME NEW row, NEW version
  PROVE  LET e == [live |-> TRUE, row |-> row, version |-> version]
         IN  /\ e # [live |-> FALSE] /\ e.row = row /\ e.version = version
             /\ \A r : [e EXCEPT !.row = r] = [live |-> TRUE, row |-> r, version |-> version]
<1> DEFINE e == [live |-> TRUE, row |-> row, version |-> version]
<1>1. e.live = TRUE /\ e.row = row /\ e.version = version
  OBVIOUS
<1>2. [live |-> FALSE].live = FALSE
  OBVIOUS
<1>3. e # [live |-> FALSE]
  BY <1>1, <1>2
<1>4. ASSUME NEW r
      PROVE  [e EXCEPT !.row = r] = [live |-> TRUE, row |-> r, version |-> version]
  <2> DEFINE f == [live |-> TRUE, row |-> r, version |-> version]
             Entries == [live : {TRUE}, row : {row, r}, version : {version}]
  <2>1. e \in Entries /\ f \in Entries
    OBVIOUS
  <2>2. [e EXCEPT !.row = r] \in Entries
    <3> HIDE DEF e
    <3> QED BY <2>1
  <2>3. /\ [e EXCEPT !.row = r].live = f.live
        /\ [e EXCEPT !.row = r].row = f.row
        /\ [e EXCEPT !.row = r].version = f.version
    OBVIOUS
  <2>4. \A x \in Entries, y \in Entries :
          x.live = y.live /\ x.row = y.row /\ x.version = y.version => x = y
    OBVIOUS
  <2> HIDE DEF e, f, Entries
  <2>5. [e EXCEPT !.row = r] = f
    BY <2>1, <2>2, <2>3, <2>4
  <2> QED BY <2>5 DEF f, e
<1> QED BY <1>1, <1>3, <1>4

-----------------------------------------------------------------------------
(* The operations *)

\* Rows appended under ids that are new are what RowStore adds.
LEMMA AppendedStored ==
  ASSUME NEW t, Inv(t), Owned(t, Contested), NEW newIds \in Seq(Id), NEW rows, NEW kinds,
         NEW w, Inv(w), Owned(w, Contested), Appended(t, newIds, rows, kinds, w), NEW id \in Promised
  PROVE  /\ \A i \in 1 .. Len(rows) : newIds[i] = id =>
              Stored(w, id) = [live |-> TRUE, row |-> rows[i], version |-> 1]
         /\ (\A i \in 1 .. Len(rows) : newIds[i] # id) => Stored(w, id) = Stored(t, id)
<1> DEFINE n == Len(t.ids)
           k == Len(rows)
<1>1. n \in Nat /\ Positions(t) = 1 .. n
  BY Fields
<1>2. /\ k \in Nat /\ Len(w.ids) = n + k /\ Positions(w) = 1 .. n + k
      /\ \A p \in 1 .. n + k : w.ids[p] = IF p <= n THEN t.ids[p] ELSE newIds[p - n]
      /\ \A p \in 1 .. n + k : w.data[p] = IF p <= n THEN t.data[p] ELSE rows[p - n]
      /\ \A p \in 1 .. n + k : w.versions[p] = IF p <= n THEN t.versions[p] ELSE 1
  BY DEF Appended, Positions
<1>3. ASSUME NEW i \in 1 .. k, newIds[i] = id
      PROVE  Stored(w, id) = [live |-> TRUE, row |-> rows[i], version |-> 1]
  <2>1. n + i \in 1 .. n + k /\ ~(n + i <= n) /\ (n + i) - n = i
    BY SMTT(30), <1>1, <1>2
  <2>2. w.ids[n + i] = id /\ w.data[n + i] = rows[i] /\ w.versions[n + i] = 1
    BY <1>2, <1>3, <2>1
  <2>3. id \notin Contested
    BY DEF Promised
  <2>4. n + i \in Positions(w) /\ w.ids[n + i] \notin Contested
    BY <1>2, <2>1, <2>2, <2>3
  <2>5. Stored(w, w.ids[n + i]) =
          [live |-> TRUE, row |-> w.data[n + i], version |-> w.versions[n + i]]
    BY <2>4, StoredHere
  <2> QED BY <2>2, <2>5
<1>4. ASSUME \A i \in 1 .. k : newIds[i] # id
      PROVE  Stored(w, id) = Stored(t, id)
  <2>1. CASE \A p \in Positions(t) : t.ids[p] # id
    <3>1. ASSUME NEW p \in 1 .. n + k PROVE w.ids[p] # id
      <4>1. CASE p <= n
        BY <1>1, <1>2, <2>1, <4>1
      <4>2. CASE ~(p <= n)
        <5>1. p - n \in 1 .. k
          BY <1>1, <1>2, <4>2
        <5> QED BY <1>2, <1>4, <4>2, <5>1
      <4> QED BY <4>1, <4>2
    <3>2. Stored(w, id) = [live |-> FALSE]
      <4>1. \A p \in Positions(w) : w.ids[p] # id
        BY <1>2, <3>1
      <4> QED BY <4>1, StoredNowhere
    <3>3. Stored(t, id) = [live |-> FALSE]
      BY <2>1, StoredNowhere
    <3> QED BY <3>2, <3>3
  <2>2. CASE \E p \in Positions(t) : t.ids[p] = id
    <3>1. PICK p \in Positions(t) : t.ids[p] = id
      BY <2>2
    <3>2. /\ p \in Positions(w) /\ w.ids[p] = id
          /\ w.data[p] = t.data[p] /\ w.versions[p] = t.versions[p]
      BY <1>1, <1>2, <3>1
    <3>3. id \notin Contested
      BY DEF Promised
    <3>4. Stored(w, id) = [live |-> TRUE, row |-> w.data[p], version |-> w.versions[p]]
      BY <3>2, <3>3, StoredHere
    <3>5. Stored(t, id) = [live |-> TRUE, row |-> t.data[p], version |-> t.versions[p]]
      BY <3>1, <3>3, StoredHere
    <3> QED BY <3>2, <3>4, <3>5
  <2> QED BY <2>1, <2>2
<1> QED BY <1>3, <1>4

\* Rows with automatic ids are stored under the next ids, where nothing was.
LEMMA AppendAutoStored ==
  ASSUME NEW t, Inv(t), Owned(t, Contested), NEW rows \in Seq(Row), NEW kinds,
         t.nextId + Len(rows) <= AutoLimit
  PROVE  LET w == AppendAuto(t, rows, kinds)
             given == Promised \cap (t.nextId .. t.nextId + Len(rows) - 1)
         IN  /\ w.nextId = t.nextId + Len(rows)
             /\ \A id \in given : Stored(t, id) = [live |-> FALSE]
             /\ StoredRows(w) =
                  [id \in Promised |->
                     IF id \in given
                     THEN [live |-> TRUE, row |-> rows[id - t.nextId + 1], version |-> 1]
                     ELSE Stored(t, id)]
<1> DEFINE w == AppendAuto(t, rows, kinds)
           k == Len(rows)
           fresh == FreshIds(t, k)
           given == Promised \cap (t.nextId .. t.nextId + k - 1)
<1>1. Inv(w) /\ Owned(w, Contested)
  BY AppendAutoInv, AppendAutoOwned
<1>2. Appended(t, fresh, rows, kinds, w) /\ w.nextId = t.nextId + k /\ fresh \in Seq(Id)
  BY AppendAutoFieldwise
<1>3. k \in Nat /\ t.nextId \in Nat
  BY Fields, LenProperties
<1>4. \A i \in 1 .. k : fresh[i] = t.nextId + i - 1
  BY DEF FreshIds
<1>5. ASSUME NEW id \in given
      PROVE  Stored(t, id) = [live |-> FALSE]
  <2>1. \A p \in Positions(t) : t.ids[p] # id
    BY <1>3 DEF Owned, Promised
  <2> QED BY <2>1, StoredNowhere
<1>6. ASSUME NEW id \in Promised
      PROVE  Stored(w, id) =
               IF id \in given
               THEN [live |-> TRUE, row |-> rows[id - t.nextId + 1], version |-> 1]
               ELSE Stored(t, id)
  <2>1. /\ \A i \in 1 .. k : fresh[i] = id =>
             Stored(w, id) = [live |-> TRUE, row |-> rows[i], version |-> 1]
        /\ (\A i \in 1 .. k : fresh[i] # id) => Stored(w, id) = Stored(t, id)
    <3> HIDE DEF w, fresh
    <3> QED BY <1>1, <1>2, AppendedStored
  <2>2. CASE id \in given
    <3>1. id - t.nextId + 1 \in 1 .. k /\ t.nextId + (id - t.nextId + 1) - 1 = id
      BY <1>3, <2>2
    <3>2. fresh[id - t.nextId + 1] = id
      BY <1>4, <3>1
    <3> HIDE DEF w, fresh, given
    <3> QED BY <2>1, <2>2, <3>1, <3>2
  <2>3. CASE id \notin given
    <3>1. \A i \in 1 .. k : fresh[i] # id
      BY <1>3, <1>4, <2>3
    <3> HIDE DEF w, fresh, given
    <3> QED BY <2>1, <2>3, <3>1
  <2> QED BY <2>2, <2>3
<1> HIDE DEF w, given
<1>7. StoredRows(w) =
        [id \in Promised |->
           IF id \in given
           THEN [live |-> TRUE, row |-> rows[id - t.nextId + 1], version |-> 1]
           ELSE Stored(t, id)]
  BY <1>6 DEF StoredRows
<1> QED BY <1>2, <1>5, <1>7 DEF w, given

\* A row with an id of the caller's is stored under it, if nothing was.
LEMMA InsertCustomStored ==
  ASSUME NEW t, Inv(t), Owned(t, Contested), NEW id \in CustomIds, NEW row \in Row
  PROVE  LET w == InsertCustom(t, id, row)
         IN  \/ StoredRows(w) = StoredRows(t)
             \/ /\ id \in Promised /\ Stored(t, id) = [live |-> FALSE]
                /\ StoredRows(w) = [StoredRows(t) EXCEPT ![id] =
                                      [live |-> TRUE, row |-> row, version |-> 1]]
<1> DEFINE u == LeaveSequential(t)
           w == AppendRows(u, <<id>>, <<row>>, {"unique"})
<1>1. /\ Inv(u) /\ u.sequential = FALSE /\ Owned(u, Contested) /\ Good(u)
      /\ u.ids = t.ids /\ u.data = t.data /\ u.versions = t.versions
  BY LeaveSequentialInv, LeaveSequentialOwned DEF Inv
<1>2. StoredRows(u) = StoredRows(t)
  <2> HIDE DEF u
  <2> QED BY <1>1, SameRowsStored
<1>3. CASE IsDuplicate(t, id)
  BY <1>2, <1>3 DEF InsertCustom
<1>4. CASE ~IsDuplicate(t, id)
  <2>1. u.idMap[id] = 0
    BY <1>4 DEF IsDuplicate
  <2>2. <<id>> \in Seq(Id) /\ <<row>> \in Seq(Row) /\ Len(<<id>>) = 1 /\ Len(<<row>>) = 1
    BY DEF Id
  <2>3. InsertCustom(t, id, row) = w
    BY <1>4 DEF InsertCustom
  <2>4. Inv(w) /\ Owned(w, Contested)
    <3>1. CustomIds \cap Nat \subseteq Contested
      BY DEF Contested
    <3> QED BY <2>3, <3>1, InsertCustomInv, InsertCustomOwned DEF Id
  <2>5. Appended(u, <<id>>, <<row>>, {"unique"}, w)
    <3> HIDE DEF u
    <3> QED BY <1>1, <2>2, AppendRowsFieldwise
  <2>6. ASSUME NEW x \in Promised
        PROVE  Stored(w, x) = IF x = id THEN [live |-> TRUE, row |-> row, version |-> 1]
                              ELSE Stored(u, x)
    <3>1. /\ \A i \in 1 .. Len(<<row>>) : <<id>>[i] = x =>
               Stored(w, x) = [live |-> TRUE, row |-> <<row>>[i], version |-> 1]
          /\ (\A i \in 1 .. Len(<<row>>) : <<id>>[i] # x) => Stored(w, x) = Stored(u, x)
      <4> DEFINE new == <<row>>
                 given == <<id>>
      <4>1. given \in Seq(Id) /\ Inv(u) /\ Owned(u, Contested) /\ Inv(w) /\ Owned(w, Contested)
        BY <1>1, <2>2, <2>4
      <4>2. Appended(u, given, new, {"unique"}, w)
        BY <2>5
      <4>3. /\ \A i \in 1 .. Len(new) : given[i] = x =>
                 Stored(w, x) = [live |-> TRUE, row |-> new[i], version |-> 1]
            /\ (\A i \in 1 .. Len(new) : given[i] # x) => Stored(w, x) = Stored(u, x)
        <5> HIDE DEF u, w, given, new
        <5> QED BY <4>1, <4>2, <2>6, AppendedStored
      <4> QED BY <4>3
    <3> HIDE DEF u, w
    <3> QED BY <3>1
  <2>7. CASE id \notin Promised
    <3> HIDE DEF u, w
    <3>1. StoredRows(w) = StoredRows(u)
      BY <2>6, <2>7 DEF StoredRows
    <3> QED BY <1>2, <2>3, <3>1
  <2>8. CASE id \in Promised
    <3>1. Stored(t, id) = [live |-> FALSE]
      <4>1. \A p \in Positions(u) : u.ids[p] # id
        <5> SUFFICES ASSUME NEW p \in Positions(u), u.ids[p] = id PROVE FALSE
          OBVIOUS
        <5>1. p # 0 /\ id \notin Contested
          BY <1>1, <2>8, Fields DEF Promised
        <5>2. u.idMap[id] = p
          <6> HIDE DEF u
          <6> QED BY <1>1, <5>1 DEF Owned
        <5> QED BY <2>1, <5>1, <5>2
      <4>2. \A p \in Positions(t) : t.ids[p] # id
        <5> HIDE DEF u
        <5> QED BY <1>1, <4>1 DEF Positions
      <4> QED BY <4>2, StoredNowhere
    <3>2. StoredRows(w) = [StoredRows(t) EXCEPT ![id] =
                             [live |-> TRUE, row |-> row, version |-> 1]]
      <4>1. StoredRows(w) = [StoredRows(u) EXCEPT ![id] =
                               [live |-> TRUE, row |-> row, version |-> 1]]
        <5> HIDE DEF u, w
        <5> QED BY <2>6, <2>8 DEF StoredRows
      <4> HIDE DEF u, w
      <4> QED BY <1>2, <4>1
    <3> QED BY <2>3, <2>8, <3>1, <3>2
  <2> QED BY <2>7, <2>8
<1> QED BY <1>3, <1>4

\* When one row changes in place, what is stored changes under its id only.
LEMMA ChangedStored ==
  ASSUME NEW t, Inv(t), Owned(t, Contested), NEW w, Inv(w), Owned(w, Contested),
         w.ids = t.ids, NEW p \in Positions(t),
         \A q \in Positions(t) : q # p => w.data[q] = t.data[q] /\ w.versions[q] = t.versions[q]
  PROVE  \/ t.ids[p] \notin Promised /\ StoredRows(w) = StoredRows(t)
         \/ /\ t.ids[p] \in Promised
            /\ StoredRows(t)[t.ids[p]] =
                 [live |-> TRUE, row |-> t.data[p], version |-> t.versions[p]]
            /\ StoredRows(w) = [StoredRows(t) EXCEPT ![t.ids[p]] =
                 [live |-> TRUE, row |-> w.data[p], version |-> w.versions[p]]]
<1> DEFINE own == t.ids[p]
<1>1. Positions(w) = Positions(t)
  BY DEF Positions
<1>2. ASSUME NEW x \in Promised, x # own
      PROVE  Stored(w, x) = Stored(t, x)
  <2>1. CASE \A q \in Positions(t) : t.ids[q] # x
    <3>1. Stored(t, x) = [live |-> FALSE]
      BY <2>1, StoredNowhere
    <3>2. Stored(w, x) = [live |-> FALSE]
      BY <1>1, <2>1, StoredNowhere
    <3> QED BY <3>1, <3>2
  <2>2. CASE \E q \in Positions(t) : t.ids[q] = x
    <3>1. PICK q \in Positions(t) : t.ids[q] = x
      BY <2>2
    <3>2. q # p /\ x \notin Contested
      BY <1>2, <3>1 DEF Promised
    <3>3. Stored(t, t.ids[q]) = [live |-> TRUE, row |-> t.data[q], version |-> t.versions[q]]
      BY <3>1, <3>2, StoredHere
    <3>4. q \in Positions(w) /\ w.ids[q] = x /\ w.ids[q] \notin Contested
      BY <1>1, <3>1, <3>2
    <3>5. Stored(w, w.ids[q]) = [live |-> TRUE, row |-> w.data[q], version |-> w.versions[q]]
      BY <3>4, StoredHere
    <3> QED BY <3>1, <3>2, <3>3, <3>4, <3>5
  <2> QED BY <2>1, <2>2
<1>3. CASE own \notin Promised
  <2>1. StoredRows(w) = StoredRows(t)
    BY <1>2, <1>3 DEF StoredRows
  <2> QED BY <1>3, <2>1
<1>4. CASE own \in Promised
  <2>1. own \notin Contested /\ p \in Positions(w) /\ w.ids[p] = own
    BY <1>1, <1>4 DEF Promised
  <2>2. Stored(t, own) = [live |-> TRUE, row |-> t.data[p], version |-> t.versions[p]]
    BY <2>1, StoredHere
  <2>3. Stored(w, w.ids[p]) = [live |-> TRUE, row |-> w.data[p], version |-> w.versions[p]]
    BY <2>1, StoredHere
  <2> HIDE DEF own
  <2>4. StoredRows(w) = [StoredRows(t) EXCEPT ![own] =
                           [live |-> TRUE, row |-> w.data[p], version |-> w.versions[p]]]
    BY <1>2, <1>4, <2>1, <2>3 DEF StoredRows
  <2>5. StoredRows(t)[own] = [live |-> TRUE, row |-> t.data[p], version |-> t.versions[p]]
    BY <1>4, <2>2 DEF StoredRows
  <2> QED BY <1>4, <2>4, <2>5 DEF own
<1> QED BY <1>3, <1>4

\* The entry under id becomes one with this row, and counts a version.
Replaced(t, id, row, w) ==
  \/ StoredRows(w) = StoredRows(t)
  \/ /\ id \in Promised
     /\ StoredRows(t)[id] # [live |-> FALSE]
     /\ StoredRows(w) = [StoredRows(t) EXCEPT ![id] =
                           [live |-> TRUE, row |-> row, version |-> @.version + 1]]

\* Writing a row at the position of an id replaces the row of that id alone.
LEMMA WriteRowStored ==
  ASSUME NEW t, Inv(t), Owned(t, Contested), NEW p \in Positions(t), NEW row \in Row
  PROVE  Replaced(t, t.ids[p], row, WriteRow(t, p, t.ids[p], row))
<1> DEFINE own == t.ids[p]
           w == WriteRow(t, p, own, row)
<1>1. /\ own \in Id /\ t.data \in Seq(Row) /\ t.versions \in Seq(Nat)
      /\ Positions(t) = 1 .. Len(t.data) /\ Positions(t) = 1 .. Len(t.versions)
      /\ t \in TableRecord
  BY Fields DEF Inv, Good
<1>2. Inv(w) /\ Owned(w, Contested)
  BY <1>1, WriteRowInv, WriteRowOwned
<1>3. /\ w.ids = t.ids /\ w.data = [t.data EXCEPT ![p] = row]
      /\ w.versions = [t.versions EXCEPT ![p] = @ + 1]
  BY <1>1 DEF WriteRow, TableRecord
<1> HIDE DEF w
<1>4. /\ \A q \in Positions(t) : w.data[q] = IF q = p THEN row ELSE t.data[q]
      /\ \A q \in Positions(t) :
           w.versions[q] = IF q = p THEN t.versions[p] + 1 ELSE t.versions[q]
  <2>1. ASSUME NEW q \in 1 .. Len(t.data)
        PROVE  [t.data EXCEPT ![p] = row][q] = IF q = p THEN row ELSE t.data[q]
    <3> HIDE DEF Row
    <3> QED BY <1>1
  <2>2. ASSUME NEW q \in 1 .. Len(t.versions)
        PROVE  [t.versions EXCEPT ![p] = @ + 1][q] =
                 IF q = p THEN t.versions[p] + 1 ELSE t.versions[q]
    BY <1>1
  <2> QED BY <1>1, <1>3, <2>1, <2>2
<1>5. \A q \in Positions(t) : q # p => w.data[q] = t.data[q] /\ w.versions[q] = t.versions[q]
  BY <1>4
<1>6. \/ t.ids[p] \notin Promised /\ StoredRows(w) = StoredRows(t)
      \/ /\ t.ids[p] \in Promised
         /\ StoredRows(t)[t.ids[p]] =
              [live |-> TRUE, row |-> t.data[p], version |-> t.versions[p]]
         /\ StoredRows(w) = [StoredRows(t) EXCEPT ![t.ids[p]] =
              [live |-> TRUE, row |-> w.data[p], version |-> w.versions[p]]]
  <2>1. w.ids = t.ids
    BY <1>3
  <2> HIDE DEF own
  <2> QED BY <1>2, <1>5, <2>1, ChangedStored
<1> HIDE DEF own
<1>7. Replaced(t, own, row, w)
  <2>1. CASE StoredRows(w) = StoredRows(t)
    BY <2>1 DEF Replaced
  <2>2. CASE StoredRows(w) # StoredRows(t)
    <3>1. /\ own \in Promised
          /\ StoredRows(t)[own] = [live |-> TRUE, row |-> t.data[p], version |-> t.versions[p]]
          /\ StoredRows(w) = [StoredRows(t) EXCEPT ![own] =
               [live |-> TRUE, row |-> row, version |-> t.versions[p] + 1]]
      BY <1>4, <1>6, <2>2 DEF own
    <3>2. /\ StoredRows(t)[own] # [live |-> FALSE]
          /\ StoredRows(t)[own].version = t.versions[p]
      BY <3>1, EntryFields
    <3>3. StoredRows(w) = [StoredRows(t) EXCEPT ![own] =
                             [live |-> TRUE, row |-> row, version |-> @.version + 1]]
      BY <3>1, <3>2
    <3> QED BY <3>1, <3>2, <3>3 DEF Replaced
  <2> QED BY <2>1, <2>2
<1> QED BY <1>7 DEF own, w

\* update and update_values replace the row of the id alone.
LEMMA UpdateStored ==
  ASSUME NEW t, Inv(t), Owned(t, Contested), NEW id \in Id, NEW row \in Row
  PROVE  /\ Replaced(t, id, row, Update(t, id, row))
         /\ Replaced(t, id, row, UpdateValues(t, id, row))
<1>1. t.idMap[id] # 0 => t.idMap[id] \in Positions(t) /\ t.ids[t.idMap[id]] = id
  BY DEF Inv, Sound
<1>2. GetIndex(t, id) # 0 => GetIndex(t, id) \in Positions(t) /\ t.ids[GetIndex(t, id)] = id
  BY GetIndexFinds
<1>3. Replaced(t, id, row, t)
  BY DEF Replaced
<1>4. Replaced(t, id, row, Update(t, id, row))
  BY <1>1, <1>3, WriteRowStored DEF Update
<1>5. Replaced(t, id, row, UpdateValues(t, id, row))
  BY <1>2, <1>3, WriteRowStored DEF UpdateValues
<1> QED BY <1>4, <1>5

\* One cell of the entry under id is written.
Poked(t, id, c, v, w) ==
  \/ StoredRows(w) = StoredRows(t)
  \/ /\ id \in Promised
     /\ StoredRows(t)[id] # [live |-> FALSE]
     /\ StoredRows(w) = [StoredRows(t) EXCEPT ![id].row[c] = v]

\* update_by_indices changes one value of the row of the id alone.
LEMMA UpdateByIndicesStored ==
  ASSUME NEW t, Inv(t), Owned(t, Contested), NEW id \in Id, NEW c \in Cols, NEW v \in Values
  PROVE  Poked(t, id, c, v, UpdateByIndices(t, id, c, v))
<1> DEFINE p == GetIndex(t, id)
           w == UpdateByIndices(t, id, c, v)
           poked == [t.data[p] EXCEPT ![c] = v]
<1>1. CASE p = 0
  BY <1>1 DEF UpdateByIndices, Poked
<1>2. CASE p # 0
  <2>1. p \in Positions(t) /\ t.ids[p] = id
    BY <1>2, GetIndexFinds
  <2>2. /\ t.data \in Seq(Row) /\ Positions(t) = 1 .. Len(t.data) /\ t \in TableRecord
        /\ t.data[p] \in Row
    BY <2>1, Fields DEF Inv, Good
  <2>3. Inv(w) /\ Owned(w, Contested)
    BY UpdateByIndicesInv, UpdateByIndicesOwned
  <2>4. w.ids = t.ids /\ w.versions = t.versions /\ w.data = [t.data EXCEPT ![p] = poked]
    BY <1>2, <2>2 DEF UpdateByIndices, TableRecord
  <2>5. poked \in Row
    BY <2>2 DEF Row
  <2> HIDE DEF w, p, poked
  <2>6. \A q \in Positions(t) : w.data[q] = IF q = p THEN poked ELSE t.data[q]
    <3>1. ASSUME NEW q \in 1 .. Len(t.data)
          PROVE  [t.data EXCEPT ![p] = poked][q] = IF q = p THEN poked ELSE t.data[q]
      <4> HIDE DEF Row
      <4> QED BY <2>2
    <3> QED BY <2>2, <2>4, <3>1
  <2>7. \/ t.ids[p] \notin Promised /\ StoredRows(w) = StoredRows(t)
        \/ /\ t.ids[p] \in Promised
           /\ StoredRows(t)[t.ids[p]] =
                [live |-> TRUE, row |-> t.data[p], version |-> t.versions[p]]
           /\ StoredRows(w) = [StoredRows(t) EXCEPT ![t.ids[p]] =
                [live |-> TRUE, row |-> w.data[p], version |-> w.versions[p]]]
    <3>1. w.ids = t.ids /\ p \in Positions(t)
      BY <2>1, <2>4
    <3>2. \A q \in Positions(t) :
            q # p => w.data[q] = t.data[q] /\ w.versions[q] = t.versions[q]
      BY <2>4, <2>6
    <3> QED BY <2>3, <3>1, <3>2, ChangedStored
  <2>8. CASE id \in Promised
    <3>1. /\ StoredRows(t)[id] = [live |-> TRUE, row |-> t.data[p], version |-> t.versions[p]]
          /\ StoredRows(w) = [StoredRows(t) EXCEPT ![id] =
                                [live |-> TRUE, row |-> poked, version |-> t.versions[p]]]
      BY <2>1, <2>4, <2>6, <2>7, <2>8
    <3>2. [StoredRows(t)[id] EXCEPT !.row = [StoredRows(t)[id].row EXCEPT ![c] = v]] =
            [live |-> TRUE, row |-> poked, version |-> t.versions[p]]
      <4>1. StoredRows(t)[id].row = t.data[p]
        BY <3>1, EntryFields
      <4>2. [StoredRows(t)[id].row EXCEPT ![c] = v] = poked
        BY <4>1 DEF poked
      <4> QED BY <3>1, <4>2, EntryFields
    <3>3. StoredRows(w) = [StoredRows(t) EXCEPT ![id].row[c] = v]
      BY <3>1, <3>2
    <3>4. StoredRows(t)[id] # [live |-> FALSE]
      BY <3>1, EntryFields
    <3>5. Poked(t, id, c, v, w)
      BY <2>8, <3>3, <3>4 DEF Poked
    <3> QED BY <3>5 DEF w
  <2>9. CASE id \notin Promised
    <3>1. Poked(t, id, c, v, w)
      BY <2>1, <2>7, <2>9 DEF Poked
    <3> QED BY <3>1 DEF w
  <2> QED BY <2>8, <2>9
<1> QED BY <1>1, <1>2

\* The entry under id goes, and no other, although the last row has moved.
Removed(t, id, w) ==
  \/ StoredRows(w) = StoredRows(t)
  \/ /\ id \in Promised
     /\ StoredRows(t)[id] # [live |-> FALSE]
     /\ StoredRows(w) = [StoredRows(t) EXCEPT ![id] = [live |-> FALSE]]

\* delete removes the row of the id alone, though it moves the last row.
LEMMA DeleteStored ==
  ASSUME NEW t, Inv(t), Owned(t, Contested), NEW id \in Id
  PROVE  Removed(t, id, Delete(t, id))
<1> DEFINE p == GetIndex(t, id)
           n == Len(t.ids)
           w == Delete(t, id)
<1>1. CASE p = 0
  BY <1>1 DEF Delete, Removed
<1>2. CASE p # 0
  <2>1. RowGone(t, id, w)
    BY <1>2, DeleteFields
  <2>2. Inv(w) /\ Owned(w, Contested)
    BY DeleteInv, DeleteOwned
  <2> HIDE DEF w
  <2>3. /\ n \in Nat /\ p \in 1 .. n /\ t.ids[p] = id /\ Len(w.ids) = n - 1
        /\ \A q \in 1 .. n - 1 : w.ids[q] = IF q = p THEN t.ids[n] ELSE t.ids[q]
        /\ \A q \in 1 .. n - 1 : w.data[q] = IF q = p THEN t.data[n] ELSE t.data[q]
        /\ \A q \in 1 .. n - 1 :
             w.versions[q] = IF q = p THEN t.versions[n] ELSE t.versions[q]
    BY <2>1 DEF RowGone
  <2> HIDE DEF p
  <2>4. Positions(t) = 1 .. n /\ Positions(w) = 1 .. n - 1
    BY <2>3 DEF Positions
  <2> HIDE DEF n
  \* Where the row at q of the old table is in the new one.
  <2> DEFINE At(q) == IF q = n THEN p ELSE q
  <2>5. ASSUME NEW q \in Positions(t), q # p
        PROVE  /\ At(q) \in Positions(w) /\ w.ids[At(q)] = t.ids[q]
               /\ w.data[At(q)] = t.data[q] /\ w.versions[At(q)] = t.versions[q]
    <3>1. CASE q = n
      BY <2>3, <2>4, <2>5, <3>1
    <3>2. CASE q # n
      BY <2>3, <2>4, <2>5, <3>2
    <3> QED BY <3>1, <3>2
  <2>6. ASSUME NEW q \in Positions(w)
        PROVE  \E r \in Positions(t) : r # p /\ w.ids[q] = t.ids[r]
    <3>1. CASE q = p
      BY <2>3, <2>4, <2>6, <3>1
    <3>2. CASE q # p
      BY <2>3, <2>4, <2>6, <3>2
    <3> QED BY <3>1, <3>2
  <2>7. ASSUME NEW x \in Promised, x # id
        PROVE  Stored(w, x) = Stored(t, x)
    <3>1. CASE \A q \in Positions(t) : t.ids[q] # x
      <4>1. \A q \in Positions(w) : w.ids[q] # x
        BY <2>6, <3>1
      <4> QED BY <3>1, <4>1, StoredNowhere
    <3>2. CASE \E q \in Positions(t) : t.ids[q] = x
      <4>1. PICK q \in Positions(t) : t.ids[q] = x
        BY <3>2
      <4>2. q # p /\ x \notin Contested
        BY <2>3, <2>7, <4>1 DEF Promised
      <4>3. Stored(t, x) = [live |-> TRUE, row |-> t.data[q], version |-> t.versions[q]]
        BY <4>1, <4>2, StoredHere
      <4>4. /\ At(q) \in Positions(w) /\ w.ids[At(q)] = x
            /\ w.data[At(q)] = t.data[q] /\ w.versions[At(q)] = t.versions[q]
        BY <2>5, <4>1, <4>2
      <4> HIDE DEF At
      <4>5. Stored(w, x) = [live |-> TRUE, row |-> w.data[At(q)], version |-> w.versions[At(q)]]
        BY <2>2, <4>2, <4>4, StoredHere
      <4> QED BY <4>3, <4>4, <4>5
    <3> QED BY <3>1, <3>2
  <2>8. CASE id \notin Promised
    <3>1. StoredRows(w) = StoredRows(t)
      BY <2>7, <2>8 DEF StoredRows
    <3> QED BY <3>1 DEF Removed, w
  <2>9. CASE id \in Promised
    <3>1. id \notin Contested /\ p \in Positions(t)
      BY <2>3, <2>4, <2>9 DEF Promised
    <3>2. Stored(t, id) = [live |-> TRUE, row |-> t.data[p], version |-> t.versions[p]]
      BY <2>3, <3>1, StoredHere
    <3>3. \A q \in Positions(w) : w.ids[q] # id
      <4>1. \A r \in Positions(t) : r # p => t.ids[r] # id
        BY <2>3, <3>1, OwnedOnce
      <4> QED BY <2>6, <4>1
    <3>4. Stored(w, id) = [live |-> FALSE]
      BY <3>3, StoredNowhere
    <3>5. StoredRows(w) = [StoredRows(t) EXCEPT ![id] = [live |-> FALSE]]
      BY <2>7, <2>9, <3>4 DEF StoredRows
    <3>6. StoredRows(t)[id] # [live |-> FALSE]
      <4>1. StoredRows(t)[id].live = TRUE
        BY <2>9, <3>2 DEF StoredRows
      <4>2. [live |-> FALSE].live = FALSE
        OBVIOUS
      <4> QED BY <4>1, <4>2
    <3> QED BY <2>9, <3>5, <3>6 DEF Removed, w
  <2> QED BY <2>8, <2>9
<1> QED BY <1>1, <1>2

\* Only automatic inserts give ids away.
LEMMA InsertCustomNext ==
  ASSUME NEW t, Inv(t), NEW id \in CustomIds, NEW row \in Row
  PROVE  InsertCustom(t, id, row).nextId = t.nextId
<1> DEFINE u == LeaveSequential(t)
<1>1. u.nextId = t.nextId /\ Good(u)
  BY LeaveSequentialInv DEF Inv
<1>2. AppendRows(u, <<id>>, <<row>>, {"unique"}).nextId = u.nextId
  <2> HIDE DEF u
  <2> QED BY <1>1, AppendRowsFields
<1> QED BY <1>1, <1>2 DEF InsertCustom

\* No update takes an automatic id.
LEMMA UpdateNext ==
  ASSUME NEW t, Inv(t), NEW id, NEW row, NEW c, NEW v
  PROVE  /\ Update(t, id, row).nextId = t.nextId
         /\ UpdateValues(t, id, row).nextId = t.nextId
         /\ UpdateByIndices(t, id, c, v).nextId = t.nextId
BY DEF Update, UpdateValues, UpdateByIndices, WriteRow, Inv, Good, TableRecord

\* Neither does a delete.
LEMMA DeleteNext ==
  ASSUME NEW t, Inv(t), NEW id \in Id
  PROVE  Delete(t, id).nextId = t.nextId
<1>1. CASE GetIndex(t, id) = 0
  BY <1>1 DEF Delete
<1>2. CASE GetIndex(t, id) # 0
  BY <1>2, DeleteFields DEF RowGone
<1> QED BY <1>1, <1>2

-----------------------------------------------------------------------------
(* The steps *)

\* Appended rows are a step of RowStore, or none when the batch is empty.
LEMMA AppendAutoStep ==
  ASSUME Inv(table), Owned(table, Contested), NEW rows \in Seq(Row), NEW kinds,
         table.nextId + Len(rows) <= AutoLimit, table' = AppendAuto(table, rows, kinds)
  PROVE  \/ Abs!Next
         \/ StoredRows(table') = StoredRows(table) /\ table'.nextId = table.nextId
<1> DEFINE k == Len(rows)
           ids == Promised \cap (table.nextId .. table.nextId + k - 1)
           w == AppendAuto(table, rows, kinds)
<1>1. /\ w.nextId = table.nextId + k
      /\ \A id \in ids : Stored(table, id) = [live |-> FALSE]
      /\ StoredRows(w) =
           [id \in Promised |->
              IF id \in ids
              THEN [live |-> TRUE, row |-> rows[id - table.nextId + 1], version |-> 1]
              ELSE Stored(table, id)]
  BY AppendAutoStored
<1>2. k \in Nat /\ table.nextId \in Nat /\ AutoLimit \in Nat /\ w = table'
  BY Fields, LenProperties, AutoLimitAssumption
<1> HIDE DEF w
<1>3. CASE k = 0
  <2>1. ids = {}
    BY <1>2, <1>3
  <2>2. StoredRows(w) = StoredRows(table)
    <3> HIDE DEF ids
    <3> QED BY <1>1, <2>1 DEF StoredRows
  <2> QED BY <1>1, <1>2, <1>3, <2>2
<1>4. CASE k # 0
  <2>1. Abs!Add(rows)
    <3>1. \A id \in ids : StoredRows(table)[id] = [live |-> FALSE]
      BY <1>1 DEF StoredRows
    <3>2. StoredRows(w) =
            [id \in Promised |->
               IF id \in ids
               THEN [live |-> TRUE, row |-> rows[id - table.nextId + 1], version |-> 1]
               ELSE StoredRows(table)[id]]
      <4> HIDE DEF ids
      <4> QED BY <1>1 DEF StoredRows
    <3> QED BY <1>1, <1>2, <3>1, <3>2 DEF Abs!Add, Abs!Live, Abs!Absent, Abs!Entry
  <2>2. rows \in Abs!Batches
    <3>1. k \in 1 .. AutoLimit - table.nextId
      BY <1>2, <1>4
    <3>2. rows \in [1 .. k -> Row]
      BY LenProperties
    <3> QED BY <3>1, <3>2 DEF Abs!Batches, Abs!Row, Row
  <2> QED BY <2>1, <2>2 DEF Abs!Next
<1> QED BY <1>3, <1>4

\* Every step of the table is one of RowStore or leaves it alone.
LEMMA NextStored ==
  ASSUME Inv(table), Owned(table, Contested), [Next]_table
  PROVE  [Abs!Next]_<<StoredRows(table), table.nextId>>
<1> DEFINE Still == StoredRows(table') = StoredRows(table) /\ table'.nextId = table.nextId
<1>1. ASSUME NEW row \in Row, InsertRow(row)
      PROVE  Abs!Next \/ Still
  <2>1. <<row>> \in Seq(Row) /\ table.nextId + Len(<<row>>) <= AutoLimit
    BY <1>1 DEF InsertRow, Room
  <2> QED BY <1>1, <2>1, AppendAutoStep DEF InsertRow, Insert
<1>2. ASSUME NEW k \in 1 .. MaxBatch, NEW batch \in [1 .. k -> RowArg],
             InsertBatchRows(batch) \/ InsertBatchOfValues(batch)
      PROVE  Abs!Next \/ Still
  <2>1. /\ AcceptedPrefix(batch) \in Seq(Row)
        /\ table.nextId + Len(AcceptedPrefix(batch)) <= AutoLimit
    BY <1>2, BatchRows DEF InsertBatchRows, InsertBatchOfValues
  <2> QED BY <1>2, <2>1, AppendAutoStep
          DEF InsertBatchRows, InsertBatchOfValues, InsertBatch, InsertBatchValues
<1>3. ASSUME NEW k \in 1 .. MaxBatch, NEW rows \in [1 .. k -> Row], InsertFlat(rows)
      PROVE  Abs!Next \/ Still
  <2>1. rows \in Seq(Row)
    BY IsASeq
  <2>2. table.nextId + Len(rows) <= AutoLimit
    BY <1>3 DEF InsertFlat, Room
  <2> QED BY <1>3, <2>1, <2>2, AppendAutoStep DEF InsertFlat, InsertBatchFlat
<1>4. ASSUME NEW id \in CustomIds, NEW row \in Row, InsertWithId(id, row)
      PROVE  Abs!Next \/ Still
  <2>1. table'.nextId = table.nextId
    BY <1>4, InsertCustomNext DEF InsertWithId
  <2>2. \/ StoredRows(table') = StoredRows(table)
        \/ /\ id \in Promised /\ Stored(table, id) = [live |-> FALSE]
           /\ StoredRows(table') = [StoredRows(table) EXCEPT ![id] =
                                      [live |-> TRUE, row |-> row, version |-> 1]]
    BY <1>4, InsertCustomStored DEF InsertWithId
  <2>3. CASE StoredRows(table') = StoredRows(table)
    BY <2>1, <2>3
  <2>4. CASE StoredRows(table') # StoredRows(table)
    <3>1. StoredRows(table)[id] = [live |-> FALSE]
      BY <2>2, <2>4 DEF StoredRows
    <3>2. Abs!AddAs(id, row)
      BY <2>1, <2>2, <2>4, <3>1 DEF Abs!AddAs, Abs!Live, Abs!Absent, Abs!Entry
    <3> QED BY <2>2, <2>4, <3>2 DEF Abs!Next, Abs!Row, Row
  <2> QED BY <2>3, <2>4
<1>5. ASSUME NEW id \in Id, NEW row \in Row, Replaced(table, id, row, table'),
             table'.nextId = table.nextId
      PROVE  Abs!Next \/ Still
  <2>1. CASE StoredRows(table') = StoredRows(table)
    BY <1>5, <2>1
  <2>2. CASE StoredRows(table') # StoredRows(table)
    <3>1. id \in Promised /\ Abs!Replace(id, row)
      BY <1>5, <2>2 DEF Replaced, Abs!Replace, Abs!Live, Abs!Absent, Abs!Entry
    <3> QED BY <3>1 DEF Abs!Next, Abs!Row, Row
  <2> QED BY <2>1, <2>2
<1>6. ASSUME NEW id \in Id, NEW row \in Row, UpdateRowValues(id, row) \/ UpdateRow(id, row)
      PROVE  Abs!Next \/ Still
  <2>1. Replaced(table, id, row, table')
    BY <1>6, UpdateStored DEF UpdateRowValues, UpdateRow
  <2>2. table'.nextId = table.nextId
    BY <1>6, UpdateNext DEF UpdateRowValues, UpdateRow
  <2> QED BY <1>5, <2>1, <2>2
<1>7. ASSUME NEW id \in Id, NEW c \in CellCols, NEW v \in Values, UpdateCell(id, c, v)
      PROVE  Abs!Next \/ Still
  <2>1. Poked(table, id, c, v, table') /\ c \in Cols
    BY <1>7, UpdateByIndicesStored, ColsAssumption DEF UpdateCell
  <2>2. table'.nextId = table.nextId
    BY <1>7, UpdateNext DEF UpdateCell
  <2>3. CASE StoredRows(table') = StoredRows(table)
    BY <2>2, <2>3
  <2>4. CASE StoredRows(table') # StoredRows(table)
    <3>1. id \in Promised /\ Abs!Poke(id, c, v)
      BY <2>1, <2>2, <2>4 DEF Poked, Abs!Poke, Abs!Live, Abs!Absent
    <3> QED BY <2>1, <3>1 DEF Abs!Next
  <2> QED BY <2>3, <2>4
<1>8. ASSUME NEW id \in Id \cap Nat, NEW c \in Cols, NEW v \in Values, UpdateBatch(id, c, v)
      PROVE  Abs!Next \/ Still
  <2>1. \/ table' = table
        \/ \E row \in Row : table' = UpdateValues(table, id, row)
    BY <1>8, UpdateBatchRow DEF UpdateBatch
  <2>2. CASE table' = table
    BY <2>2
  <2>3. CASE \E row \in Row : table' = UpdateValues(table, id, row)
    <3>1. PICK row \in Row : table' = UpdateValues(table, id, row)
      BY <2>3
    <3>2. Replaced(table, id, row, table') /\ table'.nextId = table.nextId
      BY ZenonT(60), <3>1, UpdateStored, UpdateNext
    <3> QED BY <1>5, <3>2
  <2> QED BY <2>1, <2>2, <2>3
<1>9. ASSUME NEW id \in Id, DeleteRow(id)
      PROVE  Abs!Next \/ Still
  <2>1. Removed(table, id, table') /\ table'.nextId = table.nextId
    BY <1>9, DeleteStored, DeleteNext DEF DeleteRow
  <2>2. CASE StoredRows(table') = StoredRows(table)
    BY <2>1, <2>2
  <2>3. CASE StoredRows(table') # StoredRows(table)
    <3>1. id \in Promised /\ Abs!Remove(id)
      BY <2>1, <2>3 DEF Removed, Abs!Remove, Abs!Live, Abs!Absent
    <3> QED BY <3>1 DEF Abs!Next
  <2> QED BY <2>2, <2>3
<1>10. ASSUME NEW c \in IndexCols, NEW kind \in IndexKinds, MakeIndex(c, kind)
       PROVE  Still
  <2>1. /\ table'.ids = table.ids /\ table'.data = table.data
        /\ table'.versions = table.versions /\ table'.nextId = table.nextId
    BY <1>10 DEF MakeIndex, CreateIndex, Inv, Good, TableRecord
  <2> QED BY <2>1, SameRowsStored
<1>11. ASSUME PopulateIdMap
       PROVE  Still
  <2>1. /\ table'.ids = table.ids /\ table'.data = table.data
        /\ table'.versions = table.versions /\ table'.nextId = table.nextId
    BY <1>11, LeaveSequentialInv DEF PopulateIdMap
  <2> QED BY <2>1, SameRowsStored
<1>12. CASE UNCHANGED table
  BY <1>12
<1>13. Abs!Next \/ Still
  BY <1>1, <1>2, <1>3, <1>4, <1>6, <1>7, <1>8, <1>9, <1>10, <1>11, <1>12
     DEF Next, Batches
<1> QED BY <1>13

\* Whatever clients call, a table keeps RowStore's promises: a row is found
\* under its id until it is deleted, with the cells last written and a version
\* that counts the writes, and no call on one row is visible in another.
THEOREM TableImplementsRowStore == Spec => Refinement
<1>1. Init => Abs!Init
  <2> SUFFICES ASSUME Init PROVE Abs!Init
    OBVIOUS
  <2>1. Positions(table) = {} /\ table.nextId = 0
    BY DEF Init, EmptyTable, Positions
  <2>2. \A id \in Promised : Stored(table, id) = [live |-> FALSE]
    BY <2>1, StoredNowhere
  <2> QED BY <2>1, <2>2 DEF Abs!Init, Abs!Absent, StoredRows
<1>2. IndexInv /\ [Next]_table => [Abs!Next]_<<StoredRows(table), table.nextId>>
  BY NextStored DEF IndexInv
<1> QED BY <1>1, <1>2, IndexInvariance, PTL DEF Spec, Refinement, Abs!Spec

=============================================================================
