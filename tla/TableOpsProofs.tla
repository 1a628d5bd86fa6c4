--------------------------- MODULE TableOpsProofs ---------------------------
(***************************************************************************)
(* Facts about the operations of TableOps, for all schemas, ids and rows.  *)
(*                                                                         *)
(* The invariant Inv of a table has four parts: Good (types and equal      *)
(* lengths), Dense (a sequential table holds the ids 0, 1, 2, ... and its  *)
(* id_map is empty), Sound (id_map entries point at rows with their id)    *)
(* and nextId <= AutoLimit, which makes every automatic id an Id.  Each    *)
(* operation has a lemma saying that it preserves Inv.                     *)
(***************************************************************************)
EXTENDS TableOps, TLAPS, SequenceTheorems, FiniteSetTheorems, WellFoundedInduction

\* A non-empty set of naturals has a least element.
LEMMA LeastElement ==
  ASSUME NEW S, S \subseteq Nat, S # {}
  PROVE  \E x \in S : \A y \in S : x <= y
<1>1. PICK x \in S : \A y \in S : ~ (<<y, x>> \in OpToRel(<, Nat))
  BY NatLessThanWellFounded, WFMin
<1>2. ASSUME NEW y \in S
      PROVE  x <= y
  <2>1. ~ (y < x)
    BY <1>1 DEF OpToRel
  <2> QED BY <2>1
<1> QED BY <1>2

\* LastPosition picks the largest of a set of positions.
LEMMA LastPositionProperties ==
  ASSUME NEW n \in Nat, NEW S, S \subseteq 1 .. n, S # {}
  PROVE  /\ LastPosition(S) \in S
         /\ \A q \in S : q <= LastPosition(S)
<1> DEFINE T == {n - s : s \in S}
<1>1. T \subseteq Nat /\ T # {}
  <2>1. \A s \in S : s \in Nat /\ n - s \in Nat
    OBVIOUS
  <2>2. T \subseteq Nat
    BY <2>1
  <2>3. T # {}
    OBVIOUS
  <2> QED BY <2>2, <2>3
<1>2. PICK x \in T : \A y \in T : x <= y
  <2> HIDE DEF T
  <2> QED BY <1>1, LeastElement
<1>3. PICK p \in S : x = n - p
  BY <1>2
<1>4. ASSUME NEW q \in S
      PROVE  q <= p
  <2>1. n - q \in T
    OBVIOUS
  <2>2. n - p <= n - q
    <3> HIDE DEF T
    <3> QED BY <1>2, <1>3, <2>1
  <2> QED BY <2>2
<1> QED
  BY <1>3, <1>4 DEF LastPosition

\* swap_remove keeps the element type and shortens the vector by one.
LEMMA SwapRemoveProperties ==
  ASSUME NEW S, NEW s \in Seq(S), NEW p \in 1 .. Len(s)
  PROVE  /\ SwapRemove(s, p) \in Seq(S)
         /\ Len(SwapRemove(s, p)) = Len(s) - 1
         /\ \A q \in 1 .. Len(s) - 1 :
              SwapRemove(s, p)[q] = IF q = p THEN s[Len(s)] ELSE s[q]
<1>1. Len(s) - 1 \in Nat
  BY LenProperties
<1>2. SwapRemove(s, p) \in [1 .. Len(s) - 1 -> S]
  BY LenProperties DEF SwapRemove
<1>3. SwapRemove(s, p) \in Seq(S) /\ Len(SwapRemove(s, p)) = Len(s) - 1
  BY <1>1, <1>2, IsASeq, LenProperties
<1>4. QED
  BY <1>3 DEF SwapRemove

\* Where the elements of s \o u come from.
LEMMA ConcatLookup ==
  ASSUME NEW S, NEW s \in Seq(S), NEW u \in Seq(S)
  PROVE  /\ s \o u \in Seq(S)
         /\ Len(s \o u) = Len(s) + Len(u)
         /\ \A p \in 1 .. Len(s) + Len(u) :
              (s \o u)[p] = IF p <= Len(s) THEN s[p] ELSE u[p - Len(s)]
BY ConcatProperties

-----------------------------------------------------------------------------
(* Types *)

Good(t) == t \in TableRecord /\ Aligned(t)

\* Replacing fields by values of their types keeps the record's type.
LEMMA TableUpdate ==
  ASSUME NEW t \in TableRecord, NEW i \in Seq(Id), NEW d \in Seq(Row),
         NEW v \in Seq(Nat), NEW m \in [Id -> Nat], NEW x \in [Cols -> Index],
         Len(d) = Len(i), Len(v) = Len(i)
  PROVE  Good([t EXCEPT !.ids = i, !.data = d, !.versions = v, !.idMap = m,
                        !.indexes = x])
<1>1. [t EXCEPT !.ids = i, !.data = d, !.versions = v, !.idMap = m,
                !.indexes = x] \in TableRecord
  <2> HIDE DEF Id, Row, Index
  <2> QED BY DEF TableRecord
<1>2. Aligned([t EXCEPT !.ids = i, !.data = d, !.versions = v, !.idMap = m,
                        !.indexes = x])
  <2> HIDE DEF Id, Row, Index
  <2> QED BY DEF TableRecord, Aligned
<1> QED BY <1>1, <1>2 DEF Good

\* Appending as many rows as ids keeps the vectors aligned and typed.
LEMMA AppendRowsType ==
  ASSUME NEW t, Good(t), NEW newIds \in Seq(Id), NEW rows \in Seq(Row),
         Len(newIds) = Len(rows), NEW kinds
  PROVE  Good(AppendRows(t, newIds, rows, kinds))
<1> DEFINE n == Len(t.ids)
           New(id) == {i \in 1 .. Len(newIds) : newIds[i] = id}
           ones == [i \in 1 .. Len(rows) |-> 1]
           map == IF t.sequential THEN t.idMap
                  ELSE [id \in Id |-> IF New(id) = {} THEN t.idMap[id]
                                                     ELSE n + LastPosition(New(id))]
           indexes == [c \in Cols |-> IndexAppend(t.indexes[c], c, n, newIds,
                                                 rows, kinds)]
<1>ids. t.ids \in Seq(Id) /\ n \in Nat
  BY LenProperties DEF Good, TableRecord
<1>data. t.data \in Seq(Row) /\ Len(t.data) = n
  BY DEF Good, TableRecord, Aligned
<1>vers. t.versions \in Seq(Nat) /\ Len(t.versions) = n
  BY DEF Good, TableRecord, Aligned
<1>1. t.idMap \in [Id -> Nat] /\ t.indexes \in [Cols -> Index] /\ t.nextId \in Nat
  BY DEF Good, TableRecord
<1>2. ones \in Seq(Nat) /\ Len(ones) = Len(rows)
  BY LenProperties, IsASeq
<1>3. /\ t.ids \o newIds \in Seq(Id) /\ Len(t.ids \o newIds) = n + Len(rows)
      /\ t.data \o rows \in Seq(Row) /\ Len(t.data \o rows) = n + Len(rows)
      /\ t.versions \o ones \in Seq(Nat)
      /\ Len(t.versions \o ones) = n + Len(rows)
  <2> HIDE DEF ones
  <2>1. /\ t.ids \o newIds \in Seq(Id)
        /\ Len(t.ids \o newIds) = Len(t.ids) + Len(newIds)
    BY <1>ids, ConcatProperties
  <2>2. /\ t.data \o rows \in Seq(Row)
        /\ Len(t.data \o rows) = Len(t.data) + Len(rows)
    BY <1>data, ConcatProperties
  <2>3. /\ t.versions \o ones \in Seq(Nat)
        /\ Len(t.versions \o ones) = Len(t.versions) + Len(ones)
    BY <1>vers, <1>2, ConcatProperties
  <2> QED BY <2>1, <2>2, <2>3, <1>ids, <1>data, <1>vers, <1>2
<1>4. [id \in Id |-> IF New(id) = {} THEN t.idMap[id] ELSE n + LastPosition(New(id))]
        \in [Id -> Nat]
  <2> SUFFICES ASSUME NEW id \in Id, New(id) # {}
               PROVE  n + LastPosition(New(id)) \in Nat
    BY <1>1
  <2>1. New(id) \subseteq 1 .. Len(newIds) /\ Len(newIds) \in Nat
    BY LenProperties
  <2>2. LastPosition(New(id)) \in New(id)
    BY <2>1, LastPositionProperties
  <2> QED BY <1>ids, <2>1, <2>2
<1>5. ASSUME NEW c \in Cols
      PROVE  IndexAppend(t.indexes[c], c, n, newIds, rows, kinds) \in Index
  <2> DEFINE ix == t.indexes[c]
             With(v) == {i \in 1 .. Len(rows) : rows[i][c] = v}
             Pushed(v, id) == \E i \in With(v) : newIds[i] = id
  <2>1. ix \in Index
    BY <1>1
  <2>2. ASSUME NEW v \in Values, With(v) # {}
        PROVE  n + LastPosition(With(v)) \in Nat
    <3>1. With(v) \subseteq 1 .. Len(rows) /\ Len(rows) \in Nat
      BY LenProperties
    <3>2. LastPosition(With(v)) \in With(v)
      BY <3>1, <2>2, LastPositionProperties
    <3> QED BY <1>ids, <3>1, <3>2
  <2>3. [v \in Values |-> IF With(v) = {} THEN ix.uniq[v] ELSE n + LastPosition(With(v))]
          \in [Values -> Nat]
    <3> HIDE DEF With
    <3> QED BY <2>1, <2>2 DEF Index
  <2>4. [v \in Values |-> [id \in Id |->
           ix.posting[v][id] + (IF Pushed(v, id) THEN 1 ELSE 0)]]
          \in [Values -> [Id -> Nat]]
    <3> HIDE DEF Pushed
    <3> QED BY <2>1 DEF Index
  <2> QED BY <2>1, <2>3, <2>4 DEF IndexAppend, Index
<1>6. map \in [Id -> Nat]
  BY <1>1, <1>4
<1>7. indexes \in [Cols -> Index]
  BY <1>5
<1>8. Good([t EXCEPT !.ids = t.ids \o newIds, !.data = t.data \o rows,
                     !.versions = t.versions \o ones, !.idMap = map,
                     !.indexes = indexes])
  <2> HIDE DEF map, indexes, ones, n
  <2>1. t \in TableRecord
    BY DEF Good
  <2>2. /\ Len(t.data \o rows) = Len(t.ids \o newIds)
        /\ Len(t.versions \o ones) = Len(t.ids \o newIds)
    BY <1>3
  <2> QED BY <1>3, <1>6, <1>7, <2>1, <2>2, TableUpdate
<1> QED
  BY <1>8 DEF AppendRows

\* Replacing next_int_id alone keeps the type.
LEMMA NextUpdate ==
  ASSUME NEW t \in TableRecord, NEW k \in Nat
  PROVE  LET u == [t EXCEPT !.nextId = k]
         IN  /\ u \in TableRecord
             /\ u.ids = t.ids /\ u.data = t.data /\ u.versions = t.versions
             /\ u.idMap = t.idMap /\ u.sequential = t.sequential
             /\ u.indexes = t.indexes
             /\ u.nextId = k
<1> HIDE DEF Id, Row, Index
<1> QED BY DEF TableRecord

\* What AppendRows does to the fields the id invariants read.
LEMMA AppendRowsFields ==
  ASSUME NEW t, Good(t), NEW newIds, NEW rows, NEW kinds
  PROVE  /\ AppendRows(t, newIds, rows, kinds).ids = t.ids \o newIds
         /\ AppendRows(t, newIds, rows, kinds).nextId = t.nextId
         /\ AppendRows(t, newIds, rows, kinds).sequential = t.sequential
         /\ t.sequential => AppendRows(t, newIds, rows, kinds).idMap = t.idMap
BY DEF AppendRows, Good, TableRecord

-----------------------------------------------------------------------------
(* The inductive invariant *)

Dense(t) ==
  t.sequential =>
    /\ t.nextId = Len(t.ids)
    /\ \A p \in Positions(t) : t.ids[p] = p - 1
    /\ \A id \in Id : t.idMap[id] = 0

Sound(t) ==
  \A id \in Id : t.idMap[id] # 0 =>
    /\ t.idMap[id] \in Positions(t)
    /\ t.ids[t.idMap[id]] = id

Inv(t) == Good(t) /\ Dense(t) /\ Sound(t) /\ t.nextId <= AutoLimit

\* An operation that leaves the ids alone leaves the id invariants alone.
LEMMA SameIds ==
  ASSUME NEW t, Inv(t), NEW u, Good(u), u.ids = t.ids, u.idMap = t.idMap,
         u.nextId = t.nextId, u.sequential = t.sequential
  PROVE  Inv(u)
BY DEF Inv, Dense, Sound, Positions

\* A new table satisfies Inv.
LEMMA EmptyInv == Inv(EmptyTable)
<1>1. NoIndex \in Index
  BY DEF NoIndex, Index
<1>2. EmptyTable \in TableRecord
  <2>1. /\ <<>> \in Seq(Id) /\ <<>> \in Seq(Row) /\ <<>> \in Seq(Nat)
        /\ [x \in Id |-> 0] \in [Id -> Nat]
        /\ [c \in Cols |-> NoIndex] \in [Cols -> Index]
    BY <1>1
  <2> QED BY <2>1 DEF EmptyTable, TableRecord
<1> QED
  BY <1>2, AutoLimitAssumption
     DEF Inv, Good, Aligned, Dense, Sound, Positions, EmptyTable

\* id_map entries stay sound when rows are appended, even under ids in use.
LEMMA AppendSound ==
  ASSUME NEW t, Inv(t), NEW newIds \in Seq(Id), NEW rows \in Seq(Row),
         Len(newIds) = Len(rows), NEW kinds
  PROVE  Sound(AppendRows(t, newIds, rows, kinds))
<1> DEFINE u == AppendRows(t, newIds, rows, kinds)
           n == Len(t.ids)
           k == Len(newIds)
           New(id) == {i \in 1 .. k : newIds[i] = id}
<1>1. t.ids \in Seq(Id) /\ n \in Nat /\ k \in Nat /\ Good(t)
  BY LenProperties DEF Inv, Good, TableRecord
<1>2. u.ids = t.ids \o newIds
  BY <1>1, AppendRowsFields
<1>3. /\ Len(u.ids) = n + k
      /\ \A p \in 1 .. n + k :
           u.ids[p] = IF p <= n THEN t.ids[p] ELSE newIds[p - n]
  <2>1. /\ Len(t.ids \o newIds) = n + k
        /\ \A p \in 1 .. n + k :
             (t.ids \o newIds)[p] = IF p <= n THEN t.ids[p] ELSE newIds[p - n]
    BY <1>1, ConcatLookup
  <2> QED BY <1>2, <2>1
<1>4. SUFFICES ASSUME NEW id \in Id, u.idMap[id] # 0
               PROVE  u.idMap[id] \in 1 .. n + k /\ u.ids[u.idMap[id]] = id
  BY <1>3 DEF Sound, Positions
<1>5. CASE u.idMap[id] = t.idMap[id]
  <2>1. t.idMap[id] \in 1 .. n /\ t.ids[t.idMap[id]] = id
    BY <1>4, <1>5 DEF Inv, Sound, Positions
  <2> HIDE DEF u, n, k
  <2> QED BY <1>1, <1>3, <1>5, <2>1
<1>6. CASE u.idMap[id] # t.idMap[id]
  <2>1. New(id) # {} /\ u.idMap[id] = n + LastPosition(New(id))
    BY <1>1, <1>6 DEF AppendRows, Good, TableRecord
  <2>2. LastPosition(New(id)) \in New(id)
    BY <1>1, <2>1, LastPositionProperties
  <2> HIDE DEF u, n, k
  <2> QED BY SMTT(30), <1>1, <1>3, <2>1, <2>2
<1> QED BY <1>5, <1>6

\* Inserting with automatic ids preserves Inv.
LEMMA AppendAutoInv ==
  ASSUME NEW t, Inv(t), NEW rows \in Seq(Row), NEW kinds,
         t.nextId + Len(rows) <= AutoLimit
  PROVE  Inv(AppendAuto(t, rows, kinds))
<1> DEFINE fresh == FreshIds(t, Len(rows))
           u == AppendRows(t, fresh, rows, kinds)
           w == AppendAuto(t, rows, kinds)
<1>1. Good(t) /\ t.nextId \in Nat /\ Len(rows) \in Nat /\ AutoLimit \in Nat
      /\ t.ids \in Seq(Id) /\ Len(t.ids) \in Nat
  BY AutoLimitAssumption, LenProperties DEF Inv, Good, TableRecord
<1>2. fresh \in Seq(Id) /\ Len(fresh) = Len(rows)
  <2>1. \A i \in 1 .. Len(rows) : t.nextId + i - 1 \in 0 .. AutoLimit - 1
    BY <1>1
  <2>2. fresh \in [1 .. Len(rows) -> Id]
    BY <2>1 DEF FreshIds, Id
  <2> QED BY <1>1, <2>2, IsASeq, LenProperties
<1>3. Good(u) /\ Sound(u)
  BY <1>1, <1>2, AppendRowsType, AppendSound
<1>4. w = [u EXCEPT !.nextId = t.nextId + Len(rows)]
  BY DEF AppendAuto
<1>5. /\ u.ids = t.ids \o fresh
      /\ u.sequential = t.sequential
      /\ t.sequential => u.idMap = t.idMap
  BY <1>1, AppendRowsFields
<1>6. /\ w \in TableRecord
      /\ w.ids = u.ids /\ w.data = u.data /\ w.versions = u.versions
      /\ w.idMap = u.idMap /\ w.sequential = u.sequential
      /\ w.nextId = t.nextId + Len(rows)
  <2>1. u \in TableRecord
    BY <1>3 DEF Good
  <2> HIDE DEF u, w
  <2>2. t.nextId + Len(rows) \in Nat
    BY <1>1
  <2> QED BY <1>4, <2>1, <2>2, NextUpdate
<1>7. Good(w) /\ Sound(w)
  BY <1>3, <1>6 DEF Good, Aligned, Sound, Positions
<1>8. Dense(w)
  <2> SUFFICES ASSUME t.sequential
               PROVE  /\ w.nextId = Len(w.ids)
                      /\ \A p \in 1 .. Len(w.ids) : w.ids[p] = p - 1
                      /\ \A id \in Id : w.idMap[id] = 0
    BY <1>5, <1>6 DEF Dense, Positions
  <2>1. /\ t.nextId = Len(t.ids)
        /\ \A p \in 1 .. Len(t.ids) : t.ids[p] = p - 1
        /\ \A id \in Id : t.idMap[id] = 0
    BY DEF Inv, Dense, Positions
  <2>2. \A i \in 1 .. Len(rows) : fresh[i] = t.nextId + i - 1
    BY DEF FreshIds
  <2>3. /\ Len(w.ids) = Len(t.ids) + Len(rows)
        /\ \A p \in 1 .. Len(t.ids) + Len(rows) :
             w.ids[p] = IF p <= Len(t.ids) THEN t.ids[p] ELSE fresh[p - Len(t.ids)]
    <3>1. /\ Len(t.ids \o fresh) = Len(t.ids) + Len(fresh)
          /\ \A p \in 1 .. Len(t.ids) + Len(fresh) :
               (t.ids \o fresh)[p] =
                  IF p <= Len(t.ids) THEN t.ids[p] ELSE fresh[p - Len(t.ids)]
      BY ZenonT(60), <1>1, <1>2, ConcatLookup
    <3>2. w.ids = t.ids \o fresh
      BY <1>5, <1>6
    <3> HIDE DEF fresh, w, u
    <3> QED BY <1>2, <3>1, <3>2
  <2>4. w.nextId = t.nextId + Len(rows) /\ w.idMap = t.idMap
    BY <1>5, <1>6
  <2> HIDE DEF fresh, w, u
  <2>5. w.nextId = Len(w.ids)
    BY <2>1, <2>3, <2>4
  <2>6. ASSUME NEW p \in 1 .. Len(w.ids)
        PROVE  w.ids[p] = p - 1
    <3>1. p \in 1 .. Len(t.ids) + Len(rows)
      BY <2>3
    <3>2. CASE p <= Len(t.ids)
      BY <1>1, <2>1, <2>3, <3>1, <3>2
    <3>3. CASE ~ (p <= Len(t.ids))
      <4>1. p - Len(t.ids) \in 1 .. Len(rows)
        BY <1>1, <3>1, <3>3
      <4>2. w.ids[p] = fresh[p - Len(t.ids)]
        BY <2>3, <3>1, <3>3
      <4>3. fresh[p - Len(t.ids)] = t.nextId + (p - Len(t.ids)) - 1
        BY <2>2, <4>1
      <4>4. t.nextId + (p - Len(t.ids)) - 1 = p - 1
        <5>1. t.nextId = Len(t.ids) /\ Len(t.ids) \in Nat /\ p \in Int
          BY <1>1, <2>1, <3>1
        <5> QED BY <5>1
      <4> QED BY <4>2, <4>3, <4>4
    <3> QED BY <3>2, <3>3
  <2> QED BY <2>1, <2>4, <2>5, <2>6
<1> QED
  BY <1>6, <1>7, <1>8 DEF Inv

\* Leaving sequential mode fills id_map soundly.
LEMMA LeaveSequentialInv ==
  ASSUME NEW t, Inv(t)
  PROVE  LET u == LeaveSequential(t)
         IN  /\ Inv(u)
             /\ u.sequential = FALSE
             /\ u.ids = t.ids /\ u.data = t.data /\ u.versions = t.versions
             /\ u.nextId = t.nextId /\ u.indexes = t.indexes
             /\ ~ t.sequential => u.idMap = t.idMap
<1> DEFINE u == LeaveSequential(t)
           At(id) == {p \in Positions(t) : t.ids[p] = id}
           map == [id \in Id |-> IF At(id) = {} THEN t.idMap[id] ELSE LastPosition(At(id))]
<1>1. /\ t \in TableRecord /\ Aligned(t) /\ Dense(t) /\ Sound(t)
      /\ t.nextId <= AutoLimit
      /\ Len(t.ids) \in Nat
      /\ t.idMap \in [Id -> Nat]
  BY LenProperties DEF Inv, Good, TableRecord
<1>2. CASE ~ t.sequential
  <2>1. u = t
    BY <1>2 DEF LeaveSequential
  <2> QED BY <1>1, <1>2, <2>1 DEF TableRecord
<1>3. CASE t.sequential
  <2>1. \A id \in Id : At(id) # {} => /\ LastPosition(At(id)) \in Positions(t)
                                      /\ t.ids[LastPosition(At(id))] = id
    <3> SUFFICES ASSUME NEW id \in Id, At(id) # {}
                 PROVE  LastPosition(At(id)) \in At(id)
      OBVIOUS
    <3>1. At(id) \subseteq 1 .. Len(t.ids)
      BY DEF Positions
    <3> QED BY <1>1, <3>1, LastPositionProperties
  <2>2. map \in [Id -> Nat]
    <3>1. Positions(t) \subseteq Nat
      BY <1>1 DEF Positions
    <3> HIDE DEF At
    <3> QED BY <1>1, <2>1, <3>1
  <2>3. u = [t EXCEPT !.sequential = FALSE, !.idMap = map]
    BY <1>3 DEF LeaveSequential, FillIdMap
  <2>4. /\ u \in TableRecord /\ u.sequential = FALSE /\ u.idMap = map
        /\ u.ids = t.ids /\ u.data = t.data /\ u.versions = t.versions
        /\ u.nextId = t.nextId /\ u.indexes = t.indexes
    <3> HIDE DEF map, Id, Row, Index, u
    <3> QED BY <1>1, <2>2, <2>3 DEF TableRecord
  <2>5. Sound(u)
    <3> SUFFICES ASSUME NEW id \in Id, map[id] # 0
                 PROVE  map[id] \in Positions(t) /\ t.ids[map[id]] = id
      BY <2>4 DEF Sound, Positions
    <3>1. CASE At(id) = {}
      <4>1. map[id] = t.idMap[id]
        BY <3>1
      <4> QED BY <1>1, <4>1 DEF Sound
    <3>2. CASE At(id) # {}
      <4>1. map[id] = LastPosition(At(id))
        BY <3>2
      <4> QED BY <2>1, <3>2, <4>1
    <3> QED BY <3>1, <3>2
  <2> QED BY <1>1, <1>3, <2>4, <2>5 DEF Inv, Good, Aligned, Dense
<1> QED BY <1>2, <1>3

\* Inserting with a custom id, duplicate or not, preserves Inv.
LEMMA InsertCustomInv ==
  ASSUME NEW t, Inv(t), NEW id \in Id, NEW row \in Row
  PROVE  Inv(InsertCustom(t, id, row))
<1> DEFINE u == LeaveSequential(t)
           w == AppendRows(u, <<id>>, <<row>>, {"unique"})
<1>1. Inv(u) /\ u.sequential = FALSE /\ Good(u)
  BY LeaveSequentialInv DEF Inv
<1>2. /\ <<id>> \in Seq(Id) /\ <<row>> \in Seq(Row)
      /\ Len(<<id>>) = Len(<<row>>)
  BY DEF Id
<1>3. Good(w) /\ Sound(w)
  BY <1>1, <1>2, AppendRowsType, AppendSound
<1>4. w.sequential = FALSE /\ w.nextId = u.nextId
  BY <1>1, AppendRowsFields
<1>5. Inv(w)
  BY <1>1, <1>3, <1>4 DEF Inv, Dense
<1> QED BY <1>1, <1>5 DEF InsertCustom

\* In a good state both lookups agree, and what they find has the id asked for.
LEMMA GetIndexFinds ==
  ASSUME NEW t, Inv(t), NEW id \in Id
  PROVE  /\ Get(t, id) = GetIndex(t, id)
         /\ GetIndex(t, id) # 0 => /\ GetIndex(t, id) \in Positions(t)
                                   /\ t.ids[GetIndex(t, id)] = id
<1>1. Len(t.ids) \in Nat
  BY LenProperties DEF Inv, Good, TableRecord
<1>2. CASE t.sequential /\ id \in Nat /\ id < Len(t.ids)
  <2>1. id + 1 \in Positions(t)
    BY <1>1, <1>2 DEF Positions
  <2>2. t.ids[id + 1] = id
    BY <1>2, <2>1 DEF Inv, Dense
  <2> QED BY <1>2, <2>1, <2>2 DEF Get, GetIndex
<1>3. CASE ~ (t.sequential /\ id \in Nat /\ id < Len(t.ids))
  <2>1. Get(t, id) = t.idMap[id] /\ GetIndex(t, id) = t.idMap[id]
    BY <1>3 DEF Get, GetIndex
  <2> QED BY <2>1 DEF Inv, Sound
<1> QED BY <1>2, <1>3

\* The index part of an update keeps the index type.
LEMMA IndexUpdateType ==
  ASSUME NEW ix \in Index, NEW id \in Id, NEW old \in Values, NEW new \in Values
  PROVE  IndexUpdate(ix, id, old, new) \in Index
<1> DEFINE P == ix.posting
           Q == [P EXCEPT ![old] = [P[old] EXCEPT ![id] = 0]]
           R == [Q EXCEPT ![new] = [Q[new] EXCEPT ![id] = @ + 1]]
<1>1. P \in [Values -> [Id -> Nat]]
  BY DEF Index
<1>2. Q \in [Values -> [Id -> Nat]]
  <2>1. [P[old] EXCEPT ![id] = 0] \in [Id -> Nat]
    BY <1>1
  <2> QED BY <1>1, <2>1
<1>3. R \in [Values -> [Id -> Nat]]
  <2> HIDE DEF Q
  <2>1. [Q[new] EXCEPT ![id] = @ + 1] \in [Id -> Nat]
    BY <1>2
  <2> QED BY <1>2, <2>1
<1>4. [ix EXCEPT !.posting = R] \in Index
  <2> HIDE DEF R, Id
  <2> QED BY <1>3 DEF Index
<1> QED BY <1>4 DEF IndexUpdate

\* Writing a row at a position in range preserves Inv.
LEMMA WriteRowInv ==
  ASSUME NEW t, Inv(t), NEW p \in Positions(t), NEW id \in Id, NEW row \in Row
  PROVE  Inv(WriteRow(t, p, id, row))
<1> DEFINE data == [t.data EXCEPT ![p] = row]
           versions == [t.versions EXCEPT ![p] = @ + 1]
           indexes == [c \in Cols |->
                         IndexUpdate(t.indexes[c], id, t.data[p][c], row[c])]
           w == WriteRow(t, p, id, row)
<1>1. /\ t \in TableRecord /\ Aligned(t) /\ Len(t.ids) \in Nat
      /\ t.ids \in Seq(Id) /\ t.data \in Seq(Row) /\ t.versions \in Seq(Nat)
      /\ t.indexes \in [Cols -> Index] /\ t.idMap \in [Id -> Nat]
  BY LenProperties DEF Inv, Good, TableRecord
<1>2. /\ p \in 1 .. Len(t.data)
      /\ p \in 1 .. Len(t.versions)
  BY <1>1 DEF Positions, Aligned
<1>3. data \in Seq(Row) /\ Len(data) = Len(t.data)
  BY <1>1, <1>2, ExceptSeq
<1>4. versions \in Seq(Nat) /\ Len(versions) = Len(t.versions)
  <2>1. t.versions[p] + 1 \in Nat
    BY <1>1, <1>2, ElementOfSeq
  <2> QED BY <1>1, <1>2, <2>1, ExceptSeq
<1>5. indexes \in [Cols -> Index]
  <2> SUFFICES ASSUME NEW c \in Cols
               PROVE  IndexUpdate(t.indexes[c], id, t.data[p][c], row[c]) \in Index
    OBVIOUS
  <2>1. t.data[p] \in Row
    BY <1>1, <1>2, ElementOfSeq
  <2>2. t.data[p][c] \in Values /\ row[c] \in Values
    BY <2>1 DEF Row
  <2>3. t.indexes[c] \in Index
    BY <1>1
  <2> QED BY <2>2, <2>3, IndexUpdateType
<1>6. w = [t EXCEPT !.data = data, !.versions = versions, !.indexes = indexes]
  BY <1>1 DEF WriteRow, TableRecord
<1>7. /\ w \in TableRecord
      /\ w.ids = t.ids /\ w.data = data /\ w.versions = versions
      /\ w.idMap = t.idMap /\ w.nextId = t.nextId /\ w.sequential = t.sequential
  <2> HIDE DEF data, versions, indexes, Id, Row, Index, w
  <2> QED BY <1>1, <1>3, <1>4, <1>5, <1>6 DEF TableRecord
<1>8. Good(w)
  BY <1>1, <1>3, <1>4, <1>7 DEF Good, Aligned
<1> QED
  BY <1>7, <1>8, SameIds

\* Both updates preserve Inv.
LEMMA UpdateInv ==
  ASSUME NEW t, Inv(t), NEW id \in Id, NEW row \in Row
  PROVE  Inv(Update(t, id, row)) /\ Inv(UpdateValues(t, id, row))
<1>1. t.idMap[id] # 0 => t.idMap[id] \in Positions(t)
  BY DEF Inv, Sound
<1>2. GetIndex(t, id) # 0 => GetIndex(t, id) \in Positions(t)
  BY GetIndexFinds
<1> QED BY <1>1, <1>2, WriteRowInv DEF Update, UpdateValues

\* So does writing a single cell.
LEMMA UpdateByIndicesInv ==
  ASSUME NEW t, Inv(t), NEW id \in Id, NEW c \in Cols, NEW v \in Values
  PROVE  Inv(UpdateByIndices(t, id, c, v))
<1> DEFINE p == GetIndex(t, id)
           data == [t.data EXCEPT ![p] = [t.data[p] EXCEPT ![c] = v]]
           w == [t EXCEPT !.data = data]
<1>1. CASE p = 0
  BY <1>1 DEF UpdateByIndices
<1>2. CASE p # 0
  <2>1. /\ t \in TableRecord /\ Aligned(t) /\ Len(t.ids) \in Nat
        /\ t.data \in Seq(Row)
    BY LenProperties DEF Inv, Good, TableRecord
  <2>2. p \in 1 .. Len(t.data)
    BY <1>2, <2>1, GetIndexFinds DEF Positions, Aligned
  <2>3. [t.data[p] EXCEPT ![c] = v] \in Row
    <3>1. t.data[p] \in Row
      BY <2>1, <2>2, ElementOfSeq
    <3> QED BY <3>1 DEF Row
  <2>4. data \in Seq(Row) /\ Len(data) = Len(t.data)
    BY <2>1, <2>2, <2>3, ExceptSeq
  <2>5. /\ w \in TableRecord
        /\ w.ids = t.ids /\ w.data = data /\ w.versions = t.versions
        /\ w.idMap = t.idMap /\ w.nextId = t.nextId /\ w.sequential = t.sequential
    <3> HIDE DEF data, Id, Row, Index
    <3> QED BY <2>1, <2>4 DEF TableRecord
  <2>6. Good(w)
    BY <2>1, <2>4, <2>5 DEF Good, Aligned
  <2>7. Inv(w)
    BY <2>5, <2>6, SameIds
  <2>8. UpdateByIndices(t, id, c, v) = w
    BY <1>2, <2>1 DEF UpdateByIndices, TableRecord
  <2> QED BY <2>7, <2>8
<1> QED BY <1>1, <1>2

\* w is t without the row with this id: the last row has taken its place in every
\* vector, and id_map has followed it.
RowGone(t, id, w) ==
  LET p == GetIndex(t, id)
      n == Len(t.ids)
  IN  /\ n \in Nat /\ p \in 1 .. n /\ t.ids[p] = id /\ t.ids[n] \in Id
      /\ w \in TableRecord /\ Aligned(w) /\ Len(w.ids) = n - 1
      /\ \A q \in 1 .. n - 1 : w.ids[q] = IF q = p THEN t.ids[n] ELSE t.ids[q]
      /\ \A q \in 1 .. n - 1 : w.data[q] = IF q = p THEN t.data[n] ELSE t.data[q]
      /\ \A q \in 1 .. n - 1 :
           w.versions[q] = IF q = p THEN t.versions[n] ELSE t.versions[q]
      /\ w.nextId = t.nextId /\ w.sequential = FALSE /\ w.indexes = t.indexes
      /\ \A x \in Id : w.idMap[x] = IF p < n /\ x = t.ids[n] THEN p
                                    ELSE IF x = id THEN 0 ELSE LeaveSequential(t).idMap[x]

\* That is what delete leaves behind, in both branches.
LEMMA DeleteFields ==
  ASSUME NEW t, Inv(t), NEW id \in Id, GetIndex(t, id) # 0
  PROVE  RowGone(t, id, Delete(t, id))
<1> DEFINE p == GetIndex(t, id)
           u == LeaveSequential(t)
           n == Len(t.ids)
           removed == [u.idMap EXCEPT ![id] = 0]
           map == IF p < n THEN [removed EXCEPT ![t.ids[n]] = p] ELSE removed
           ids == SwapRemove(t.ids, p)
           data == SwapRemove(t.data, p)
           versions == SwapRemove(t.versions, p)
           w == [u EXCEPT !.ids = ids, !.data = data, !.versions = versions, !.idMap = map]
<1>1. /\ Inv(u) /\ u.sequential = FALSE
      /\ u.ids = t.ids /\ u.data = t.data /\ u.versions = t.versions
      /\ u.nextId = t.nextId /\ u.indexes = t.indexes
  BY LeaveSequentialInv
<1>2. /\ u \in TableRecord /\ Aligned(u)
      /\ t.ids \in Seq(Id) /\ t.data \in Seq(Row) /\ t.versions \in Seq(Nat)
      /\ u.idMap \in [Id -> Nat]
      /\ Len(t.data) = n /\ Len(t.versions) = n /\ n \in Nat
  <2> HIDE DEF u
  <2> QED BY <1>1, LenProperties DEF Inv, Good, TableRecord, Aligned
<1>3. p \in 1 .. n /\ t.ids[p] = id
  BY GetIndexFinds DEF Positions
<1>4. t.ids[n] \in Id
  <2>1. n \in 1 .. n
    BY <1>2, <1>3
  <2> HIDE DEF Id
  <2> QED BY <1>2, <2>1, ElementOfSeq
<1>5. /\ ids \in Seq(Id) /\ Len(ids) = n - 1
      /\ \A q \in 1 .. n - 1 : ids[q] = IF q = p THEN t.ids[n] ELSE t.ids[q]
  <2>1. t.ids \in Seq(Id)
    BY <1>2
  <2>2. p \in 1 .. Len(t.ids)
    BY <1>3
  <2> HIDE DEF p, n
  <2>3. /\ ids \in Seq(Id) /\ Len(ids) = Len(t.ids) - 1
        /\ \A q \in 1 .. Len(t.ids) - 1 :
             ids[q] = IF q = p THEN t.ids[Len(t.ids)] ELSE t.ids[q]
    BY <2>1, <2>2, SwapRemoveProperties
  <2> HIDE DEF ids
  <2> QED BY <2>3 DEF n
<1>6. /\ data \in Seq(Row) /\ Len(data) = n - 1
      /\ \A q \in 1 .. n - 1 : data[q] = IF q = p THEN t.data[n] ELSE t.data[q]
  <2>0. t.data \in Seq(Row)
    BY <1>2
  <2>1. p \in 1 .. Len(t.data)
    BY <1>2, <1>3
  <2> HIDE DEF p, n
  <2>2. /\ data \in Seq(Row) /\ Len(data) = Len(t.data) - 1
        /\ \A q \in 1 .. Len(t.data) - 1 :
             data[q] = IF q = p THEN t.data[Len(t.data)] ELSE t.data[q]
    BY <2>0, <2>1, SwapRemoveProperties
  <2> HIDE DEF data
  <2> QED BY <1>2, <2>2
<1>7. /\ versions \in Seq(Nat) /\ Len(versions) = n - 1
      /\ \A q \in 1 .. n - 1 : versions[q] = IF q = p THEN t.versions[n] ELSE t.versions[q]
  <2>0. t.versions \in Seq(Nat)
    BY <1>2
  <2>1. p \in 1 .. Len(t.versions)
    BY <1>2, <1>3
  <2> HIDE DEF p, n
  <2>2. /\ versions \in Seq(Nat) /\ Len(versions) = Len(t.versions) - 1
        /\ \A q \in 1 .. Len(t.versions) - 1 :
             versions[q] = IF q = p THEN t.versions[Len(t.versions)] ELSE t.versions[q]
    BY <2>0, <2>1, SwapRemoveProperties
  <2> HIDE DEF versions
  <2> QED BY <1>2, <2>2
<1>8. /\ map \in [Id -> Nat]
      /\ \A x \in Id : map[x] = IF p < n /\ x = t.ids[n] THEN p
                                ELSE IF x = id THEN 0 ELSE u.idMap[x]
  <2> HIDE DEF u, p
  <2> QED BY SMTT(30), <1>2, <1>3, <1>4
<1>9. /\ w \in TableRecord
      /\ w.ids = ids /\ w.data = data /\ w.versions = versions
      /\ w.idMap = map /\ w.nextId = u.nextId /\ w.sequential = FALSE
      /\ w.indexes = u.indexes
  <2> HIDE DEF u, ids, data, versions, map, Id, Row, Index
  <2> QED BY <1>1, <1>2, <1>5, <1>6, <1>7, <1>8 DEF TableRecord
<1>10. Delete(t, id) = w
  BY <1>1, <1>2 DEF Delete, RemoveRow, Unmapped, TableRecord
<1>11. Aligned(w)
  <2> HIDE DEF w, ids, data, versions
  <2> QED BY <1>5, <1>6, <1>7, <1>9 DEF Aligned
<1>12. RowGone(t, id, w)
  <2> HIDE DEF w, ids, data, versions, map
  <2> QED BY <1>1, <1>2, <1>3, <1>4, <1>5, <1>6, <1>7, <1>8, <1>9, <1>11 DEF RowGone
<1> QED BY <1>10, <1>12

\* delete: the moved row keeps its id_map entry, in both branches.
LEMMA DeleteInv ==
  ASSUME NEW t, Inv(t), NEW id \in Id
  PROVE  Inv(Delete(t, id))
<1> DEFINE p == GetIndex(t, id)
           u == LeaveSequential(t)
           n == Len(t.ids)
           w == Delete(t, id)
<1>1. CASE p = 0
  BY <1>1 DEF Delete
<1>2. CASE p # 0
  <2>1. /\ n \in Nat /\ p \in 1 .. n /\ t.ids[p] = id /\ t.ids[n] \in Id
        /\ w \in TableRecord /\ Aligned(w) /\ Len(w.ids) = n - 1
        /\ \A q \in 1 .. n - 1 : w.ids[q] = IF q = p THEN t.ids[n] ELSE t.ids[q]
        /\ w.nextId = t.nextId /\ w.sequential = FALSE
        /\ \A x \in Id : w.idMap[x] = IF p < n /\ x = t.ids[n] THEN p
                                      ELSE IF x = id THEN 0 ELSE u.idMap[x]
    <3>1. RowGone(t, id, w)
      BY <1>2, DeleteFields
    <3> HIDE DEF w
    <3> QED BY <3>1 DEF RowGone
  <2>2. Inv(u) /\ u.ids = t.ids /\ t.nextId <= AutoLimit
    BY LeaveSequentialInv DEF Inv
  <2>3. ASSUME NEW x \in Id, w.idMap[x] # 0
        PROVE  w.idMap[x] \in 1 .. n - 1 /\ w.ids[w.idMap[x]] = x
    <3> HIDE DEF u, n, p, w
    <3>1. CASE p < n /\ x = t.ids[n]
      BY <2>1, <3>1
    <3>2. CASE ~ (p < n /\ x = t.ids[n])
      <4>1. x # id /\ w.idMap[x] = u.idMap[x]
        BY <2>1, <2>3, <3>2
      <4>2. u.idMap[x] \in 1 .. n /\ t.ids[u.idMap[x]] = x
        <5>1. Sound(u) /\ Len(u.ids) = n
          BY <2>2 DEF Inv, n
        <5> QED BY <2>2, <2>3, <4>1, <5>1 DEF Sound, Positions
      <4>3. u.idMap[x] # p /\ u.idMap[x] # n
        BY <2>1, <3>2, <4>1, <4>2
      <4> QED BY <2>1, <4>1, <4>2, <4>3
    <3> QED BY <3>1, <3>2
  <2>4. Inv(w)
    <3> HIDE DEF w, u, n
    <3> QED BY <2>1, <2>2, <2>3 DEF Inv, Good, Dense, Sound, Positions
  <2> QED BY <2>4
<1> QED BY <1>1, <1>2

\* Building an index preserves Inv.
LEMMA CreateIndexInv ==
  ASSUME NEW t, Inv(t), NEW c \in Cols, NEW kind \in {"plain", "unique"}
  PROVE  Inv(CreateIndex(t, c, kind))
<1> DEFINE At(v, id) == {p \in Scan(t, c, v) : t.ids[p] = id}
           posting == IF kind = "plain"
                      THEN [v \in Values |-> [id \in Id |-> Cardinality(At(v, id))]]
                      ELSE NoIndex.posting
           uniq == IF kind = "unique"
                   THEN [v \in Values |-> IF Scan(t, c, v) = {} THEN 0
                                          ELSE LastPosition(Scan(t, c, v))]
                   ELSE NoIndex.uniq
           ix == [kind |-> kind, posting |-> posting, uniq |-> uniq]
           w == [t EXCEPT !.indexes[c] = ix]
<1>1. t \in TableRecord /\ Aligned(t) /\ Len(t.ids) \in Nat
      /\ t.indexes \in [Cols -> Index]
  BY LenProperties DEF Inv, Good, TableRecord
<1>2. \A v \in Values, id \in Id : Cardinality(At(v, id)) \in Nat
  <2> SUFFICES ASSUME NEW v \in Values, NEW id \in Id
               PROVE  Cardinality(At(v, id)) \in Nat
    OBVIOUS
  <2>1. IsFiniteSet(1 .. Len(t.ids))
    BY <1>1, FS_Interval
  <2>2. At(v, id) \subseteq 1 .. Len(t.ids)
    BY DEF Scan, Positions
  <2> HIDE DEF At
  <2> QED BY <2>1, <2>2, FS_Subset, FS_CardinalityType
<1>3. posting \in [Values -> [Id -> Nat]]
  <2> HIDE DEF At
  <2> QED BY <1>2 DEF NoIndex
<1>4. \A v \in Values : Scan(t, c, v) # {} => LastPosition(Scan(t, c, v)) \in Nat
  <2> SUFFICES ASSUME NEW v \in Values, Scan(t, c, v) # {}
               PROVE  LastPosition(Scan(t, c, v)) \in Nat
    OBVIOUS
  <2>1. Scan(t, c, v) \subseteq 1 .. Len(t.ids)
    BY DEF Scan, Positions
  <2>2. LastPosition(Scan(t, c, v)) \in Scan(t, c, v)
    BY <1>1, <2>1, LastPositionProperties
  <2> QED BY <1>1, <2>1, <2>2
<1>5. uniq \in [Values -> Nat]
  BY <1>4 DEF NoIndex
<1>6. ix \in Index
  <2> HIDE DEF posting, uniq, Id
  <2> QED BY <1>3, <1>5 DEF Index
<1>7. [t.indexes EXCEPT ![c] = ix] \in [Cols -> Index]
  <2> HIDE DEF ix, Index
  <2> QED BY <1>1, <1>6
<1>8. /\ w \in TableRecord
      /\ w.ids = t.ids /\ w.data = t.data /\ w.versions = t.versions
      /\ w.idMap = t.idMap /\ w.nextId = t.nextId /\ w.sequential = t.sequential
  <2> HIDE DEF ix, Id, Row, Index
  <2> QED BY <1>1, <1>7 DEF TableRecord
<1>9. Good(w)
  <2> HIDE DEF w
  <2> QED BY <1>1, <1>8 DEF Good, Aligned
<1>10. Inv(w)
  <2> HIDE DEF w
  <2> QED BY <1>8, <1>9, SameIds
<1> QED BY <1>10 DEF CreateIndex

\* What a batch loop inserts before the row it rejects are well-typed rows.
LEMMA AcceptedPrefixType ==
  ASSUME NEW k \in Nat, NEW batch \in [1 .. k -> Row \cup {BadRow}]
  PROVE  /\ AcceptedPrefix(batch) \in Seq(Row)
         /\ Len(AcceptedPrefix(batch)) <= k
<1> DEFINE bad == {i \in 1 .. Len(batch) : batch[i] = BadRow}
           first == CHOOSE i \in bad : \A j \in bad : i <= j
<1>1. batch \in Seq(Row \cup {BadRow}) /\ Len(batch) = k
  BY IsASeq, LenProperties
<1>2. CASE bad = {}
  <2>1. batch \in [1 .. k -> Row]
    BY <1>1, <1>2
  <2>2. batch \in Seq(Row)
    BY <2>1, IsASeq
  <2> QED BY <1>1, <1>2, <2>2 DEF AcceptedPrefix
<1>3. CASE bad # {}
  <2>1. bad \subseteq Nat
    BY <1>1
  <2>2. \E x \in bad : \A y \in bad : x <= y
    <3> HIDE DEF bad
    <3> QED BY <1>3, <2>1, LeastElement
  <2>4. first \in bad /\ \A y \in bad : first <= y
    BY <2>2
  <2>5. first \in 1 .. k
    BY <1>1, <2>4
  <2>6. \A i \in 1 .. first - 1 : i \in 1 .. k /\ batch[i] \in Row
    <3> SUFFICES ASSUME NEW i \in 1 .. first - 1
                 PROVE  i \in 1 .. k /\ batch[i] \in Row
      OBVIOUS
    <3>1. i \in 1 .. k /\ ~ (first <= i)
      <4> HIDE DEF first
      <4> QED BY <2>5
    <3>2. i \notin bad
      BY <2>4, <3>1
    <3> QED BY <1>1, <3>1, <3>2
  <2>7. AcceptedPrefix(batch) = SubSeq(batch, 1, first - 1)
    BY <1>3 DEF AcceptedPrefix
  <2>8. first - 1 \in 0 .. k
    <3> HIDE DEF first
    <3> QED BY <2>5
  <2>9. SubSeq(batch, 1, first - 1) = [i \in 1 .. first - 1 |-> batch[i]]
    <3> HIDE DEF first
    <3> QED BY <2>8
  <2>10. [i \in 1 .. first - 1 |-> batch[i]] \in [1 .. first - 1 -> Row]
    <3> HIDE DEF first
    <3> QED BY <2>6
  <2> HIDE DEF first
  <2>11. first - 1 \in Nat
    BY <2>8
  <2>12. /\ [i \in 1 .. first - 1 |-> batch[i]] \in Seq(Row)
         /\ Len([i \in 1 .. first - 1 |-> batch[i]]) = first - 1
    BY <2>10, <2>11, IsASeq, LenProperties
  <2> QED BY <2>7, <2>8, <2>9, <2>12
<1> QED BY <1>2, <1>3

-----------------------------------------------------------------------------
(***************************************************************************)
(* What the operations do to the ids and to the plain indexes.             *)
(*                                                                         *)
(* C is the set of ids that may be given away twice.  Owned says that a    *)
(* row with any other id is the one its id finds, Listed that a plain      *)
(* index lists such a row once, under its value.  Listed is preserved only *)
(* in owned tables: the ids that deletions leave behind in a posting list  *)
(* do no harm because no row will have them again.                         *)
(***************************************************************************)

Owned(t, C) ==
  \A p \in Positions(t) : t.ids[p] \notin C =>
    /\ t.ids[p] \in Nat => t.ids[p] < t.nextId
    /\ ~t.sequential => t.idMap[t.ids[p]] = p

Listed(t, c, C) ==
  t.indexes[c].kind = "plain" =>
    \A id \in (Id \cap Nat) \ C, v \in Values :
      /\ t.indexes[c].posting[v][id] <= 1
      /\ t.indexes[c].posting[v][id] > 0 => id < t.nextId
      /\ \A p \in Positions(t) :
           t.ids[p] = id => (t.indexes[c].posting[v][id] > 0 <=> t.data[p][c] = v)

\* The fields of a table of a good type.
LEMMA Fields ==
  ASSUME NEW t, Inv(t)
  PROVE  /\ t.ids \in Seq(Id) /\ t.data \in Seq(Row) /\ t.nextId \in Nat
         /\ t.versions \in Seq(Nat) /\ Len(t.versions) = Len(t.ids)
         /\ t.idMap \in [Id -> Nat] /\ t.indexes \in [Cols -> Index]
         /\ Len(t.ids) \in Nat /\ Len(t.data) = Len(t.ids)
         /\ Positions(t) = 1 .. Len(t.ids)
         /\ \A p \in Positions(t) : t.ids[p] \in Id /\ t.data[p] \in Row
<1>1. /\ t.ids \in Seq(Id) /\ t.data \in Seq(Row) /\ t.nextId \in Nat
      /\ t.versions \in Seq(Nat) /\ Len(t.versions) = Len(t.ids)
      /\ t.idMap \in [Id -> Nat] /\ t.indexes \in [Cols -> Index]
      /\ Len(t.ids) \in Nat /\ Len(t.data) = Len(t.ids)
      /\ Positions(t) = 1 .. Len(t.ids)
  <2> HIDE DEF Id, Row, Index
  <2> QED BY LenProperties DEF Inv, Good, Aligned, TableRecord, Positions
<1>2. ASSUME NEW p \in Positions(t)
      PROVE  t.ids[p] \in Id /\ t.data[p] \in Row
  <2>1. p \in 1 .. Len(t.ids) /\ p \in 1 .. Len(t.data)
    BY <1>1
  <2> HIDE DEF Id, Row
  <2> QED BY <1>1, <2>1, ElementOfSeq
<1> QED BY <1>1, <1>2

-----------------------------------------------------------------------------
(* Rows and their ids *)

\* An owned row is found under its id.
LEMMA OwnedFound ==
  ASSUME NEW t, NEW C, Inv(t), Owned(t, C), NEW p \in Positions(t), t.ids[p] \notin C
  PROVE  GetIndex(t, t.ids[p]) = p
<1>1. Len(t.ids) \in Nat /\ p \in 1 .. Len(t.ids)
  BY Fields
<1>2. CASE t.sequential
  <2>1. t.ids[p] = p - 1
    BY <1>2 DEF Inv, Dense
  <2>2. p - 1 \in Nat /\ p - 1 < Len(t.ids) /\ (p - 1) + 1 = p
    BY <1>1
  <2> QED BY <1>2, <2>1, <2>2 DEF GetIndex
<1>3. CASE ~t.sequential
  BY <1>3 DEF GetIndex, Owned
<1> QED BY <1>2, <1>3

\* So no two owned rows share an id.
LEMMA OwnedOnce ==
  ASSUME NEW t, NEW C, Inv(t), Owned(t, C), NEW p \in Positions(t), NEW q \in Positions(t),
         t.ids[p] = t.ids[q], t.ids[p] \notin C
  PROVE  p = q
<1>1. GetIndex(t, t.ids[p]) = p /\ GetIndex(t, t.ids[q]) = q
  BY OwnedFound
<1> QED BY <1>1

\* A table with the same ids is as owned.
LEMMA SameIdsOwned ==
  ASSUME NEW t, NEW C, Owned(t, C), NEW u, u.ids = t.ids, u.idMap = t.idMap,
         u.nextId = t.nextId, u.sequential = t.sequential
  PROVE  Owned(u, C)
BY DEF Owned, Positions

\* A table without rows is owned.
LEMMA EmptyOwned ==
  ASSUME NEW C
  PROVE  Owned(EmptyTable, C)
BY DEF Owned, Positions, EmptyTable

\* Filling id_map finds every owned row.
LEMMA LeaveSequentialOwned ==
  ASSUME NEW t, NEW C, Inv(t), Owned(t, C)
  PROVE  Owned(LeaveSequential(t), C)
<1> DEFINE u == LeaveSequential(t)
           At(id) == {p \in Positions(t) : t.ids[p] = id}
<1>1. /\ Inv(u) /\ u.sequential = FALSE /\ u.ids = t.ids /\ u.nextId = t.nextId
      /\ ~ t.sequential => u.idMap = t.idMap
  BY LeaveSequentialInv
<1>2. Positions(u) = Positions(t)
  BY <1>1 DEF Positions
<1>3. ASSUME NEW p \in Positions(t), t.sequential
      PROVE  u.idMap[t.ids[p]] = p
  <2>1. t.ids[p] \in Id /\ t.idMap \in [Id -> Nat] /\ t \in TableRecord
    BY Fields DEF Inv, Good
  <2>2. u.idMap[t.ids[p]] = LastPosition(At(t.ids[p]))
    <3>1. At(t.ids[p]) # {}
      OBVIOUS
    <3>2. u.idMap = [id \in Id |-> IF At(id) = {} THEN t.idMap[id] ELSE LastPosition(At(id))]
      BY <1>3, <2>1 DEF LeaveSequential, FillIdMap, TableRecord
    <3> HIDE DEF u, At
    <3> QED BY <2>1, <3>1, <3>2
  <2>3. \A q \in At(t.ids[p]) : q = p
    <3>1. \A q \in Positions(t) : t.ids[q] = q - 1 /\ q \in Nat
      BY <1>3, Fields DEF Inv, Dense
    <3> QED BY <3>1
  <2>4. LastPosition(At(t.ids[p])) \in At(t.ids[p])
    <3>1. At(t.ids[p]) \subseteq 1 .. Len(t.ids) /\ At(t.ids[p]) # {} /\ Len(t.ids) \in Nat
      BY Fields
    <3> HIDE DEF At
    <3> QED BY <3>1, LastPositionProperties
  <2> QED BY <2>2, <2>3, <2>4
<1>4. Owned(u, C)
  <2> HIDE DEF u
  <2> QED BY <1>1, <1>2, <1>3 DEF Owned
<1> QED BY <1>4

\* Swap-remove keeps every other row owned, the moved one at its new position.
LEMMA DeleteOwned ==
  ASSUME NEW t, NEW C, Inv(t), Owned(t, C), NEW id \in Id
  PROVE  Owned(Delete(t, id), C)
<1> DEFINE p == GetIndex(t, id)
           u == LeaveSequential(t)
           n == Len(t.ids)
           w == Delete(t, id)
<1>1. CASE p = 0
  BY <1>1 DEF Delete
<1>2. CASE p # 0
  <2>1. /\ n \in Nat /\ p \in 1 .. n /\ t.ids[p] = id
        /\ Len(w.ids) = n - 1
        /\ \A q \in 1 .. n - 1 : w.ids[q] = IF q = p THEN t.ids[n] ELSE t.ids[q]
        /\ w.nextId = t.nextId
        /\ \A x \in Id : w.idMap[x] = IF p < n /\ x = t.ids[n] THEN p
                                      ELSE IF x = id THEN 0 ELSE u.idMap[x]
    <3>1. RowGone(t, id, w)
      BY <1>2, DeleteFields
    <3> HIDE DEF w
    <3> QED BY <3>1 DEF RowGone
  <2>2. \A q \in 1 .. n : t.ids[q] \notin C => u.idMap[t.ids[q]] = q
    <3>1. Owned(u, C)
      BY LeaveSequentialOwned
    <3>2. u.sequential = FALSE /\ u.ids = t.ids
      BY LeaveSequentialInv
    <3> HIDE DEF u
    <3> QED BY <3>1, <3>2 DEF Owned, Positions
  <2>3. \A q \in 1 .. n : t.ids[q] \in Id
                          /\ (t.ids[q] \notin C /\ t.ids[q] \in Nat => t.ids[q] < t.nextId)
    BY Fields DEF Owned
  <2>4. ASSUME NEW q \in 1 .. n - 1, w.ids[q] \notin C
        PROVE  /\ w.ids[q] \in Nat => w.ids[q] < t.nextId
               /\ w.idMap[w.ids[q]] = q
    <3> HIDE DEF p, u, n, w
    <3>1. CASE q = p
      <4>1. w.ids[q] = t.ids[n] /\ p < n /\ n \in 1 .. n
        BY <2>1, <3>1
      <4> QED BY <2>1, <2>3, <2>4, <3>1, <4>1
    <3>2. CASE q # p
      <4>1. w.ids[q] = t.ids[q] /\ q \in 1 .. n /\ n \in 1 .. n /\ q # n
        BY <2>1, <3>2
      <4>2. t.ids[q] # t.ids[n] /\ t.ids[q] # id
        BY <2>1, <2>2, <2>4, <3>2, <4>1
      <4>3. w.idMap[t.ids[q]] = u.idMap[t.ids[q]]
        BY <2>1, <2>3, <4>1, <4>2
      <4> QED BY <2>2, <2>3, <2>4, <4>1, <4>3
    <3> QED BY <3>1, <3>2
  <2>5. Owned(w, C)
    <3> HIDE DEF w, n
    <3> QED BY <2>1, <2>4 DEF Owned, Positions
  <2> QED BY <2>5
<1> QED BY <1>1, <1>2

\* w is t with the rows added under newIds.
Appended(t, newIds, rows, kinds, w) ==
  LET n == Len(t.ids)
      k == Len(rows)
  IN  /\ k \in Nat /\ Len(newIds) = k /\ Len(w.ids) = n + k
      /\ \A p \in 1 .. n + k : w.ids[p] = IF p <= n THEN t.ids[p] ELSE newIds[p - n]
      /\ \A p \in 1 .. n + k : w.data[p] = IF p <= n THEN t.data[p] ELSE rows[p - n]
      /\ \A p \in 1 .. n + k : w.versions[p] = IF p <= n THEN t.versions[p] ELSE 1
      /\ w.sequential = t.sequential
      /\ ~t.sequential =>
           \A id \in Id : \/ (\A i \in 1 .. k : newIds[i] # id) /\ w.idMap[id] = t.idMap[id]
                          \/ \E i \in 1 .. k : newIds[i] = id /\ w.idMap[id] = n + i
      /\ w.indexes = [c \in Cols |-> IndexAppend(t.indexes[c], c, n, newIds, rows, kinds)]

\* AppendRows extends every vector by its part of the new rows and lists them.
LEMMA AppendRowsFieldwise ==
  ASSUME NEW t, Inv(t), NEW newIds \in Seq(Id), NEW rows \in Seq(Row),
         Len(newIds) = Len(rows), NEW kinds
  PROVE  Appended(t, newIds, rows, kinds, AppendRows(t, newIds, rows, kinds))
<1> DEFINE n == Len(t.ids)
           k == Len(rows)
           w == AppendRows(t, newIds, rows, kinds)
           ones == [i \in 1 .. k |-> 1]
           New(id) == {i \in 1 .. k : newIds[i] = id}
<1>1. /\ t \in TableRecord /\ t.ids \in Seq(Id) /\ t.data \in Seq(Row)
      /\ n \in Nat /\ k \in Nat /\ Len(t.data) = n /\ Len(newIds) = k
      /\ t.versions \in Seq(Nat) /\ Len(t.versions) = n
  BY Fields, LenProperties DEF Inv, Good
<1>2. /\ w.ids = t.ids \o newIds /\ w.data = t.data \o rows
      /\ w.versions = t.versions \o ones
      /\ w.sequential = t.sequential
      /\ w.indexes = [c \in Cols |-> IndexAppend(t.indexes[c], c, n, newIds, rows, kinds)]
  BY <1>1 DEF AppendRows, TableRecord
<1>3. /\ Len(t.ids \o newIds) = n + k
      /\ \A p \in 1 .. n + k :
           (t.ids \o newIds)[p] = IF p <= n THEN t.ids[p] ELSE newIds[p - n]
  <2>1. /\ Len(t.ids \o newIds) = Len(t.ids) + Len(newIds)
        /\ \A p \in 1 .. Len(t.ids) + Len(newIds) :
             (t.ids \o newIds)[p] = IF p <= Len(t.ids) THEN t.ids[p] ELSE newIds[p - Len(t.ids)]
    BY <1>1, ConcatLookup
  <2> QED BY <1>1, <2>1
<1>4. \A p \in 1 .. n + k :
        (t.data \o rows)[p] = IF p <= n THEN t.data[p] ELSE rows[p - n]
  <2>1. \A p \in 1 .. Len(t.data) + Len(rows) :
          (t.data \o rows)[p] = IF p <= Len(t.data) THEN t.data[p] ELSE rows[p - Len(t.data)]
    BY <1>1, ConcatLookup
  <2> QED BY <1>1, <2>1
<1>5. \A p \in 1 .. n + k :
        (t.versions \o ones)[p] = IF p <= n THEN t.versions[p] ELSE 1
  <2>1. ones \in Seq(Nat) /\ Len(ones) = k
    BY <1>1, LenProperties, IsASeq
  <2>2. \A p \in 1 .. Len(t.versions) + Len(ones) :
          (t.versions \o ones)[p] =
            IF p <= Len(t.versions) THEN t.versions[p] ELSE ones[p - Len(t.versions)]
    <3> HIDE DEF ones
    <3> QED BY <1>1, <2>1, ConcatLookup
  <2>3. \A i \in 1 .. k : ones[i] = 1
    OBVIOUS
  <2> HIDE DEF ones
  <2> QED BY SMTT(30), <1>1, <2>1, <2>2, <2>3
<1>6. ASSUME ~t.sequential, NEW id \in Id
      PROVE  \/ (\A i \in 1 .. k : newIds[i] # id) /\ w.idMap[id] = t.idMap[id]
             \/ \E i \in 1 .. k : newIds[i] = id /\ w.idMap[id] = n + i
  <2>1. w.idMap[id] = IF New(id) = {} THEN t.idMap[id] ELSE n + LastPosition(New(id))
    BY <1>1, <1>6 DEF AppendRows, TableRecord
  <2>2. CASE New(id) = {}
    BY <2>1, <2>2
  <2>3. CASE New(id) # {}
    <3>1. LastPosition(New(id)) \in New(id)
      BY <1>1, <2>3, LastPositionProperties
    <3> QED BY <2>1, <2>3, <3>1
  <2> QED BY <2>2, <2>3
<1>7. Appended(t, newIds, rows, kinds, w)
  <2> HIDE DEF w, ones
  <2> QED BY <1>1, <1>2, <1>3, <1>4, <1>5, <1>6 DEF Appended
<1> QED BY <1>7

\* Automatic ids are the next ones, and only next_int_id changes besides.
LEMMA AppendAutoFieldwise ==
  ASSUME NEW t, Inv(t), NEW rows \in Seq(Row), NEW kinds, t.nextId + Len(rows) <= AutoLimit
  PROVE  LET w == AppendAuto(t, rows, kinds)
         IN  /\ Appended(t, FreshIds(t, Len(rows)), rows, kinds, w)
             /\ w.nextId = t.nextId + Len(rows)
             /\ FreshIds(t, Len(rows)) \in Seq(Id)
<1> DEFINE fresh == FreshIds(t, Len(rows))
           u == AppendRows(t, fresh, rows, kinds)
           w == AppendAuto(t, rows, kinds)
<1>1. t.nextId \in Nat /\ Len(rows) \in Nat /\ AutoLimit \in Nat /\ Good(t)
  BY Fields, AutoLimitAssumption, LenProperties DEF Inv
<1>2. fresh \in Seq(Id) /\ Len(fresh) = Len(rows)
  <2>1. \A i \in 1 .. Len(rows) : t.nextId + i - 1 \in 0 .. AutoLimit - 1
    BY <1>1
  <2>2. fresh \in [1 .. Len(rows) -> Id]
    BY <2>1 DEF FreshIds, Id
  <2> QED BY <1>1, <2>2, IsASeq, LenProperties
<1>3. Appended(t, fresh, rows, kinds, u)
  BY <1>2, AppendRowsFieldwise
<1>4. u \in TableRecord
  BY <1>1, <1>2, AppendRowsType DEF Good
<1>5. /\ w.ids = u.ids /\ w.data = u.data /\ w.versions = u.versions /\ w.sequential = u.sequential
      /\ w.idMap = u.idMap /\ w.indexes = u.indexes
      /\ w.nextId = t.nextId + Len(rows)
  <2>1. w = [u EXCEPT !.nextId = t.nextId + Len(rows)]
    BY DEF AppendAuto
  <2>2. t.nextId + Len(rows) \in Nat
    BY <1>1
  <2> HIDE DEF u, w
  <2> QED BY <1>4, <2>1, <2>2, NextUpdate
<1>6. Appended(t, fresh, rows, kinds, w)
  <2> HIDE DEF u, w, fresh
  <2> QED BY <1>3, <1>5 DEF Appended
<1> QED BY <1>2, <1>5, <1>6

\* New rows are owned when their ids are neither in use nor given twice.
LEMMA AppendedOwned ==
  ASSUME NEW t, NEW C, Inv(t), Owned(t, C),
         NEW newIds \in Seq(Id), NEW rows, NEW kinds, NEW w, Appended(t, newIds, rows, kinds, w),
         w.nextId \in Nat, t.nextId <= w.nextId,
         \A i \in 1 .. Len(rows) : newIds[i] \notin C =>
           /\ newIds[i] \in Nat => newIds[i] < w.nextId
           /\ \A p \in Positions(t) : t.ids[p] # newIds[i]
           /\ \A j \in 1 .. Len(rows) : newIds[j] = newIds[i] => i = j
  PROVE  Owned(w, C)
<1> DEFINE n == Len(t.ids)
           k == Len(rows)
<1>1. /\ n \in Nat /\ Positions(t) = 1 .. n /\ t.nextId \in Nat
      /\ \A p \in 1 .. n : t.ids[p] \in Id
  BY Fields
<1>2. /\ k \in Nat /\ Len(newIds) = k /\ Len(w.ids) = n + k
      /\ \A p \in 1 .. n + k : w.ids[p] = IF p <= n THEN t.ids[p] ELSE newIds[p - n]
      /\ w.sequential = t.sequential
      /\ ~t.sequential =>
           \A id \in Id : \/ (\A i \in 1 .. k : newIds[i] # id) /\ w.idMap[id] = t.idMap[id]
                          \/ \E i \in 1 .. k : newIds[i] = id /\ w.idMap[id] = n + i
  BY DEF Appended
<1>3. SUFFICES ASSUME NEW p \in 1 .. n + k, w.ids[p] \notin C
               PROVE  /\ w.ids[p] \in Nat => w.ids[p] < w.nextId
                      /\ ~t.sequential => w.idMap[w.ids[p]] = p
  BY <1>2 DEF Owned, Positions
<1>4. CASE p <= n
  <2>1. p \in 1 .. n /\ w.ids[p] = t.ids[p] /\ t.ids[p] \in Id
    BY <1>1, <1>2, <1>4
  <2>2. t.ids[p] \in Nat => t.ids[p] < t.nextId
    BY <1>1, <1>3, <2>1 DEF Owned
  <2>3. ~t.sequential => t.idMap[t.ids[p]] = p
    BY <1>1, <1>3, <2>1 DEF Owned
  <2>4. \A i \in 1 .. k : newIds[i] # t.ids[p]
    BY <1>1, <1>3, <2>1
  <2>5. ~t.sequential => w.idMap[t.ids[p]] = t.idMap[t.ids[p]]
    BY <1>2, <2>1, <2>4
  <2>6. w.ids[p] \in Nat => w.ids[p] < w.nextId
    BY <1>1, <2>1, <2>2
  <2> QED BY <2>1, <2>3, <2>5, <2>6
<1>5. CASE ~(p <= n)
  <2>1. p - n \in 1 .. k /\ w.ids[p] = newIds[p - n] /\ n + (p - n) = p
    BY <1>1, <1>2, <1>5
  <2>2. newIds[p - n] \in Id
    <3>1. p - n \in 1 .. Len(newIds)
      BY <1>2, <2>1
    <3> HIDE DEF Id
    <3> QED BY <3>1, ElementOfSeq
  <2>3. newIds[p - n] \notin C
    BY <1>3, <2>1
  <2>4. /\ newIds[p - n] \in Nat => newIds[p - n] < w.nextId
        /\ \A j \in 1 .. k : newIds[j] = newIds[p - n] => p - n = j
    BY <2>1, <2>3
  <2>5. ASSUME ~t.sequential
        PROVE  w.idMap[newIds[p - n]] = p
    <3>1. \E i \in 1 .. k : newIds[i] = newIds[p - n] /\ w.idMap[newIds[p - n]] = n + i
      BY <1>2, <2>1, <2>2, <2>5
    <3> QED BY <2>1, <2>4, <3>1
  <2> QED BY <2>1, <2>4, <2>5
<1> QED BY <1>4, <1>5

\* Automatic ids are new, in use by no owned row, and differ from each other.
LEMMA FreshIdsNew ==
  ASSUME NEW t, NEW C, Inv(t), Owned(t, C), NEW k \in Nat, NEW i \in 1 .. k
  PROVE  /\ FreshIds(t, k)[i] \in Nat
         /\ t.nextId <= FreshIds(t, k)[i] /\ FreshIds(t, k)[i] < t.nextId + k
         /\ FreshIds(t, k)[i] \notin C => \A p \in Positions(t) : t.ids[p] # FreshIds(t, k)[i]
         /\ \A j \in 1 .. k : FreshIds(t, k)[j] = FreshIds(t, k)[i] => i = j
<1>1. t.nextId \in Nat
  BY Fields
<1>2. \A j \in 1 .. k : FreshIds(t, k)[j] = t.nextId + j - 1
  BY DEF FreshIds
<1>3. \A p \in Positions(t) : t.ids[p] \notin C /\ t.ids[p] \in Nat => t.ids[p] < t.nextId
  BY DEF Owned
<1>4. /\ FreshIds(t, k)[i] \in Nat
      /\ t.nextId <= FreshIds(t, k)[i] /\ FreshIds(t, k)[i] < t.nextId + k
  BY <1>1, <1>2
<1>5. ASSUME FreshIds(t, k)[i] \notin C, NEW p \in Positions(t), t.ids[p] = FreshIds(t, k)[i]
      PROVE  FALSE
  BY <1>1, <1>3, <1>4, <1>5
<1>6. \A j \in 1 .. k : FreshIds(t, k)[j] = FreshIds(t, k)[i] => i = j
  BY <1>1, <1>2
<1> QED BY <1>4, <1>5, <1>6

\* Inserts with automatic ids.
LEMMA AppendAutoOwned ==
  ASSUME NEW t, NEW C, Inv(t), Owned(t, C), NEW rows \in Seq(Row), NEW kinds,
         t.nextId + Len(rows) <= AutoLimit
  PROVE  Owned(AppendAuto(t, rows, kinds), C)
<1> DEFINE fresh == FreshIds(t, Len(rows))
           w == AppendAuto(t, rows, kinds)
<1>1. /\ Appended(t, fresh, rows, kinds, w) /\ w.nextId = t.nextId + Len(rows)
      /\ fresh \in Seq(Id)
  BY AppendAutoFieldwise
<1>2. Len(rows) \in Nat /\ t.nextId \in Nat
  BY Fields, LenProperties
<1>3. w.nextId \in Nat /\ t.nextId <= w.nextId
  BY <1>1, <1>2
<1>4. ASSUME NEW i \in 1 .. Len(rows), fresh[i] \notin C
      PROVE  /\ fresh[i] \in Nat => fresh[i] < w.nextId
             /\ \A p \in Positions(t) : t.ids[p] # fresh[i]
             /\ \A j \in 1 .. Len(rows) : fresh[j] = fresh[i] => i = j
  BY SMTT(30), <1>1, <1>2, <1>4, FreshIdsNew
<1> HIDE DEF w, fresh
<1>5. Owned(w, C)
  BY <1>1, <1>3, <1>4, AppendedOwned
<1> QED BY <1>5 DEF w

\* Inserts with ids of the caller's, when C has the integers among them: the
\* duplicate check finds an owned row.
LEMMA InsertCustomOwned ==
  ASSUME NEW t, NEW C, Inv(t), Owned(t, C), NEW id \in CustomIds, NEW row \in Row,
         CustomIds \cap Nat \subseteq C
  PROVE  Owned(InsertCustom(t, id, row), C)
<1> DEFINE u == LeaveSequential(t)
           w == AppendRows(u, <<id>>, <<row>>, {"unique"})
<1>1. Inv(u) /\ Owned(u, C) /\ u.sequential = FALSE /\ u.nextId \in Nat /\ Good(u)
  BY LeaveSequentialInv, LeaveSequentialOwned, Fields DEF Inv
<1>2. CASE IsDuplicate(t, id)
  BY <1>1, <1>2 DEF InsertCustom
<1>3. CASE ~IsDuplicate(t, id)
  <2>1. u.idMap[id] = 0
    BY <1>3 DEF IsDuplicate
  <2>2. <<id>> \in Seq(Id) /\ <<row>> \in Seq(Row) /\ Len(<<id>>) = 1 /\ Len(<<row>>) = 1
    BY DEF Id
  <2>3. Appended(u, <<id>>, <<row>>, {"unique"}, w) /\ w.nextId = u.nextId
    <3> HIDE DEF u
    <3>1. Appended(u, <<id>>, <<row>>, {"unique"}, w)
      BY <1>1, <2>2, AppendRowsFieldwise
    <3>2. w.nextId = u.nextId
      BY <1>1, AppendRowsFields
    <3> QED BY <3>1, <3>2
  <2>4. ASSUME NEW p \in Positions(u), u.ids[p] = id, id \notin C
        PROVE  FALSE
    <3>1. u.idMap[id] = p /\ p # 0
      <4> HIDE DEF u
      <4> QED BY <1>1, <2>4, Fields DEF Owned
    <3> QED BY <2>1, <3>1
  <2>5. Owned(w, C)
    <3>1. w.nextId \in Nat /\ u.nextId <= w.nextId
      BY <1>1, <2>3
    <3>2. ASSUME NEW i \in 1 .. 1, <<id>>[i] \notin C
          PROVE  /\ <<id>>[i] \in Nat => <<id>>[i] < w.nextId
                 /\ \A p \in Positions(u) : u.ids[p] # <<id>>[i]
                 /\ \A j \in 1 .. 1 : <<id>>[j] = <<id>>[i] => i = j
      <4>1. i = 1 /\ <<id>>[i] = id /\ id \notin C /\ id \notin Nat
        BY <3>2
      <4> HIDE DEF u, w
      <4> QED BY <2>4, <4>1
    <3> HIDE DEF u, w
    <3> QED BY <1>1, <2>2, <2>3, <3>1, <3>2, AppendedOwned
  <2> QED BY <1>3, <2>5 DEF InsertCustom
<1> QED BY <1>2, <1>3

\* Updates leave the ids alone.
LEMMA WriteRowOwned ==
  ASSUME NEW t, NEW C, Inv(t), Owned(t, C), NEW p, NEW id, NEW row
  PROVE  Owned(WriteRow(t, p, id, row), C)
<1> DEFINE w == WriteRow(t, p, id, row)
<1>1. /\ w.ids = t.ids /\ w.idMap = t.idMap
      /\ w.nextId = t.nextId /\ w.sequential = t.sequential
  BY DEF WriteRow, Inv, Good, TableRecord
<1>2. Owned(w, C)
  <2> HIDE DEF w
  <2> QED BY <1>1, SameIdsOwned
<1> QED BY <1>2

\* update and update_values leave every id with the rows it has.
LEMMA UpdateOwned ==
  ASSUME NEW t, NEW C, Inv(t), Owned(t, C), NEW id, NEW row
  PROVE  Owned(Update(t, id, row), C) /\ Owned(UpdateValues(t, id, row), C)
BY WriteRowOwned DEF Update, UpdateValues

\* So does update_by_indices.
LEMMA UpdateByIndicesOwned ==
  ASSUME NEW t, NEW C, Inv(t), Owned(t, C), NEW id, NEW c, NEW v
  PROVE  Owned(UpdateByIndices(t, id, c, v), C)
<1> DEFINE w == UpdateByIndices(t, id, c, v)
<1>1. /\ w.ids = t.ids /\ w.idMap = t.idMap
      /\ w.nextId = t.nextId /\ w.sequential = t.sequential
  BY DEF UpdateByIndices, Inv, Good, TableRecord
<1>2. Owned(w, C)
  <2> HIDE DEF w
  <2> QED BY <1>1, SameIdsOwned
<1> QED BY <1>2

\* So does an index.
LEMMA CreateIndexOwned ==
  ASSUME NEW t, NEW C, Inv(t), Owned(t, C), NEW c, NEW kind
  PROVE  Owned(CreateIndex(t, c, kind), C)
<1> DEFINE w == CreateIndex(t, c, kind)
<1>1. /\ w.ids = t.ids /\ w.idMap = t.idMap
      /\ w.nextId = t.nextId /\ w.sequential = t.sequential
  BY DEF CreateIndex, Inv, Good, TableRecord
<1>2. Owned(w, C)
  <2> HIDE DEF w
  <2> QED BY <1>1, SameIdsOwned
<1> QED BY <1>2

-----------------------------------------------------------------------------
(* The plain indexes *)

\* The index of column c lists no other rows than before.
LEMMA SameRowsListed ==
  ASSUME NEW t, NEW C, NEW c \in Cols, Listed(t, c, C),
         NEW u, u.ids = t.ids, u.data = t.data, u.nextId = t.nextId,
         u.indexes[c] = t.indexes[c]
  PROVE  Listed(u, c, C)
BY DEF Listed, Positions

\* A new table has no posting lists, and they are right.
LEMMA EmptyListed ==
  ASSUME NEW C, NEW c \in Cols
  PROVE  Listed(EmptyTable, c, C)
BY DEF Listed, EmptyTable, NoIndex

\* New rows are listed under their values: no list has their ids yet.
LEMMA AppendedListed ==
  ASSUME NEW t, NEW C, NEW c \in Cols, Inv(t), Owned(t, C), Listed(t, c, C),
         NEW newIds \in Seq(Id), NEW rows, NEW kinds, "plain" \notin kinds,
         NEW w, Appended(t, newIds, rows, kinds, w),
         w.nextId \in Nat, t.nextId <= w.nextId,
         \A i \in 1 .. Len(rows) : newIds[i] \in Nat \ C =>
           /\ t.nextId <= newIds[i] /\ newIds[i] < w.nextId
           /\ \A j \in 1 .. Len(rows) : newIds[j] = newIds[i] => i = j
  PROVE  Listed(w, c, C)
<1> DEFINE n == Len(t.ids)
           k == Len(rows)
           P == t.indexes[c].posting
           Q == w.indexes[c].posting
           With(v) == {i \in 1 .. k : rows[i][c] = v}
           Pushed(v, id) == \E i \in With(v) : newIds[i] = id
<1>1. /\ n \in Nat /\ Positions(t) = 1 .. n /\ t.nextId \in Nat
      /\ t.indexes[c] \in Index
  BY Fields
<1>2. /\ k \in Nat /\ Len(newIds) = k /\ Len(w.ids) = n + k
      /\ \A p \in 1 .. n + k : w.ids[p] = IF p <= n THEN t.ids[p] ELSE newIds[p - n]
      /\ \A p \in 1 .. n + k : w.data[p] = IF p <= n THEN t.data[p] ELSE rows[p - n]
      /\ w.indexes[c] = IndexAppend(t.indexes[c], c, n, newIds, rows, kinds)
  BY DEF Appended
<1>3. SUFFICES ASSUME w.indexes[c].kind = "plain", NEW id \in (Id \cap Nat) \ C, NEW v \in Values
               PROVE  /\ Q[v][id] <= 1
                      /\ Q[v][id] > 0 => id < w.nextId
                      /\ \A p \in 1 .. n + k :
                           w.ids[p] = id => (Q[v][id] > 0 <=> w.data[p][c] = v)
  BY <1>2 DEF Listed, Positions
<1>4. t.indexes[c].kind = "plain"
  <2>1. IndexAppend(t.indexes[c], c, n, newIds, rows, kinds).kind = t.indexes[c].kind
    BY <1>1 DEF IndexAppend, Index
  <2> QED BY <1>2, <1>3, <2>1
<1>5. Q[v][id] = P[v][id] + (IF Pushed(v, id) THEN 1 ELSE 0)
  <2>1. Q = [x \in Values |-> [y \in Id |-> P[x][y] + (IF Pushed(x, y) THEN 1 ELSE 0)]]
    BY <1>1, <1>2, <1>4 DEF IndexAppend, Index
  <2> HIDE DEF Q, P, Pushed, Id
  <2> QED BY <2>1
<1>6. /\ P[v][id] \in Nat /\ P[v][id] <= 1
      /\ P[v][id] > 0 => id < t.nextId
      /\ \A p \in 1 .. n : t.ids[p] = id => (P[v][id] > 0 <=> t.data[p][c] = v)
  <2>1. P[v][id] \in Nat
    BY <1>1 DEF Index
  <2> HIDE DEF P
  <2> QED BY <1>1, <1>4, <2>1 DEF Listed, P
<1>7. CASE \E i \in 1 .. k : newIds[i] = id
  <2>1. PICK i \in 1 .. k : newIds[i] = id
    BY <1>7
  <2>2. /\ t.nextId <= id /\ id < w.nextId
        /\ \A j \in 1 .. k : newIds[j] = id => i = j
    BY <2>1
  <2>3. P[v][id] = 0
    BY SMTT(30), <1>1, <1>6, <2>2
  <2>4. Pushed(v, id) <=> rows[i][c] = v
    BY <2>1, <2>2
  <2>5. \A p \in 1 .. n : t.ids[p] # id
    BY <1>1, <2>2 DEF Owned
  <2>6. ASSUME NEW p \in 1 .. n + k, w.ids[p] = id
        PROVE  w.data[p] = rows[i]
    <3>1. ~(p <= n)
      BY SMTT(30), <1>1, <1>2, <2>5, <2>6
    <3>2. p - n \in 1 .. k /\ newIds[p - n] = id /\ w.data[p] = rows[p - n]
      BY SMTT(30), <1>1, <1>2, <2>6, <3>1
    <3> QED BY <2>2, <3>2
  <2> HIDE DEF P, Q, Pushed
  <2>7. Q[v][id] = IF rows[i][c] = v THEN 1 ELSE 0
    BY <1>5, <2>3, <2>4
  <2> QED BY <2>2, <2>6, <2>7
<1>8. CASE ~\E i \in 1 .. k : newIds[i] = id
  <2>1. ~Pushed(v, id)
    BY <1>8
  <2>2. Q[v][id] = P[v][id]
    <3> HIDE DEF P, Q, Pushed
    <3> QED BY <1>5, <1>6, <2>1
  <2>3. ASSUME NEW p \in 1 .. n + k, w.ids[p] = id
        PROVE  p \in 1 .. n /\ t.ids[p] = id /\ w.data[p] = t.data[p]
    <3>1. p <= n
      <4>1. CASE ~(p <= n)
        <5>1. p - n \in 1 .. k /\ newIds[p - n] = id
          BY <1>1, <1>2, <2>3, <4>1
        <5> QED BY <1>8, <5>1
      <4> QED BY <4>1
    <3>2. p \in 1 .. n
      BY <1>1, <2>3, <3>1
    <3> QED BY <1>2, <2>3, <3>2
  <2> HIDE DEF P, Q, Pushed
  <2>4. Q[v][id] <= 1
    BY <1>6, <2>2
  <2>5. Q[v][id] > 0 => id < w.nextId
    <3>1. id \in Nat /\ (P[v][id] > 0 => id < t.nextId)
      BY <1>6
    <3> QED BY <1>1, <2>2, <3>1
  <2>6. ASSUME NEW p \in 1 .. n + k, w.ids[p] = id
        PROVE  Q[v][id] > 0 <=> w.data[p][c] = v
    <3>1. p \in 1 .. n /\ t.ids[p] = id /\ w.data[p] = t.data[p]
      BY <2>3, <2>6
    <3> QED BY <1>6, <2>2, <3>1
  <2> QED BY <2>4, <2>5, <2>6
<1> QED BY <1>7, <1>8

\* Inserts with automatic ids keep every plain index exact.
LEMMA AppendAutoListed ==
  ASSUME NEW t, NEW C, NEW c \in Cols, Inv(t), Owned(t, C), Listed(t, c, C),
         NEW rows \in Seq(Row), NEW kinds, "plain" \notin kinds,
         t.nextId + Len(rows) <= AutoLimit
  PROVE  Listed(AppendAuto(t, rows, kinds), c, C)
<1> DEFINE fresh == FreshIds(t, Len(rows))
           w == AppendAuto(t, rows, kinds)
<1>1. /\ Appended(t, fresh, rows, kinds, w) /\ w.nextId = t.nextId + Len(rows)
      /\ fresh \in Seq(Id)
  BY AppendAutoFieldwise
<1>2. Len(rows) \in Nat /\ t.nextId \in Nat
  BY Fields, LenProperties
<1>3. w.nextId \in Nat /\ t.nextId <= w.nextId
  BY <1>1, <1>2
<1>4. ASSUME NEW i \in 1 .. Len(rows)
      PROVE  /\ t.nextId <= fresh[i] /\ fresh[i] < w.nextId
             /\ \A j \in 1 .. Len(rows) : fresh[j] = fresh[i] => i = j
  BY <1>1, <1>2, FreshIdsNew
<1> HIDE DEF w, fresh
<1>5. Listed(w, c, C)
  BY <1>1, <1>3, <1>4, AppendedListed
<1> QED BY <1>5 DEF w

\* Inserts with other ids push these: C has the integers among them.
LEMMA InsertCustomListed ==
  ASSUME NEW t, NEW C, NEW c \in Cols, Inv(t), Owned(t, C), Listed(t, c, C),
         NEW id \in CustomIds, NEW row \in Row, CustomIds \cap Nat \subseteq C
  PROVE  Listed(InsertCustom(t, id, row), c, C)
<1> DEFINE u == LeaveSequential(t)
           w == AppendRows(u, <<id>>, <<row>>, {"unique"})
<1>1. Inv(u) /\ Owned(u, C) /\ Listed(u, c, C) /\ u.nextId \in Nat /\ Good(u)
  <2>1. /\ Inv(u) /\ u.ids = t.ids /\ u.data = t.data /\ u.nextId = t.nextId
        /\ u.indexes = t.indexes
    BY LeaveSequentialInv
  <2>2. Listed(u, c, C)
    <3> HIDE DEF u
    <3> QED BY <2>1, SameRowsListed
  <2> QED BY <2>1, <2>2, LeaveSequentialOwned, Fields DEF Inv
<1>2. <<id>> \in Seq(Id) /\ <<row>> \in Seq(Row) /\ Len(<<id>>) = 1 /\ Len(<<row>>) = 1
  BY DEF Id
<1>3. Appended(u, <<id>>, <<row>>, {"unique"}, w) /\ w.nextId = u.nextId
  <2> HIDE DEF u
  <2>1. Appended(u, <<id>>, <<row>>, {"unique"}, w)
    BY <1>1, <1>2, AppendRowsFieldwise
  <2>2. w.nextId = u.nextId
    BY <1>1, AppendRowsFields
  <2> QED BY <2>1, <2>2
<1>4. \A i \in 1 .. 1 : <<id>>[i] \notin Nat \ C
  OBVIOUS
<1>5. Listed(w, c, C)
  <2>1. w.nextId \in Nat /\ u.nextId <= w.nextId /\ "plain" \notin {"unique"}
    BY <1>1, <1>3
  <2> HIDE DEF u, w
  <2> QED BY <1>1, <1>2, <1>3, <1>4, <2>1, AppendedListed
<1> QED BY <1>1, <1>5 DEF InsertCustom

\* Writing a row moves its id from the old value to the new one.
LEMMA WriteRowListed ==
  ASSUME NEW t, NEW C, NEW c \in Cols, Inv(t), Owned(t, C), Listed(t, c, C),
         NEW p \in Positions(t), NEW row \in Row
  PROVE  Listed(WriteRow(t, p, t.ids[p], row), c, C)
<1> DEFINE w == WriteRow(t, p, t.ids[p], row)
           own == t.ids[p]
           old == t.data[p][c]
           new == row[c]
           P == t.indexes[c].posting
           Q == w.indexes[c].posting
<1>1. /\ t \in TableRecord /\ t.indexes[c] \in Index /\ P \in [Values -> [Id -> Nat]]
      /\ own \in Id /\ old \in Values /\ new \in Values
      /\ Positions(t) = 1 .. Len(t.data) /\ t.data \in Seq(Row)
  <2>1. /\ t \in TableRecord /\ t.indexes[c] \in Index /\ own \in Id
        /\ t.data[p] \in Row /\ Positions(t) = 1 .. Len(t.data) /\ t.data \in Seq(Row)
    <3> HIDE DEF Row, Index, Id
    <3> QED BY Fields DEF Inv, Good
  <2>2. P \in [Values -> [Id -> Nat]]
    <3> HIDE DEF Id
    <3> QED BY <2>1 DEF Index
  <2>3. old \in Values /\ new \in Values
    BY <2>1 DEF Row
  <2> QED BY <2>1, <2>2, <2>3
<1>2. /\ w.ids = t.ids /\ w.nextId = t.nextId
      /\ w.data = [t.data EXCEPT ![p] = row]
      /\ w.indexes[c] = IndexUpdate(t.indexes[c], own, old, new)
  BY <1>1 DEF WriteRow, TableRecord
<1>3. \A q \in Positions(t) : w.data[q] = IF q = p THEN row ELSE t.data[q]
  BY <1>1, <1>2
<1>4. SUFFICES ASSUME w.indexes[c].kind = "plain", NEW id \in (Id \cap Nat) \ C, NEW v \in Values
               PROVE  /\ Q[v][id] <= 1
                      /\ Q[v][id] > 0 => id < w.nextId
                      /\ \A q \in Positions(w) :
                           w.ids[q] = id => (Q[v][id] > 0 <=> w.data[q][c] = v)
  BY DEF Listed
<1> SUFFICES /\ Q[v][id] <= 1
             /\ Q[v][id] > 0 => id < t.nextId
             /\ \A q \in Positions(t) :
                  t.ids[q] = id => (Q[v][id] > 0 <=> w.data[q][c] = v)
  <2>1. w.ids = t.ids /\ w.nextId = t.nextId /\ Positions(w) = Positions(t)
    BY <1>2 DEF Positions
  <2> HIDE DEF w
  <2> QED BY <2>1
<1>5. t.indexes[c].kind = "plain"
  <2>1. IndexUpdate(t.indexes[c], own, old, new).kind = t.indexes[c].kind
    BY <1>1 DEF IndexUpdate, Index
  <2> QED BY <1>2, <1>4, <2>1
<1>6. \A x \in Values : /\ P[x][id] \in Nat /\ P[x][id] <= 1
                        /\ P[x][id] > 0 => id < t.nextId
                        /\ \A q \in Positions(t) :
                             t.ids[q] = id => (P[x][id] > 0 <=> t.data[q][c] = x)
  <2>1. \A x \in Values : P[x][id] \in Nat
    <3> HIDE DEF P
    <3> QED BY <1>1
  <2>2. Listed(t, c, C)
    OBVIOUS
  <2>3. \A x \in Values : /\ P[x][id] <= 1
                          /\ P[x][id] > 0 => id < t.nextId
                          /\ \A q \in Positions(t) :
                               t.ids[q] = id => (P[x][id] > 0 <=> t.data[q][c] = x)
    BY ONLY <1>4, <1>5, <2>2 DEF Listed
  <2> HIDE DEF P
  <2> QED BY <2>1, <2>3
<1>7. Q[v][id] = IF old = new \/ id # own THEN P[v][id]
                 ELSE IF v = new THEN P[new][own] + 1
                 ELSE IF v = old THEN 0 ELSE P[v][id]
  <2>1. CASE old = new
    BY <1>2, <2>1 DEF IndexUpdate
  <2>2. CASE old # new
    <3> DEFINE dropped == [P EXCEPT ![old] = [P[old] EXCEPT ![own] = 0]]
    <3>1. Q = [dropped EXCEPT ![new] = [dropped[new] EXCEPT ![own] = @ + 1]]
      <4>1. w.indexes[c] = [t.indexes[c] EXCEPT !.posting =
                              [dropped EXCEPT ![new] = [dropped[new] EXCEPT ![own] = @ + 1]]]
        BY <1>2, <1>5, <2>2 DEF IndexUpdate
      <4> HIDE DEF dropped, w
      <4> QED BY <1>1, <4>1 DEF Index
    <3>2. dropped \in [Values -> [Id -> Nat]]
      <4>1. [P[old] EXCEPT ![own] = 0] \in [Id -> Nat]
        BY <1>1
      <4> HIDE DEF P, own, old, Id
      <4> QED BY <1>1, <4>1
    <3>3. /\ dropped[new] = P[new]
          /\ dropped[v][id] = IF v = old /\ id = own THEN 0 ELSE P[v][id]
      <4> HIDE DEF P, own, old, new, Id
      <4> QED BY <1>1, <2>2
    <3>4. Q[v][id] = IF v = new /\ id = own THEN dropped[new][own] + 1 ELSE dropped[v][id]
      <4> HIDE DEF dropped, P, Q, own, old, new, Id
      <4> QED BY <1>1, <3>1, <3>2
    <3> HIDE DEF dropped, P, Q, own, old, new
    <3> QED BY <2>2, <3>3, <3>4
  <2> QED BY <2>1, <2>2
<1>8. CASE id # own
  <2>1. Q[v][id] = P[v][id]
    BY <1>7, <1>8
  <2>2. \A q \in Positions(t) : t.ids[q] = id => w.data[q] = t.data[q]
    BY <1>3, <1>8
  <2> HIDE DEF P, Q, w, own
  <2> QED BY <1>6, <2>1, <2>2
<1>9. CASE id = own
  <2>1. \A q \in Positions(t) : t.ids[q] = id => q = p
    BY <1>9, OwnedOnce
  <2>2. w.data[p] = row
    BY <1>3
  <2>3. \A x \in Values : P[x][id] > 0 <=> old = x
    BY <1>6, <1>9
  <2>4. P[new][id] \in Nat /\ P[v][id] \in Nat /\ P[v][id] <= 1
        /\ (P[old][id] > 0 => id < t.nextId) /\ old \in Values
    BY <1>1, <1>6
  <2>5. id < t.nextId
    BY <2>3, <2>4
  <2> HIDE DEF P, Q, w, own, old
  <2>6. Q[v][id] = IF new = v THEN 1 ELSE 0
    <3>1. CASE old = new
      BY <1>1, <1>7, <2>3, <2>4, <3>1
    <3>2. CASE old # new
      BY <1>1, <1>7, <1>9, <2>3, <2>4, <3>2
    <3> QED BY <3>1, <3>2
  <2> QED BY <2>1, <2>2, <2>5, <2>6
<1> QED BY <1>8, <1>9

\* Both updates write a row under its own id.
LEMMA UpdateListed ==
  ASSUME NEW t, NEW C, NEW c \in Cols, Inv(t), Owned(t, C), Listed(t, c, C),
         NEW id \in Id, NEW row \in Row
  PROVE  Listed(Update(t, id, row), c, C) /\ Listed(UpdateValues(t, id, row), c, C)
<1>1. t.idMap[id] # 0 => t.idMap[id] \in Positions(t) /\ t.ids[t.idMap[id]] = id
  BY DEF Inv, Sound
<1>2. GetIndex(t, id) # 0 => GetIndex(t, id) \in Positions(t) /\ t.ids[GetIndex(t, id)] = id
  BY GetIndexFinds
<1> QED BY <1>1, <1>2, WriteRowListed DEF Update, UpdateValues

\* delete touches no index: what it leaves behind is an id no row has.
LEMMA DeleteListed ==
  ASSUME NEW t, NEW C, NEW c \in Cols, Inv(t), Listed(t, c, C), NEW id \in Id
  PROVE  Listed(Delete(t, id), c, C)
<1> DEFINE p == GetIndex(t, id)
           n == Len(t.ids)
           w == Delete(t, id)
<1>1. CASE p = 0
  BY <1>1 DEF Delete
<1>2. CASE p # 0
  <2>1. /\ n \in Nat /\ p \in 1 .. n /\ Len(w.ids) = n - 1
        /\ \A q \in 1 .. n - 1 : w.ids[q] = IF q = p THEN t.ids[n] ELSE t.ids[q]
        /\ \A q \in 1 .. n - 1 : w.data[q] = IF q = p THEN t.data[n] ELSE t.data[q]
        /\ w.nextId = t.nextId /\ w.indexes = t.indexes
    <3>1. RowGone(t, id, w)
      BY <1>2, DeleteFields
    <3> HIDE DEF w
    <3> QED BY <3>1 DEF RowGone
  <2>2. ASSUME NEW q \in 1 .. n - 1
        PROVE  \E r \in 1 .. n : w.ids[q] = t.ids[r] /\ w.data[q] = t.data[r]
    <3> HIDE DEF w, n, p
    <3>1. CASE q = p
      <4>1. n \in 1 .. n /\ w.ids[q] = t.ids[n] /\ w.data[q] = t.data[n]
        BY <2>1, <3>1
      <4> QED BY <4>1
    <3>2. CASE q # p
      <4>1. q \in 1 .. n /\ w.ids[q] = t.ids[q] /\ w.data[q] = t.data[q]
        BY <2>1, <3>2
      <4> QED BY <4>1
    <3> QED BY <3>1, <3>2
  <2>3. Listed(w, c, C)
    <3>1. SUFFICES ASSUME t.indexes[c].kind = "plain", NEW x \in (Id \cap Nat) \ C, NEW v \in Values
                   PROVE  /\ t.indexes[c].posting[v][x] <= 1
                          /\ t.indexes[c].posting[v][x] > 0 => x < t.nextId
                          /\ \A q \in 1 .. n - 1 :
                               w.ids[q] = x => (t.indexes[c].posting[v][x] > 0 <=> w.data[q][c] = v)
      BY <2>1 DEF Listed, Positions
    <3>2. /\ t.indexes[c].posting[v][x] <= 1
          /\ t.indexes[c].posting[v][x] > 0 => x < t.nextId
          /\ \A r \in 1 .. n :
               t.ids[r] = x => (t.indexes[c].posting[v][x] > 0 <=> t.data[r][c] = v)
      BY <3>1 DEF Listed, Positions
    <3>3. ASSUME NEW q \in 1 .. n - 1, w.ids[q] = x
          PROVE  t.indexes[c].posting[v][x] > 0 <=> w.data[q][c] = v
      <4>1. PICK r \in 1 .. n : w.ids[q] = t.ids[r] /\ w.data[q] = t.data[r]
        BY <2>2
      <4> HIDE DEF w
      <4> QED BY <3>2, <3>3, <4>1
    <3> QED BY <3>2, <3>3
  <2> QED BY <2>3
<1> QED BY <1>1, <1>2

\* A new index lists every row under its value.
LEMMA CreateIndexListed ==
  ASSUME NEW t, NEW C, NEW c \in Cols, Inv(t), Owned(t, C), Listed(t, c, C),
         NEW d \in Cols, NEW kind
  PROVE  Listed(CreateIndex(t, d, kind), c, C)
<1> DEFINE w == CreateIndex(t, d, kind)
           At(v, id) == {p \in Scan(t, d, v) : t.ids[p] = id}
<1>1. /\ t \in TableRecord /\ t.indexes \in [Cols -> Index]
      /\ Positions(t) = 1 .. Len(t.ids) /\ Len(t.ids) \in Nat /\ t.nextId \in Nat
  BY Fields DEF Inv, Good
<1>2. /\ w.ids = t.ids /\ w.data = t.data /\ w.nextId = t.nextId
      /\ c # d => w.indexes[c] = t.indexes[c]
      /\ c = d => /\ w.indexes[c].kind = kind
                  /\ kind = "plain" => w.indexes[c].posting =
                       [v \in Values |-> [id \in Id |-> Cardinality(At(v, id))]]
  BY <1>1 DEF CreateIndex, TableRecord
<1>3. CASE c # d
  <2>1. Listed(w, c, C)
    <3> HIDE DEF w
    <3> QED BY <1>2, <1>3, SameRowsListed
  <2> QED BY <2>1
<1>4. ASSUME c = d, kind = "plain", NEW id \in (Id \cap Nat) \ C, NEW v \in Values
      PROVE  /\ w.indexes[c].posting[v][id] <= 1
             /\ w.indexes[c].posting[v][id] > 0 => id < t.nextId
             /\ \A p \in Positions(t) :
                  t.ids[p] = id => (w.indexes[c].posting[v][id] > 0 <=> t.data[p][c] = v)
  <2>1. w.indexes[c].posting[v][id] = Cardinality(At(v, id))
    <3> HIDE DEF w, At, Id
    <3> QED BY <1>2, <1>4
  <2>2. CASE \E p \in Positions(t) : t.ids[p] = id /\ t.data[p][c] = v
    <3>1. PICK p \in Positions(t) : t.ids[p] = id /\ t.data[p][c] = v
      BY <2>2
    <3>2. \A q \in Positions(t) : t.ids[q] = id => q = p
      BY <3>1, OwnedOnce
    <3>3. At(v, id) = {p}
      BY <1>4, <3>1, <3>2 DEF Scan
    <3>4. Cardinality(At(v, id)) = 1
      BY <3>3, FS_Singleton
    <3>5. id < t.nextId
      BY <3>1 DEF Owned
    <3> HIDE DEF At, w
    <3> QED BY <2>1, <3>1, <3>2, <3>4, <3>5
  <2>3. CASE ~\E p \in Positions(t) : t.ids[p] = id /\ t.data[p][c] = v
    <3>1. At(v, id) = {}
      BY <1>4, <2>3 DEF Scan
    <3>2. Cardinality(At(v, id)) = 0
      BY <3>1, FS_EmptySet
    <3> HIDE DEF At, w
    <3> QED BY <2>1, <2>3, <3>2
  <2> QED BY <2>2, <2>3
<1>5. CASE c = d
  <2>1. Listed(w, c, C)
    <3> HIDE DEF w
    <3> QED BY <1>2, <1>4, <1>5 DEF Listed, Positions
  <2> QED BY <2>1
<1> QED BY <1>3, <1>5

\* Writing a cell of a column without an index.
LEMMA UpdateByIndicesListed ==
  ASSUME NEW t, NEW C, NEW c \in Cols, Inv(t), Listed(t, c, C),
         NEW id \in Id, NEW d \in Cols, NEW v \in Values, t.indexes[d].kind = "none"
  PROVE  Listed(UpdateByIndices(t, id, d, v), c, C)
<1> DEFINE p == GetIndex(t, id)
           w == [t EXCEPT !.data[p][d] = v]
<1>1. CASE p = 0
  BY <1>1 DEF UpdateByIndices
<1>2. CASE p # 0
  <2>1. /\ t \in TableRecord /\ t.data \in Seq(Row) /\ Positions(t) = 1 .. Len(t.data)
        /\ \A q \in Positions(t) : t.data[q] \in Row
    BY Fields DEF Inv, Good
  <2>2. /\ w.ids = t.ids /\ w.nextId = t.nextId /\ w.indexes = t.indexes
        /\ w.data = [t.data EXCEPT ![p] = [t.data[p] EXCEPT ![d] = v]]
    BY <2>1 DEF TableRecord
  <2>3. \A q \in Positions(t) : c # d => w.data[q][c] = t.data[q][c]
    BY <2>1, <2>2 DEF Row
  <2>4. Listed(w, c, C)
    <3> HIDE DEF w
    <3> QED BY <2>2, <2>3 DEF Listed, Positions
  <2> QED BY <1>2, <2>4 DEF UpdateByIndices
<1> QED BY <1>1, <1>2

\* A listed column is found through its index as by a scan.
LEMMA ListedFinds ==
  ASSUME NEW t, NEW C, NEW c \in Cols, Inv(t), Owned(t, C), Listed(t, c, C),
         t.indexes[c].kind = "plain", NEW v \in Values,
         NEW p \in Positions(t), t.ids[p] \in Nat \ C
  PROVE  p \in Lookup(t, c, v) <=> p \in Scan(t, c, v)
<1> DEFINE P == t.indexes[c].posting
<1>1. t.ids[p] \in Id /\ p # 0
  BY Fields
<1>2. P[v][t.ids[p]] > 0 <=> t.data[p][c] = v
  BY <1>1 DEF Listed
<1>3. p \in Lookup(t, c, v) <=> \E id \in Id : P[v][id] > 0 /\ Get(t, id) = p
  BY <1>1 DEF Lookup
<1>4. Get(t, t.ids[p]) = p
  <2>1. GetIndex(t, t.ids[p]) = p
    BY OwnedFound
  <2> QED BY <1>1, <2>1, GetIndexFinds
<1>5. \A id \in Id : Get(t, id) = p => id = t.ids[p]
  BY <1>1, GetIndexFinds
<1> HIDE DEF P
<1> QED BY <1>1, <1>2, <1>3, <1>4, <1>5 DEF Scan

=============================================================================
