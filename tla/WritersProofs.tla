--------------------------- MODULE WritersProofs ---------------------------
(***************************************************************************)
(* Safety of the threads of module Writers, for all schemas, indexes,      *)
(* numbers of threads and bounds.                                          *)
(*                                                                         *)
(* A thread acts on ids it collected before other threads wrote.  That is  *)
(* safe because of what Steady says of every step: a row keeps its key and *)
(* new rows have ids no row has had, so what is known of an id stays true  *)
(* until its row goes, and then of no row.                                 *)
(***************************************************************************)
EXTENDS Writers, TableOpsProofs

-----------------------------------------------------------------------------
(* The table *)

\* Every id is an automatic one.
NatIds(t) == \A p \in Positions(t) : t.ids[p] \in Nat

\* The index on the key answers like a scan.
UniqueExact(t) ==
  t.indexes[Key].kind = "unique" =>
    \A v \in Values :
      /\ t.indexes[Key].uniq[v] # 0 => t.indexes[Key].uniq[v] \in Scan(t, Key, v)
      /\ t.indexes[Key].uniq[v] = 0 => Scan(t, Key, v) = {}

TableInv(t) ==
  /\ Inv(t) /\ Owned(t, {}) /\ NatIds(t)
  /\ Listed(t, Key, {}) /\ UniqueExact(t)

\* No step changes the key of a row, gives an id away again, or moves a row
\* other than towards the front.
Steady(t, w) ==
  /\ t.nextId <= w.nextId
  /\ w.indexes[Key].kind = t.indexes[Key].kind
  /\ ~t.sequential => ~w.sequential
  /\ \A q \in Positions(w) :
       \/ t.nextId <= w.ids[q]
       \/ \E p \in Positions(t) :
            q <= p /\ t.ids[p] = w.ids[q] /\ t.data[p][Key] = w.data[q][Key]

\* Only deletions move or remove rows.
Kept(t, w) == \A p \in Positions(t) : p \in Positions(w) /\ w.ids[p] = t.ids[p]

\* The rows with a key, and that there are no more of them.
Fewer(t, w) ==
  \A v \in Values : Cardinality(Scan(w, Key, v)) <= Cardinality(Scan(t, Key, v))

\* A scan finds finitely many rows.
LEMMA ScanFinite ==
  ASSUME NEW t, Inv(t), NEW v
  PROVE  IsFiniteSet(Scan(t, Key, v)) /\ Cardinality(Scan(t, Key, v)) \in Nat
<1>1. Scan(t, Key, v) \subseteq 1 .. Len(t.ids) /\ Len(t.ids) \in Nat
  BY Fields DEF Scan
<1>2. IsFiniteSet(Scan(t, Key, v))
  <2>1. IsFiniteSet(1 .. Len(t.ids))
    BY <1>1, FS_Interval
  <2> QED BY <1>1, <2>1, FS_Subset
<1> QED BY <1>2, FS_CardinalityType

\* What find_by_column and the statements collect by the key are the rows with it.
LEMMA LookupExact ==
  ASSUME NEW t, TableInv(t), NEW v \in Values
  PROVE  /\ t.indexes[Key].kind # "none" => /\ Lookup(t, Key, v) \subseteq Scan(t, Key, v)
                                            /\ Lookup(t, Key, v) = {} => Scan(t, Key, v) = {}
         /\ FirstHits(t, v) \subseteq Scan(t, Key, v)
         /\ FirstHits(t, v) = {} => Scan(t, Key, v) = {}
<1> DEFINE ix == t.indexes[Key]
           Hits(id) == IF ix.posting[v][id] > 0 THEN {Get(t, id)} ELSE {}
<1>1. /\ Inv(t) /\ Owned(t, {}) /\ NatIds(t) /\ Listed(t, Key, {}) /\ Key \in Cols
      /\ ix \in Index
  BY Fields, KeyAssumption DEF TableInv
<1>2. ix.kind \in {"none", "plain", "unique"} /\ ix.uniq \in [Values -> Nat]
  BY <1>1 DEF Index
<1>3. CASE ix.kind = "plain"
  <2>1. Lookup(t, Key, v) = (UNION {Hits(id) : id \in Id}) \ {0}
    BY <1>3 DEF Lookup
  <2>2. \A id \in Id : Get(t, id) # 0 => Get(t, id) \in Positions(t)
    BY <1>1, GetIndexFinds
  <2>3. Lookup(t, Key, v) \subseteq Positions(t)
    BY <2>1, <2>2
  <2>4. \A p \in Positions(t) : t.ids[p] \in Nat \ {}
    BY <1>1 DEF NatIds
  <2>5. \A p \in Positions(t) : p \in Lookup(t, Key, v) <=> p \in Scan(t, Key, v)
    BY <1>1, <1>3, <2>4, ListedFinds
  <2>6. Scan(t, Key, v) \subseteq Positions(t)
    BY DEF Scan
  <2>7. Lookup(t, Key, v) = Scan(t, Key, v)
    BY <2>3, <2>5, <2>6
  <2> QED BY <1>3, <2>7 DEF FirstHits
<1>4. CASE ix.kind = "unique"
  <2>1. Lookup(t, Key, v) = {ix.uniq[v]} \ {0}
    BY <1>4 DEF Lookup
  <2>2. /\ ix.uniq[v] # 0 => ix.uniq[v] \in Scan(t, Key, v)
        /\ ix.uniq[v] = 0 => Scan(t, Key, v) = {}
    BY <1>4 DEF TableInv, UniqueExact
  <2> QED BY <1>4, <2>1, <2>2 DEF FirstHits
<1>5. CASE ix.kind = "none"
  <2>1. FirstHits(t, v) = {p \in Scan(t, Key, v) : \A q \in Scan(t, Key, v) : p <= q}
    BY <1>5 DEF FirstHits
  <2>2. Scan(t, Key, v) \subseteq Nat
    BY <1>1, Fields DEF Scan
  <2>3. Scan(t, Key, v) # {} => FirstHits(t, v) # {}
    BY <2>1, <2>2, LeastElement
  <2> QED BY <1>5, <2>1, <2>3
<1> QED BY <1>2, <1>3, <1>4, <1>5

\* A new row is found under its key, and under no other.
LEMMA InsertSteady ==
  ASSUME NEW t, TableInv(t), NEW row \in Row, t.nextId < AutoLimit
  PROVE  /\ TableInv(Insert(t, row)) /\ Steady(t, Insert(t, row)) /\ Kept(t, Insert(t, row))
         /\ \A v \in Values :
              Cardinality(Scan(Insert(t, row), Key, v)) <=
                Cardinality(Scan(t, Key, v)) + (IF row[Key] = v THEN 1 ELSE 0)
<1> DEFINE rows == <<row>>
           fresh == FreshIds(t, Len(rows))
           w == Insert(t, row)
           n == Len(t.ids)
           ix == t.indexes[Key]
<1>1. /\ Inv(t) /\ Owned(t, {}) /\ NatIds(t) /\ Listed(t, Key, {}) /\ UniqueExact(t)
      /\ Key \in Cols /\ ix \in Index /\ n \in Nat /\ t.nextId \in Nat
      /\ Positions(t) = 1 .. n /\ AutoLimit \in Nat
  BY Fields, KeyAssumption, AutoLimitAssumption DEF TableInv
<1>2. rows \in Seq(Row) /\ Len(rows) = 1 /\ t.nextId + Len(rows) <= AutoLimit
  BY <1>1
<1>3. w = AppendAuto(t, rows, {"unique"})
  BY DEF Insert
<1>4. Inv(w) /\ Owned(w, {}) /\ Listed(w, Key, {})
  <2>1. "plain" \notin {"unique"}
    OBVIOUS
  <2> HIDE DEF w, rows
  <2> QED BY <1>1, <1>2, <1>3, <2>1, AppendAutoInv, AppendAutoOwned, AppendAutoListed
<1>5. Appended(t, fresh, rows, {"unique"}, w) /\ w.nextId = t.nextId + 1
  <2> HIDE DEF w, rows
  <2> QED BY <1>1, <1>2, <1>3, AppendAutoFieldwise
<1> HIDE DEF w
<1>6. /\ Positions(w) = 1 .. n + 1
      /\ w.ids[n + 1] = t.nextId /\ w.data[n + 1] = row
      /\ \A p \in 1 .. n : w.ids[p] = t.ids[p] /\ w.data[p] = t.data[p]
      /\ w.sequential = t.sequential
      /\ w.indexes[Key] = IndexAppend(ix, Key, n, fresh, rows, {"unique"})
  <2>1. fresh[1] = t.nextId
    BY <1>1, <1>2 DEF FreshIds
  <2>2. n + 1 \in 1 .. n + 1 /\ ~(n + 1 <= n) /\ (n + 1) - n = 1 /\ rows[1] = row
        /\ \A p \in 1 .. n : p \in 1 .. n + 1 /\ p <= n
    BY <1>1
  <2> HIDE DEF fresh, rows
  <2> QED BY SMTT(30), <1>1, <1>2, <1>5, <2>1, <2>2 DEF Appended, Positions
<1>7. /\ w.indexes[Key].kind = ix.kind
      /\ ix.kind = "unique" =>
           \A v \in Values : w.indexes[Key].uniq[v] = IF row[Key] = v THEN n + 1 ELSE ix.uniq[v]
  <2> DEFINE With(v) == {i \in 1 .. Len(rows) : rows[i][Key] = v}
             uniq == [v \in Values |-> IF With(v) = {} THEN ix.uniq[v]
                                                       ELSE n + LastPosition(With(v))]
  <2>1. ASSUME ix.kind = "unique"
        PROVE  w.indexes[Key] = [ix EXCEPT !.uniq = uniq]
    <3>1. IndexAppend(ix, Key, n, fresh, rows, {"unique"}) = [ix EXCEPT !.uniq = uniq]
      BY <2>1 DEF IndexAppend
    <3> QED BY <1>6, <3>1
  <2>2. ASSUME ix.kind = "unique", NEW v \in Values
        PROVE  uniq[v] = IF row[Key] = v THEN n + 1 ELSE ix.uniq[v]
    <3>1. CASE row[Key] = v
      <4>1. With(v) = {1}
        BY <1>2, <3>1
      <4>2. LastPosition({1}) = 1
        BY DEF LastPosition
      <4> QED BY <3>1, <4>1, <4>2
    <3>2. CASE row[Key] # v
      <4>1. With(v) = {}
        BY <1>2, <3>2
      <4> QED BY <3>2, <4>1
    <3> QED BY <3>1, <3>2
  <2>3. ASSUME ix.kind = "unique"
        PROVE  w.indexes[Key].uniq = uniq /\ w.indexes[Key].kind = ix.kind
    <3> HIDE DEF uniq, ix
    <3> QED BY <1>1, <2>1, <2>3 DEF Index
  <2>4. ASSUME ix.kind # "unique"
        PROVE  w.indexes[Key].kind = ix.kind
    <3>1. ix.kind \in {"none", "plain"}
      BY <1>1, <2>4 DEF Index
    <3>2. IndexAppend(ix, Key, n, fresh, rows, {"unique"}).kind = ix.kind
      <4> HIDE DEF fresh, rows, ix
      <4> QED BY <1>1, <3>1 DEF IndexAppend, Index
    <3> QED BY <1>6, <3>2
  <2> HIDE DEF uniq
  <2> QED BY <2>2, <2>3, <2>4
<1>8. \A v \in Values : Scan(w, Key, v) = Scan(t, Key, v) \cup (IF row[Key] = v THEN {n + 1} ELSE {})
  <2>1. Positions(w) = Positions(t) \cup {n + 1} /\ n + 1 \notin Positions(t)
    BY <1>1, <1>6
  <2> QED BY <1>1, <1>6, <2>1 DEF Scan
<1>9. UniqueExact(w)
  BY <1>1, <1>7, <1>8 DEF UniqueExact
<1>10. NatIds(w)
  BY <1>1, <1>6 DEF NatIds
<1>11. TableInv(w)
  BY <1>4, <1>9, <1>10 DEF TableInv
<1>12. Steady(t, w)
  <2>1. ASSUME NEW q \in Positions(w)
        PROVE  \/ t.nextId <= w.ids[q]
               \/ \E p \in Positions(t) :
                    q <= p /\ t.ids[p] = w.ids[q] /\ t.data[p][Key] = w.data[q][Key]
    <3>1. CASE q = n + 1
      BY <1>1, <1>6, <3>1
    <3>2. CASE q # n + 1
      <4>1. q \in 1 .. n
        BY <1>1, <1>6, <3>2
      <4> QED BY <1>1, <1>6, <4>1
    <3> QED BY <3>1, <3>2
  <2>2. t.nextId <= w.nextId
    BY <1>1, <1>5
  <2> QED BY <1>6, <1>7, <2>1, <2>2 DEF Steady
<1>13. ASSUME NEW v \in Values
       PROVE  Cardinality(Scan(w, Key, v)) <=
                Cardinality(Scan(t, Key, v)) + (IF row[Key] = v THEN 1 ELSE 0)
  <2>1. IsFiniteSet(Scan(t, Key, v)) /\ Cardinality(Scan(t, Key, v)) \in Nat
    BY <1>1, ScanFinite
  <2>2. CASE row[Key] = v
    <3>1. Scan(w, Key, v) = Scan(t, Key, v) \cup {n + 1} /\ n + 1 \notin Scan(t, Key, v)
      BY <1>1, <1>8, <2>2 DEF Scan
    <3>2. Cardinality(Scan(t, Key, v) \cup {n + 1}) = Cardinality(Scan(t, Key, v)) + 1
      BY <2>1, <3>1, FS_AddElement
    <3> QED BY <2>1, <2>2, <3>1, <3>2
  <2>3. CASE row[Key] # v
    <3>1. Scan(w, Key, v) = Scan(t, Key, v)
      BY <1>8, <2>3
    <3> QED BY <2>1, <2>3, <3>1
  <2> QED BY <2>2, <2>3
<1>14. Kept(t, w)
  <2>1. \A p \in Positions(t) : p \in 1 .. n /\ p \in 1 .. n + 1
    BY <1>1
  <2> QED BY <1>6, <2>1 DEF Kept
<1> QED BY <1>11, <1>12, <1>13, <1>14 DEF w

\* Tables with the same rows and the same index on the key answer alike.
LEMMA SameKeysSteady ==
  ASSUME NEW t, TableInv(t), NEW w, Inv(w), Owned(w, {}), Listed(w, Key, {}),
         w.ids = t.ids, w.nextId = t.nextId, ~t.sequential => ~w.sequential,
         \A p \in Positions(t) : w.data[p][Key] = t.data[p][Key],
         w.indexes[Key].kind = t.indexes[Key].kind,
         w.indexes[Key].uniq = t.indexes[Key].uniq
  PROVE  TableInv(w) /\ Steady(t, w) /\ Fewer(t, w) /\ Kept(t, w)
<1>1. Inv(t) /\ NatIds(t) /\ UniqueExact(t) /\ Positions(w) = Positions(t)
  BY DEF TableInv, Positions
<1>2. \A v \in Values : Scan(w, Key, v) = Scan(t, Key, v)
  BY <1>1 DEF Scan
<1>3. TableInv(w)
  BY <1>1, <1>2 DEF TableInv, NatIds, UniqueExact
<1>4. t.nextId \in Nat /\ \A p \in Positions(t) : p \in Nat
  BY <1>1, Fields
<1>5. Steady(t, w)
  <2>1. t.nextId <= t.nextId /\ \A p \in Positions(t) : p <= p
    BY <1>4
  <2> QED BY <1>1, <2>1 DEF Steady
<1>6. Fewer(t, w)
  <2>1. \A v \in Values : Cardinality(Scan(t, Key, v)) \in Nat
    BY <1>1, ScanFinite
  <2> QED BY <1>2, <2>1 DEF Fewer
<1>7. Kept(t, w)
  BY <1>1 DEF Kept
<1> QED BY <1>3, <1>5, <1>6, <1>7

\* A row written back with its key is one of them.
LEMMA WriteRowSteady ==
  ASSUME NEW t, TableInv(t), NEW p \in Positions(t), NEW row \in Row,
         row[Key] = t.data[p][Key]
  PROVE  /\ TableInv(WriteRow(t, p, t.ids[p], row))
         /\ Steady(t, WriteRow(t, p, t.ids[p], row)) /\ Fewer(t, WriteRow(t, p, t.ids[p], row))
         /\ Kept(t, WriteRow(t, p, t.ids[p], row))
<1> DEFINE own == t.ids[p]
           w == WriteRow(t, p, own, row)
<1>1. /\ Inv(t) /\ Owned(t, {}) /\ Listed(t, Key, {}) /\ own \in Id
      /\ t.data \in Seq(Row) /\ Positions(t) = 1 .. Len(t.data) /\ t \in TableRecord
      /\ Key \in Cols
  BY Fields, KeyAssumption DEF TableInv, Inv, Good
<1>2. Inv(w) /\ Owned(w, {})
  BY <1>1, WriteRowInv, WriteRowOwned
<1>3. Listed(w, Key, {})
  BY <1>1, WriteRowListed
<1>4. /\ w.ids = t.ids /\ w.nextId = t.nextId /\ w.sequential = t.sequential
      /\ w.data = [t.data EXCEPT ![p] = row]
      /\ w.indexes = [c \in Cols |-> IndexUpdate(t.indexes[c], own, t.data[p][c], row[c])]
  BY <1>1 DEF WriteRow, TableRecord
<1>5. w.indexes[Key] = t.indexes[Key]
  <2>1. IndexUpdate(t.indexes[Key], own, t.data[p][Key], row[Key]) = t.indexes[Key]
    BY DEF IndexUpdate
  <2> HIDE DEF w
  <2> QED BY <1>1, <1>4, <2>1
<1> HIDE DEF w
<1>6. \A q \in Positions(t) : w.data[q][Key] = t.data[q][Key]
  <2>1. ASSUME NEW q \in 1 .. Len(t.data)
        PROVE  [t.data EXCEPT ![p] = row][q] = IF q = p THEN row ELSE t.data[q]
    <3> HIDE DEF Row
    <3> QED BY <1>1
  <2> QED BY <1>1, <1>4, <2>1
<1>7. TableInv(w) /\ Steady(t, w) /\ Fewer(t, w) /\ Kept(t, w)
  BY <1>2, <1>3, <1>4, <1>5, <1>6, SameKeysSteady
<1> QED BY <1>7 DEF w

\* Leaving sequential mode is no change that another thread could notice.
LEMMA LeaveSequentialSteady ==
  ASSUME NEW t, TableInv(t)
  PROVE  /\ TableInv(LeaveSequential(t)) /\ Steady(t, LeaveSequential(t))
         /\ Fewer(t, LeaveSequential(t)) /\ Kept(t, LeaveSequential(t))
         /\ LeaveSequential(t).sequential = FALSE
<1> DEFINE u == LeaveSequential(t)
<1>1. Inv(t) /\ Owned(t, {}) /\ Listed(t, Key, {}) /\ Key \in Cols
  BY KeyAssumption DEF TableInv
<1>2. /\ Inv(u) /\ u.sequential = FALSE /\ u.ids = t.ids /\ u.data = t.data
      /\ u.nextId = t.nextId /\ u.indexes = t.indexes /\ Owned(u, {})
  BY <1>1, LeaveSequentialInv, LeaveSequentialOwned
<1> HIDE DEF u
<1>3. Listed(u, Key, {})
  BY <1>1, <1>2, SameRowsListed
<1>4. TableInv(u) /\ Steady(t, u) /\ Fewer(t, u) /\ Kept(t, u)
  BY <1>2, <1>3, SameKeysSteady
<1> QED BY <1>2, <1>4 DEF u

\* Swap-remove moves a row and its key together.
LEMMA DeleteSteady ==
  ASSUME NEW t, TableInv(t), t.indexes[Key].kind # "unique", NEW id \in Id
  PROVE  /\ TableInv(Delete(t, id)) /\ Steady(t, Delete(t, id)) /\ Fewer(t, Delete(t, id))
<1> DEFINE p == GetIndex(t, id)
           n == Len(t.ids)
           w == Delete(t, id)
<1>1. /\ Inv(t) /\ Owned(t, {}) /\ NatIds(t) /\ Listed(t, Key, {}) /\ Key \in Cols
      /\ t.nextId \in Nat
  BY Fields, KeyAssumption DEF TableInv
<1>2. Inv(w) /\ Owned(w, {}) /\ Listed(w, Key, {})
  BY <1>1, DeleteInv, DeleteOwned, DeleteListed
<1>3. CASE p = 0
  <2>1. w = t
    BY <1>3 DEF Delete
  <2> HIDE DEF w
  <2> QED BY <1>1, <1>2, <2>1, SameKeysSteady DEF w
<1>4. CASE p # 0
  <2>1. RowGone(t, id, w)
    BY <1>1, <1>4, DeleteFields
  <2> HIDE DEF w
  <2>2. /\ n \in Nat /\ p \in 1 .. n /\ Len(w.ids) = n - 1
        /\ \A q \in 1 .. n - 1 : w.ids[q] = IF q = p THEN t.ids[n] ELSE t.ids[q]
        /\ \A q \in 1 .. n - 1 : w.data[q] = IF q = p THEN t.data[n] ELSE t.data[q]
        /\ w.nextId = t.nextId /\ w.sequential = FALSE /\ w.indexes = t.indexes
    BY <2>1 DEF RowGone
  <2> HIDE DEF p
  <2>3. Positions(t) = 1 .. n /\ Positions(w) = 1 .. n - 1
    BY <2>2 DEF Positions
  <2> HIDE DEF n
  <2>4. ASSUME NEW q \in Positions(w)
        PROVE  \E r \in Positions(t) :
                 q <= r /\ t.ids[r] = w.ids[q] /\ t.data[r] = w.data[q]
    <3>1. CASE q = p
      <4>1. n \in Positions(t) /\ q <= n /\ t.ids[n] = w.ids[q] /\ t.data[n] = w.data[q]
        BY <2>2, <2>3, <2>4, <3>1
      <4> QED BY <4>1
    <3>2. CASE q # p
      BY <2>2, <2>3, <2>4, <3>2
    <3> QED BY <3>1, <3>2
  <2>5. NatIds(w)
    BY <1>1, <2>4 DEF NatIds
  <2>6. TableInv(w)
    BY <1>2, <2>2, <2>5 DEF TableInv, UniqueExact
  <2>7. Steady(t, w)
    <3>1. /\ t.nextId <= w.nextId
          /\ w.indexes[Key].kind = t.indexes[Key].kind
          /\ ~t.sequential => ~w.sequential
      BY <1>1, <2>2, Fields
    <3>2. ASSUME NEW q \in Positions(w)
          PROVE  \E r \in Positions(t) :
                   q <= r /\ t.ids[r] = w.ids[q] /\ t.data[r][Key] = w.data[q][Key]
      BY <2>4
    <3> QED BY <3>1, <3>2 DEF Steady
  <2>8. ASSUME NEW v \in Values
        PROVE  Cardinality(Scan(w, Key, v)) <= Cardinality(Scan(t, Key, v))
    <3> DEFINE S == Scan(t, Key, v)
    <3>1. IsFiniteSet(S) /\ Cardinality(S) \in Nat
      BY <1>1, ScanFinite
    <3>2. CASE t.data[n][Key] = v
      <4>1. n \in S
        BY <2>2, <2>3, <3>2 DEF Scan
      <4>2. Scan(w, Key, v) \subseteq (S \ {n}) \cup {p}
        <5>1. ASSUME NEW q \in Scan(w, Key, v), q # p
              PROVE  q \in S \ {n}
          BY <2>2, <2>3, <5>1 DEF Scan
        <5> QED BY <5>1
      <4> DEFINE T == S \ {n}
      <4> HIDE DEF S
      <4>3. IsFiniteSet(T) /\ Cardinality(T) = Cardinality(S) - 1 /\ Cardinality(T) \in Nat
        BY <3>1, <4>1, FS_RemoveElement, FS_CardinalityType
      <4> HIDE DEF T
      <4>4. /\ IsFiniteSet(T \cup {p})
            /\ Cardinality(T \cup {p}) <= Cardinality(S)
        BY SMTT(30), <3>1, <4>3, FS_AddElement
      <4>5. /\ Cardinality(Scan(w, Key, v)) <= Cardinality(T \cup {p})
            /\ Cardinality(Scan(w, Key, v)) \in Nat
            /\ Cardinality(T \cup {p}) \in Nat
        BY <1>2, <4>2, <4>4, FS_Subset, FS_CardinalityType, ScanFinite DEF T
      <4> QED BY <3>1, <4>4, <4>5 DEF S
    <3>3. CASE t.data[n][Key] # v
      <4>1. Scan(w, Key, v) \subseteq S
        <5>1. ASSUME NEW q \in Scan(w, Key, v)
              PROVE  q \in S
          <6>1. q # p
            BY <2>2, <2>3, <3>3 DEF Scan
          <6> QED BY <2>2, <2>3, <6>1 DEF Scan
        <5> QED BY <5>1
      <4> QED BY <3>1, <4>1, FS_Subset
    <3> QED BY <3>2, <3>3
  <2>9. TableInv(w) /\ Steady(t, w) /\ Fewer(t, w)
    BY <2>6, <2>7, <2>8 DEF Fewer
  <2> QED BY <2>9 DEF w
<1> QED BY <1>3, <1>4

-----------------------------------------------------------------------------
(* The threads *)

\* The id has been given away, and its row, if it still has one, has key v.
Known(t, id, v) ==
  /\ id \in Nat /\ id < t.nextId
  /\ \A p \in Positions(t) : t.ids[p] = id => t.data[p][Key] = v

\* What a thread saw, and what it collected, hold of the table.
Sighting(t, s) ==
  \/ s = NotCalling
  \/ /\ s \in [calling : {TRUE}, row : Row, ids : SUBSET Id]
     /\ \A id \in s.ids : Known(t, id, s.row[Key])

Collected(t, j) ==
  \/ j = NoJob
  \/ /\ j \in [running : {TRUE}, kind : {"update", "delete"}, ids : SUBSET Id, row : Row]
     /\ ~t.sequential
     /\ j.kind = "update" => \A id \in j.ids : Known(t, id, j.row[Key])
     /\ j.kind = "delete" => t.indexes[Key].kind \in DeleteKinds

WritersInv ==
  /\ TableInv(table)
  /\ saw = [th \in Threads |-> saw[th]]
  /\ jobs = [th \in Threads |-> jobs[th]]
  /\ \A th \in Threads : Sighting(table, saw[th]) /\ Collected(table, jobs[th])

\* What is known stays true.
LEMMA KnownStays ==
  ASSUME NEW t, NEW w, TableInv(t), TableInv(w), Steady(t, w)
  PROVE  /\ \A id, v : Known(t, id, v) => Known(w, id, v)
         /\ \A s : Sighting(t, s) => Sighting(w, s)
         /\ \A j : Collected(t, j) => Collected(w, j)
<1>1. t.nextId \in Nat /\ w.nextId \in Nat
  BY Fields DEF TableInv
<1>2. ASSUME NEW id, NEW v, Known(t, id, v)
      PROVE  Known(w, id, v)
  <2>1. id \in Nat /\ id < w.nextId
    BY <1>1, <1>2 DEF Known, Steady
  <2>2. ASSUME NEW q \in Positions(w), w.ids[q] = id
        PROVE  w.data[q][Key] = v
    <3>1. ~(t.nextId <= w.ids[q])
      BY <1>1, <1>2, <2>2 DEF Known
    <3>2. PICK p \in Positions(t) :
                 q <= p /\ t.ids[p] = w.ids[q] /\ t.data[p][Key] = w.data[q][Key]
      BY <3>1 DEF Steady
    <3> QED BY <1>2, <2>2, <3>2 DEF Known
  <2> QED BY <2>1, <2>2 DEF Known
<1>3. ASSUME NEW s, Sighting(t, s)
      PROVE  Sighting(w, s)
  BY <1>2, <1>3 DEF Sighting
<1>4. ASSUME NEW j, Collected(t, j)
      PROVE  Collected(w, j)
  BY <1>2, <1>4 DEF Collected, Steady
<1> QED BY <1>2, <1>3, <1>4

\* What a scan of a key finds is known.
LEMMA ScanKnown ==
  ASSUME NEW t, TableInv(t), NEW v, NEW p \in Scan(t, Key, v)
  PROVE  t.ids[p] \in Id /\ Known(t, t.ids[p], v)
<1>1. /\ Inv(t) /\ Owned(t, {}) /\ NatIds(t)
      /\ p \in Positions(t) /\ t.data[p][Key] = v
  BY DEF TableInv, Scan
<1>2. t.ids[p] \in Id /\ t.ids[p] \in Nat /\ t.ids[p] < t.nextId
  BY <1>1, Fields DEF NatIds, Owned
<1>3. \A q \in Positions(t) : t.ids[q] = t.ids[p] => q = p
  BY <1>1, OwnedOnce
<1> QED BY <1>1, <1>2, <1>3 DEF Known

\* A row written under an id whose key is known keeps its key.
LEMMA UpdateSteady ==
  ASSUME NEW t, TableInv(t), NEW id \in Id, NEW row \in Row, Known(t, id, row[Key])
  PROVE  /\ TableInv(Update(t, id, row)) /\ Steady(t, Update(t, id, row))
         /\ Fewer(t, Update(t, id, row)) /\ Kept(t, Update(t, id, row))
         /\ TableInv(UpdateValues(t, id, row)) /\ Steady(t, UpdateValues(t, id, row))
         /\ Fewer(t, UpdateValues(t, id, row)) /\ Kept(t, UpdateValues(t, id, row))
<1>1. Inv(t) /\ Owned(t, {}) /\ Listed(t, Key, {})
  BY DEF TableInv
<1>2. TableInv(t) /\ Steady(t, t) /\ Fewer(t, t) /\ Kept(t, t)
  BY <1>1, SameKeysSteady
<1>3. t.idMap[id] # 0 => t.idMap[id] \in Positions(t) /\ t.ids[t.idMap[id]] = id
  BY <1>1 DEF Inv, Sound
<1>4. GetIndex(t, id) # 0 => GetIndex(t, id) \in Positions(t) /\ t.ids[GetIndex(t, id)] = id
  BY <1>1, GetIndexFinds
<1>5. ASSUME NEW p \in Positions(t), t.ids[p] = id
      PROVE  /\ TableInv(WriteRow(t, p, id, row)) /\ Steady(t, WriteRow(t, p, id, row))
             /\ Fewer(t, WriteRow(t, p, id, row)) /\ Kept(t, WriteRow(t, p, id, row))
  <2>1. row[Key] = t.data[p][Key]
    BY <1>5 DEF Known
  <2> QED BY <1>5, <2>1, WriteRowSteady
<1>6. /\ TableInv(Update(t, id, row)) /\ Steady(t, Update(t, id, row))
      /\ Fewer(t, Update(t, id, row)) /\ Kept(t, Update(t, id, row))
  BY <1>2, <1>3, <1>5 DEF Update
<1>7. /\ TableInv(UpdateValues(t, id, row)) /\ Steady(t, UpdateValues(t, id, row))
      /\ Fewer(t, UpdateValues(t, id, row)) /\ Kept(t, UpdateValues(t, id, row))
  BY <1>2, <1>4, <1>5 DEF UpdateValues
<1> QED BY <1>6, <1>7

-----------------------------------------------------------------------------
(* The steps *)

\* No thread has looked at anything of a new table.
LEMMA WritersInitInv == WritersInit => WritersInv
<1> SUFFICES ASSUME WritersInit PROVE WritersInv
  OBVIOUS
<1>1. PICK kind \in Kinds :
        table = IF kind = "none" THEN EmptyTable ELSE CreateIndex(EmptyTable, Key, kind)
  BY DEF WritersInit, Init
<1> DEFINE e == EmptyTable
           w == CreateIndex(e, Key, kind)
<1>2. /\ Inv(e) /\ Owned(e, {}) /\ Listed(e, Key, {}) /\ Key \in Cols
      /\ Positions(e) = {} /\ e.indexes[Key] = NoIndex
  <2>1. Inv(e) /\ Owned(e, {}) /\ Listed(e, Key, {}) /\ Key \in Cols
    BY EmptyInv, EmptyOwned, EmptyListed, KeyAssumption
  <2>2. Positions(e) = {} /\ e.indexes[Key] = NoIndex
    BY KeyAssumption DEF EmptyTable, Positions
  <2> QED BY <2>1, <2>2
<1>3. TableInv(e)
  BY <1>2 DEF TableInv, NatIds, UniqueExact, NoIndex
<1>4. CASE kind = "none"
  <2>1. TableInv(table)
    BY <1>1, <1>3, <1>4
  <2> QED BY <2>1 DEF WritersInv, WritersInit, Init, Sighting, Collected
<1>5. CASE kind # "none"
  <2>1. kind \in {"plain", "unique"}
    BY <1>5, KindsAssumption
  <2>2. Inv(w) /\ Owned(w, {}) /\ Listed(w, Key, {})
    <3> HIDE DEF e
    <3> QED BY <1>2, <2>1, CreateIndexInv, CreateIndexOwned, CreateIndexListed
  <2>3. e \in TableRecord /\ e.indexes \in [Cols -> Index] /\ Scan(e, Key, 0) = {}
        /\ \A v : Scan(e, Key, v) = {}
    BY <1>2 DEF Inv, Good, TableRecord, Scan
  <2>4. /\ w.ids = e.ids
        /\ kind = "unique" => w.indexes[Key].uniq = [v \in Values |-> 0]
        /\ w.indexes[Key].kind = kind
    <3> HIDE DEF e
    <3> QED BY <1>2, <2>3 DEF CreateIndex, TableRecord
  <2>5. Positions(w) = {} /\ \A v : Scan(w, Key, v) = {}
    <3> HIDE DEF w, e
    <3> QED BY <1>2, <2>4 DEF Positions, Scan
  <2>6. TableInv(w)
    <3> HIDE DEF w, e
    <3> QED BY <2>2, <2>4, <2>5 DEF TableInv, NatIds, UniqueExact
  <2>7. TableInv(table)
    BY <1>1, <1>5, <2>6
  <2> HIDE DEF w, e
  <2> QED BY <2>7 DEF WritersInv, WritersInit, Init, Sighting, Collected
<1> QED BY <1>4, <1>5

\* What one thread does to its own record, with a steady table, keeps the others.
LEMMA SawStep ==
  ASSUME WritersInv, TableInv(table'), Steady(table, table'),
         NEW th \in Threads, NEW s, Sighting(table', s), saw' = [saw EXCEPT ![th] = s],
         jobs' = jobs
  PROVE  WritersInv'
<1>1. \A x \in Threads : Sighting(table', saw[x]) /\ Collected(table', jobs[x])
  BY KnownStays DEF WritersInv
<1>2. saw' = [x \in Threads |-> IF x = th THEN s ELSE saw[x]]
  BY DEF WritersInv
<1> QED BY <1>1, <1>2 DEF WritersInv

\* The invariant survives a step of a statement that leaves the table steady.
LEMMA JobStep ==
  ASSUME WritersInv, TableInv(table'), Steady(table, table'),
         NEW th \in Threads, NEW j, Collected(table', j), jobs' = [jobs EXCEPT ![th] = j],
         saw' = saw
  PROVE  WritersInv'
<1>1. \A x \in Threads : Sighting(table', saw[x]) /\ Collected(table', jobs[x])
  BY KnownStays DEF WritersInv
<1>2. jobs' = [x \in Threads |-> IF x = th THEN j ELSE jobs[x]]
  BY DEF WritersInv
<1> QED BY <1>1, <1>2 DEF WritersInv

\* The invariant survives a call that leaves the table steady.
LEMMA TableStep ==
  ASSUME WritersInv, TableInv(table'), Steady(table, table'), saw' = saw, jobs' = jobs
  PROVE  WritersInv'
<1>1. \A x \in Threads : Sighting(table', saw[x]) /\ Collected(table', jobs[x])
  BY KnownStays DEF WritersInv
<1> QED BY <1>1 DEF WritersInv

\* The two halves of insert_or_replace.
LEMMA LookInv ==
  ASSUME WritersInv, NEW th \in Threads, NEW row \in Row, Look(th, row), jobs' = jobs
  PROVE  WritersInv' /\ Steady(table, table') /\ Fewer(table, table') /\ Kept(table, table')
<1>1. /\ TableInv(table) /\ table' = table /\ row[Key] \in Values
      /\ Inv(table) /\ Owned(table, {}) /\ Listed(table, Key, {})
  BY KeyAssumption DEF WritersInv, TableInv, Look, Row
<1>2. TableInv(table') /\ Steady(table, table') /\ Fewer(table, table') /\ Kept(table, table')
  BY <1>1, SameKeysSteady
<1>3. PICK found \in LET hits == FirstHits(table, row[Key])
                     IN  IF hits = {} THEN {{}} ELSE {{table.ids[p]} : p \in hits} :
        saw' = [saw EXCEPT ![th] = Seen(row, found)]
  BY DEF Look
<1>4. \A id \in found : id \in Id /\ Known(table, id, row[Key])
  <2>1. FirstHits(table, row[Key]) \subseteq Scan(table, Key, row[Key])
    BY <1>1, LookupExact
  <2>2. \A p \in FirstHits(table, row[Key]) :
          table.ids[p] \in Id /\ Known(table, table.ids[p], row[Key])
    BY <1>1, <2>1, ScanKnown
  <2> QED BY <1>3, <2>2
<1>5. Sighting(table', Seen(row, found))
  <2>1. Seen(row, found) \in [calling : {TRUE}, row : Row, ids : SUBSET Id]
        /\ Seen(row, found).ids = found /\ Seen(row, found).row = row
    BY <1>4 DEF Seen
  <2> QED BY <1>1, <1>4, <2>1 DEF Sighting
<1>6. WritersInv'
  BY <1>2, <1>3, <1>5, SawStep
<1> QED BY <1>2, <1>6

\* A replacement, however late, keeps the invariant and the keys of the table.
LEMMA ReplaceInv ==
  ASSUME WritersInv, NEW th \in Threads, Replace(th), jobs' = jobs
  PROVE  WritersInv' /\ Steady(table, table') /\ Fewer(table, table') /\ Kept(table, table')
<1>1. /\ TableInv(table) /\ Sighting(table, saw[th]) /\ saw[th] # NotCalling
  BY DEF WritersInv, Replace, Calling, NotCalling
<1>2. PICK id \in saw[th].ids : table' = UpdateValues(table, id, saw[th].row)
  BY DEF Replace
<1>3. id \in Id /\ saw[th].row \in Row /\ Known(table, id, saw[th].row[Key])
  BY <1>1 DEF Sighting
<1>4. TableInv(table') /\ Steady(table, table') /\ Fewer(table, table') /\ Kept(table, table')
  BY <1>1, <1>2, <1>3, UpdateSteady
<1>5. saw' = [saw EXCEPT ![th] = NotCalling] /\ Sighting(table', NotCalling)
  BY DEF Replace, Return, Sighting
<1>6. WritersInv'
  BY <1>4, <1>5, SawStep
<1> QED BY <1>4, <1>6

\* The insert of insert_or_replace adds at most one row under the key it looked for.
LEMMA InsertNewInv ==
  ASSUME WritersInv, NEW th \in Threads, InsertNew(th), jobs' = jobs
  PROVE  /\ WritersInv' /\ Steady(table, table') /\ Kept(table, table')
         /\ \A v \in Values :
              Cardinality(Scan(table', Key, v)) <=
                Cardinality(Scan(table, Key, v)) + (IF saw[th].row[Key] = v THEN 1 ELSE 0)
<1>1. /\ TableInv(table) /\ Sighting(table, saw[th]) /\ saw[th] # NotCalling
  BY DEF WritersInv, InsertNew, Calling, NotCalling
<1>2. saw[th].row \in Row /\ table.nextId < AutoLimit /\ table' = Insert(table, saw[th].row)
  BY <1>1 DEF Sighting, InsertNew
<1>3. /\ TableInv(table') /\ Steady(table, table') /\ Kept(table, table')
      /\ \A v \in Values :
           Cardinality(Scan(table', Key, v)) <=
             Cardinality(Scan(table, Key, v)) + (IF saw[th].row[Key] = v THEN 1 ELSE 0)
  BY <1>1, <1>2, InsertSteady
<1>4. saw' = [saw EXCEPT ![th] = NotCalling] /\ Sighting(table', NotCalling)
  BY DEF InsertNew, Return, Sighting
<1>5. WritersInv'
  BY <1>3, <1>4, SawStep
<1> QED BY <1>3, <1>5

\* A delete by another client keeps the invariant and adds no row to any key.
LEMMA ClientDeleteInv ==
  ASSUME WritersInv, NEW id \in Id, ClientDelete(id), jobs' = jobs
  PROVE  WritersInv' /\ Steady(table, table') /\ Fewer(table, table')
<1>1. TableInv(table) /\ table.indexes[Key].kind # "unique" /\ table' = Delete(table, id)
  BY DeleteKindsAssumption DEF WritersInv, ClientDelete
<1>2. TableInv(table') /\ Steady(table, table') /\ Fewer(table, table')
  BY <1>1, DeleteSteady
<1>3. WritersInv'
  BY <1>2, TableStep DEF ClientDelete
<1> QED BY <1>2, <1>3

\* The statements.
LEMMA CollectInv ==
  ASSUME WritersInv, NEW th \in Threads, NEW row \in Row, NEW kind \in {"update", "delete"},
         Collect(th, kind, row)
  PROVE  WritersInv' /\ Steady(table, table') /\ Fewer(table, table') /\ Kept(table, table')
<1> DEFINE t == LeaveSequential(table)
           hits == IF t.indexes[Key].kind = "none" THEN Scan(t, Key, row[Key])
                                                   ELSE Lookup(t, Key, row[Key])
           ids == {t.ids[p] : p \in hits}
           written == IF kind = "delete" THEN AnyRow ELSE row
           j == Job(kind, ids, written)
<1>1. TableInv(table) /\ row[Key] \in Values
  BY KeyAssumption DEF WritersInv, Row
<1>2. TableInv(t) /\ Steady(table, t) /\ Fewer(table, t) /\ Kept(table, t)
      /\ t.sequential = FALSE
  BY <1>1, LeaveSequentialSteady
<1>3. /\ table' = t /\ jobs' = [jobs EXCEPT ![th] = j] /\ saw' = saw
      /\ kind = "delete" => t.indexes[Key].kind \in DeleteKinds
  BY DEF Collect
<1> HIDE DEF t
<1>4. \A id \in ids : id \in Id /\ Known(t, id, row[Key])
  <2>1. hits \subseteq Scan(t, Key, row[Key])
    BY <1>1, <1>2, LookupExact
  <2>2. \A p \in hits : t.ids[p] \in Id /\ Known(t, t.ids[p], row[Key])
    <3> HIDE DEF hits
    <3> QED BY <1>2, <2>1, ScanKnown
  <2> QED BY <2>2
<1>5. written \in Row
  <2>1. AnyRow \in Row
    BY DEF AnyRow
  <2> QED BY <2>1
<1> HIDE DEF ids
<1>6. Collected(t, j)
  <2>1. CASE ids = {}
    BY <2>1 DEF Job, Collected
  <2>2. CASE ids # {}
    <3>1. j = [running |-> TRUE, kind |-> kind, ids |-> ids, row |-> written]
      BY <2>2 DEF Job
    <3>2. kind = "update" => written = row
      OBVIOUS
    <3> HIDE DEF j, written
    <3>3. j \in [running : {TRUE}, kind : {"update", "delete"}, ids : SUBSET Id, row : Row]
          /\ j.kind = kind /\ j.ids = ids /\ j.row = written
      BY <1>4, <1>5, <3>1
    <3> QED BY <1>2, <1>3, <1>4, <3>2, <3>3 DEF Collected
  <2> QED BY <2>1, <2>2
<1> HIDE DEF j
<1>7. WritersInv'
  BY <1>2, <1>3, <1>6, JobStep
<1> QED BY <1>2, <1>3, <1>7

\* A single write of a statement keeps the invariant, and is a delete or an update of one id.
LEMMA WriteOneInv ==
  ASSUME WritersInv, NEW th \in Threads, NEW id \in Id, WriteOne(th, id)
  PROVE  /\ WritersInv' /\ Steady(table, table') /\ Fewer(table, table')
         /\ \/ /\ jobs[th].kind = "delete" /\ GetIndex(table, id) # 0
               /\ table' = Delete(table, id)
            \/ /\ jobs[th].kind = "update" /\ table.idMap[id] # 0
               /\ table' = Update(table, id, jobs[th].row) /\ jobs[th].row \in Row
               /\ Kept(table, table')
<1> DEFINE job == jobs[th]
           j == Pending(job, id)
<1>1. /\ TableInv(table) /\ Collected(table, job) /\ job # NoJob
      /\ id \in job.ids /\ table' \in Written(table, job, id)
      /\ jobs' = [jobs EXCEPT ![th] = j] /\ saw' = saw
  <2>1. jobs = [x \in Threads |-> jobs[x]]
    BY DEF WritersInv
  <2>2. jobs' = [jobs EXCEPT ![th] = Pending(jobs[th], id)]
    BY <2>1 DEF WriteOne
  <2> QED BY <2>2 DEF WritersInv, WriteOne, Running, NoJob
<1>2. /\ job \in [running : {TRUE}, kind : {"update", "delete"}, ids : SUBSET Id, row : Row]
      /\ ~table.sequential
      /\ job.kind = "update" => \A x \in job.ids : Known(table, x, job.row[Key])
      /\ job.kind = "delete" => table.indexes[Key].kind \in DeleteKinds
  BY <1>1 DEF Collected
<1> HIDE DEF job
<1>3. \/ /\ job.kind = "delete" /\ GetIndex(table, id) # 0 /\ table' = Delete(table, id)
      \/ /\ job.kind = "update" /\ table.idMap[id] # 0 /\ table' = Update(table, id, job.row)
  BY <1>1, <1>2 DEF Written
<1>4. /\ TableInv(table') /\ Steady(table, table') /\ Fewer(table, table')
      /\ job.kind = "update" => Kept(table, table') /\ job.row \in Row
  <2>1. CASE job.kind = "delete"
    <3>1. table' = Delete(table, id) /\ table.indexes[Key].kind # "unique"
      BY <1>2, <1>3, <2>1, DeleteKindsAssumption
    <3> QED BY <1>1, <2>1, <3>1, DeleteSteady
  <2>2. CASE job.kind = "update"
    <3>1. /\ table' = Update(table, id, job.row)
          /\ job.row \in Row /\ Known(table, id, job.row[Key])
      BY <1>1, <1>2, <1>3, <2>2
    <3> QED BY <1>1, <3>1, UpdateSteady
  <2> QED BY <1>2, <2>1, <2>2
<1>5. Collected(table', job)
  BY <1>1, <1>4, KnownStays
<1>6. Collected(table', j)
  <2>1. CASE job.ids \ {id} = {}
    BY <2>1 DEF Pending, Job, Collected
  <2>2. CASE job.ids \ {id} # {}
    <3>1. j = [running |-> TRUE, kind |-> job.kind, ids |-> job.ids \ {id}, row |-> job.row]
      BY <2>2 DEF Pending, Job
    <3> HIDE DEF j
    <3>2. j \in [running : {TRUE}, kind : {"update", "delete"}, ids : SUBSET Id, row : Row]
          /\ j.kind = job.kind /\ j.ids \subseteq job.ids /\ j.row = job.row
      BY <1>2, <3>1
    <3> QED BY <1>1, <1>5, <3>2 DEF Collected
  <2> QED BY <2>1, <2>2
<1> HIDE DEF j
<1>7. WritersInv'
  BY <1>1, <1>4, <1>6, JobStep
<1> QED BY <1>2, <1>3, <1>4, <1>7 DEF job

\* A statement that ends half done leaves the table as it is.
LEMMA AbortInv ==
  ASSUME WritersInv, NEW th \in Threads, NEW id, Abort(th, id)
  PROVE  WritersInv' /\ Steady(table, table') /\ Fewer(table, table') /\ Kept(table, table')
<1>1. /\ TableInv(table) /\ Inv(table) /\ Owned(table, {}) /\ Listed(table, Key, {})
      /\ table' = table /\ saw' = saw /\ jobs' = [jobs EXCEPT ![th] = NoJob]
  BY DEF WritersInv, TableInv, Abort
<1>2. TableInv(table') /\ Steady(table, table') /\ Fewer(table, table') /\ Kept(table, table')
  BY <1>1, SameKeysSteady
<1>3. Collected(table', NoJob)
  BY DEF Collected
<1> QED BY <1>1, <1>2, <1>3, JobStep

\* Steps that change nothing but the cursor keep the invariant.
LEMMA StillInv ==
  ASSUME WritersInv, UNCHANGED <<table, saw, jobs>>
  PROVE  WritersInv' /\ Steady(table, table') /\ Fewer(table, table') /\ Kept(table, table')
<1>1. /\ TableInv(table) /\ Inv(table) /\ Owned(table, {}) /\ Listed(table, Key, {})
  BY DEF WritersInv, TableInv
<1>2. TableInv(table') /\ Steady(table, table') /\ Fewer(table, table') /\ Kept(table, table')
  BY <1>1, SameKeysSteady
<1> QED BY <1>2, TableStep

\* Every step of every thread keeps the invariant and leaves the table steady.
LEMMA WritersNextInv ==
  ASSUME WritersInv, [WritersNext]_writerVars
  PROVE  WritersInv' /\ Steady(table, table')
<1>1. ASSUME NEW th \in Threads, NEW row \in Row, Look(th, row), jobs' = jobs
      PROVE  WritersInv' /\ Steady(table, table')
  BY <1>1, LookInv
<1>2. ASSUME NEW th \in Threads, Replace(th), jobs' = jobs
      PROVE  WritersInv' /\ Steady(table, table')
  BY <1>2, ReplaceInv
<1>3. ASSUME NEW th \in Threads, InsertNew(th), jobs' = jobs
      PROVE  WritersInv' /\ Steady(table, table')
  BY <1>3, InsertNewInv
<1>4. ASSUME NEW id \in Id, ClientDelete(id), jobs' = jobs
      PROVE  WritersInv' /\ Steady(table, table')
  BY <1>4, ClientDeleteInv
<1>5. ASSUME NEW th \in Threads, NEW row \in Row, NEW kind \in {"update", "delete"},
             Collect(th, kind, row)
      PROVE  WritersInv' /\ Steady(table, table')
  BY <1>5, CollectInv
<1>6. ASSUME NEW th \in Threads, NEW id \in Id, WriteOne(th, id)
      PROVE  WritersInv' /\ Steady(table, table')
  BY <1>6, WriteOneInv
<1>7. ASSUME NEW th \in Threads, NEW id \in Id, Abort(th, id)
      PROVE  WritersInv' /\ Steady(table, table')
  BY <1>7, AbortInv
<1>8. ASSUME UNCHANGED <<table, saw, jobs>>
      PROVE  WritersInv' /\ Steady(table, table')
  BY <1>8, StillInv
<1> QED
  BY <1>1, <1>2, <1>3, <1>4, <1>5, <1>6, <1>7, <1>8
     DEF WritersNext, NextBatch, Open, writerVars

\* The invariant in every reachable state, however the threads interleave.
THEOREM WritersInvariance == WritersSpec => []WritersInv
<1>1. WritersInv /\ [WritersNext]_writerVars => WritersInv'
  BY WritersNextInv
<1> QED BY WritersInitInv, <1>1, PTL DEF WritersSpec

\* A row that was deleted is not brought back by a thread that had seen or
\* collected it: an id appears only once.
THEOREM RowsStayDeleted == WritersSpec => DeletedStay
<1>1. WritersInv /\ [WritersNext]_writerVars =>
        [\A id \in IdsNow' \ IdsNow : id >= table.nextId]_writerVars
  <2> SUFFICES ASSUME WritersInv, [WritersNext]_writerVars, NEW id \in IdsNow' \ IdsNow
               PROVE  id >= table.nextId
    OBVIOUS
  <2>1. Steady(table, table')
    BY WritersNextInv
  <2>2. PICK q \in Positions(table') : table'.ids[q] = id
    BY DEF IdsNow
  <2>3. ~\E p \in Positions(table) : table.ids[p] = id
    BY DEF IdsNow
  <2>4. table.nextId <= id
    BY <2>1, <2>2, <2>3 DEF Steady
  <2> QED BY <2>4
<1> QED BY WritersInvariance, <1>1, PTL DEF WritersSpec, DeletedStay

\* insert_or_replace and UPDATE write the row whose key they looked for and no
\* other: no step of any thread changes the key of a row.
THEOREM KeysAreKept == WritersSpec => KeysStay
<1> DEFINE Keep == \A id \in Id :
             GetIndex(table, id) # 0 /\ GetIndex(table', id) # 0 =>
               table.data[GetIndex(table, id)][Key] = table'.data[GetIndex(table', id)][Key]
<1>1. WritersInv /\ [WritersNext]_writerVars => [Keep]_vars
  <2> SUFFICES ASSUME WritersInv, [WritersNext]_writerVars, NEW id \in Id,
                      GetIndex(table, id) # 0, GetIndex(table', id) # 0
               PROVE  table.data[GetIndex(table, id)][Key] = table'.data[GetIndex(table', id)][Key]
    OBVIOUS
  <2> DEFINE p == GetIndex(table, id)
             q == GetIndex(table', id)
  <2>1. Steady(table, table') /\ TableInv(table) /\ TableInv(table')
    BY WritersNextInv DEF WritersInv
  <2>2. p \in Positions(table) /\ table.ids[p] = id
    BY <2>1, GetIndexFinds DEF TableInv
  <2>3. q \in Positions(table') /\ table'.ids[q] = id
    BY <2>1, GetIndexFinds DEF TableInv
  <2> HIDE DEF p, q
  <2>4. ~(table.nextId <= id)
    <3>1. id \in Nat /\ id < table.nextId /\ table.nextId \in Nat
      BY <2>1, <2>2, Fields DEF TableInv, NatIds, Owned
    <3> QED BY <3>1
  <2>5. PICK r \in Positions(table) :
          q <= r /\ table.ids[r] = table'.ids[q] /\ table.data[r][Key] = table'.data[q][Key]
    BY <2>1, <2>3, <2>4 DEF Steady
  <2>6. r = p
    BY <2>1, <2>2, <2>3, <2>5, OwnedOnce DEF TableInv
  <2>7. table.data[p][Key] = table'.data[q][Key]
    BY <2>5, <2>6
  <2> QED BY <2>7 DEF p, q
<1> QED BY WritersInvariance, <1>1, PTL DEF WritersSpec, KeysStay

\* A write that finds its row changes the table.
LEMMA WrittenDiffers ==
  ASSUME NEW t, TableInv(t), NEW id \in Id
  PROVE  /\ GetIndex(t, id) # 0 => Delete(t, id) # t
         /\ t.idMap[id] # 0 => \A row \in Row : Update(t, id, row) # t
<1>1. ASSUME GetIndex(t, id) # 0 PROVE Delete(t, id) # t
  <2>1. RowGone(t, id, Delete(t, id))
    BY <1>1, DeleteFields DEF TableInv
  <2>2. Len(Delete(t, id).ids) = Len(t.ids) - 1 /\ Len(t.ids) \in Nat
    BY <2>1 DEF RowGone
  <2> QED BY <2>2
<1>2. ASSUME t.idMap[id] # 0, NEW row \in Row
      PROVE  Update(t, id, row) # t
  <2> DEFINE p == t.idMap[id]
             w == WriteRow(t, p, id, row)
  <2>1. /\ p \in 1 .. Len(t.versions) /\ t.versions \in Seq(Nat) /\ t \in TableRecord
    BY <1>2, Fields DEF TableInv, Inv, Sound, Good
  <2>2. w.versions = [t.versions EXCEPT ![p] = @ + 1]
    BY <2>1 DEF WriteRow, TableRecord
  <2>3. [t.versions EXCEPT ![p] = @ + 1][p] = t.versions[p] + 1 /\ t.versions[p] \in Nat
    BY <2>1
  <2>4. w.versions[p] # t.versions[p]
    <3> HIDE DEF w
    <3> QED BY <2>2, <2>3
  <2>5. w # t
    <3> HIDE DEF w
    <3> QED BY <2>4
  <2> QED BY <1>2, <2>5 DEF Update
<1> QED BY <1>1, <1>2

\* An UPDATE or DELETE is cut short only because a row it had collected was
\* deleted, never because a deletion moved the row or emptied its id_map entry.
THEOREM AbortsJustified == WritersSpec => AbortsOnlyIfDeleted
<1> DEFINE Justified == \A th \in Threads :
             Running(th) /\ ~Running(th)' /\ UNCHANGED table => jobs[th].ids \ IdsNow # {}
<1>1. WritersInv /\ [WritersNext]_writerVars => [Justified]_writerVars
  <2> SUFFICES ASSUME WritersInv, [WritersNext]_writerVars, NEW th \in Threads,
                      Running(th), ~Running(th)', UNCHANGED table
               PROVE  jobs[th].ids \ IdsNow # {}
    OBVIOUS
  <2>1. jobs' # jobs
    BY DEF Running
  <2>2. ASSUME NEW x \in Threads, NEW row, NEW kind, Collect(x, kind, row)
        PROVE  FALSE
    <3>1. jobs = [y \in Threads |-> jobs[y]] /\ ~Running(x)
      BY <2>2 DEF WritersInv, Collect, Idle
    <3>2. \A y \in Threads : y # x => jobs'[y] = jobs[y]
      BY <2>2, <3>1 DEF Collect
    <3> QED BY <3>1, <3>2 DEF Running
  <2>3. ASSUME NEW x \in Threads, NEW id \in Id, WriteOne(x, id)
        PROVE  FALSE
    <3>1. TableInv(table) /\ \/ GetIndex(table, id) # 0 /\ table' = Delete(table, id)
                             \/ /\ table.idMap[id] # 0 /\ jobs[x].row \in Row
                                /\ table' = Update(table, id, jobs[x].row)
      BY <2>3, WriteOneInv DEF WritersInv
    <3>2. table' = table
      OBVIOUS
    <3> QED BY <3>1, <3>2, WrittenDiffers
  <2>4. ASSUME NEW x \in Threads, NEW id \in Id, Abort(x, id)
        PROVE  jobs[th].ids \ IdsNow # {}
    <3>1. jobs = [y \in Threads |-> jobs[y]] /\ TableInv(table) /\ Collected(table, jobs[x])
      BY DEF WritersInv
    <3>2. jobs' = [jobs EXCEPT ![x] = NoJob] /\ id \in jobs[x].ids /\ jobs[x].running
          /\ Written(table, jobs[x], id) = {}
      BY <2>4 DEF Abort, Running
    <3>3. th = x
      <4>1. th # x => jobs'[th] = jobs[th]
        BY <3>1, <3>2
      <4> QED BY <4>1 DEF Running
    <3>4. ~table.sequential /\ (GetIndex(table, id) = 0 \/ table.idMap[id] = 0)
      <4>1. jobs[x] # NoJob
        BY <3>2 DEF NoJob
      <4>2. ~table.sequential
        BY <3>1, <4>1 DEF Collected
      <4> QED BY <3>2, <4>2 DEF Written
    <3>5. \A p \in Positions(table) : table.ids[p] # id
      <4> SUFFICES ASSUME NEW p \in Positions(table), table.ids[p] = id PROVE FALSE
        OBVIOUS
      <4>1. GetIndex(table, id) = p /\ table.idMap[id] = p
        BY <3>1, <3>4, OwnedFound DEF TableInv, Owned
      <4>2. p # 0
        BY <3>1, Fields DEF TableInv
      <4> QED BY <3>4, <4>1, <4>2
    <3> QED BY <3>2, <3>3, <3>5 DEF IdsNow
  <2> QED BY <2>1, <2>2, <2>3, <2>4
          DEF WritersNext, NextBatch, Open, ClientDelete, writerVars
<1> QED BY WritersInvariance, <1>1, PTL DEF WritersSpec, AbortsOnlyIfDeleted

\* Every row of t but the one with this id is in w as it was.
Others(t, id, w) ==
  \A q \in Positions(t) : t.ids[q] # id =>
    \E r \in Positions(w) : w.ids[r] = t.ids[q] /\ w.data[r] = t.data[q]

\* update leaves the rows of the other ids in place and as they were.
LEMMA UpdateOthers ==
  ASSUME NEW t, TableInv(t), NEW id \in Id, NEW row \in Row
  PROVE  Others(t, id, Update(t, id, row))
<1> DEFINE p == t.idMap[id]
           w == WriteRow(t, p, id, row)
<1>1. CASE p = 0
  BY <1>1 DEF Update, Others
<1>2. CASE p # 0
  <2>1. /\ t.data \in Seq(Row) /\ Positions(t) = 1 .. Len(t.data) /\ t \in TableRecord
        /\ p \in Positions(t) /\ t.ids[p] = id
    BY <1>2, Fields DEF TableInv, Inv, Good, Sound
  <2>2. w.ids = t.ids /\ w.data = [t.data EXCEPT ![p] = row]
    BY <2>1 DEF WriteRow, TableRecord
  <2>3. ASSUME NEW q \in 1 .. Len(t.data), q # p
        PROVE  [t.data EXCEPT ![p] = row][q] = t.data[q]
    <3> HIDE DEF Row, p
    <3> QED BY <2>1, <2>3
  <2> HIDE DEF w, p
  <2>4. ASSUME NEW q \in Positions(t), t.ids[q] # id
        PROVE  q \in Positions(w) /\ w.ids[q] = t.ids[q] /\ w.data[q] = t.data[q]
    <3>1. q # p /\ q \in 1 .. Len(t.data)
      BY <2>1, <2>4
    <3> QED BY <2>1, <2>2, <2>3, <2>4, <3>1 DEF Positions
  <2>5. Others(t, id, w)
    BY <2>4 DEF Others
  <2> QED BY <1>2, <2>5 DEF Update, w, p
<1> QED BY <1>1, <1>2

\* delete leaves the rows of the other ids as they were.
LEMMA DeleteOthers ==
  ASSUME NEW t, TableInv(t), NEW id \in Id
  PROVE  Others(t, id, Delete(t, id))
<1> DEFINE p == GetIndex(t, id)
           n == Len(t.ids)
           w == Delete(t, id)
<1>1. CASE p = 0
  BY <1>1 DEF Delete, Others
<1>2. CASE p # 0
  <2>1. RowGone(t, id, w)
    BY <1>2, DeleteFields DEF TableInv
  <2> HIDE DEF w
  <2>2. /\ n \in Nat /\ p \in 1 .. n /\ t.ids[p] = id /\ Len(w.ids) = n - 1
        /\ \A q \in 1 .. n - 1 : w.ids[q] = IF q = p THEN t.ids[n] ELSE t.ids[q]
        /\ \A q \in 1 .. n - 1 : w.data[q] = IF q = p THEN t.data[n] ELSE t.data[q]
    BY <2>1 DEF RowGone
  <2> HIDE DEF p
  <2>3. Positions(t) = 1 .. n /\ Positions(w) = 1 .. n - 1
    BY <2>2 DEF Positions
  <2> HIDE DEF n
  <2>4. ASSUME NEW q \in Positions(t), t.ids[q] # id
        PROVE  \E r \in Positions(w) : w.ids[r] = t.ids[q] /\ w.data[r] = t.data[q]
    <3>1. CASE q = n
      <4>1. p \in Positions(w) /\ w.ids[p] = t.ids[q] /\ w.data[p] = t.data[q]
        BY <2>2, <2>3, <2>4, <3>1
      <4> QED BY <4>1
    <3>2. CASE q # n
      BY <2>2, <2>3, <2>4, <3>2
    <3> QED BY <3>1, <3>2
  <2>5. Others(t, id, w)
    BY <2>4 DEF Others
  <2> QED BY <2>5 DEF w
<1> QED BY <1>1, <1>2

\* The position of a row is the one of its id.
LEMMA AtOwned ==
  ASSUME NEW t, TableInv(t), NEW p \in Positions(t)
  PROVE  At(t, t.ids[p]) = p
<1>1. \A q \in Positions(t) : t.ids[q] = t.ids[p] => q = p
  BY OwnedOnce DEF TableInv
<1> QED BY <1>1 DEF At

\* A statement writes one row at a time, and every other row stays as it was.
THEOREM OthersStay == WritersSpec => OthersUntouched
<1> DEFINE Untouched == \A th \in Threads, id \in Id :
             WriteOne(th, id) =>
               \A other \in IdsNow \ {id} :
                 /\ other \in IdsNow'
                 /\ table'.data[At(table', other)] = table.data[At(table, other)]
<1>1. WritersInv /\ [WritersNext]_writerVars => [Untouched]_writerVars
  <2> SUFFICES ASSUME WritersInv, NEW th \in Threads, NEW id \in Id, WriteOne(th, id),
                      NEW other \in IdsNow \ {id}
               PROVE  /\ other \in IdsNow'
                      /\ table'.data[At(table', other)] = table.data[At(table, other)]
    OBVIOUS
  <2>1. TableInv(table) /\ TableInv(table')
    BY WriteOneInv DEF WritersInv
  <2>2. Others(table, id, table')
    <3>1. \/ table' = Delete(table, id)
          \/ jobs[th].row \in Row /\ table' = Update(table, id, jobs[th].row)
      BY WriteOneInv
    <3> QED BY <2>1, <3>1, UpdateOthers, DeleteOthers
  <2>3. PICK q \in Positions(table) : table.ids[q] = other
    BY DEF IdsNow
  <2>4. PICK r \in Positions(table') :
          table'.ids[r] = table.ids[q] /\ table'.data[r] = table.data[q]
    BY <2>2, <2>3 DEF Others
  <2>5. At(table, other) = q /\ At(table', other) = r
    BY <2>1, <2>3, <2>4, AtOwned
  <2> QED BY <2>3, <2>4, <2>5 DEF IdsNow
<1> QED BY WritersInvariance, <1>1, PTL DEF WritersSpec, OthersUntouched

-----------------------------------------------------------------------------
(* Duplicates *)

\* The threads that will insert a row with key v, by what they saw.
InsertingIn(s, v) == {th \in Threads : s[th].calling /\ s[th].ids = {} /\ s[th].row[Key] = v}

Bound(t, s, v) ==
  Cardinality(Scan(t, Key, v)) + Cardinality(InsertingIn(s, v)) <= Cardinality(Threads)

\* A set of threads is counted by a number no larger than theirs.
LEMMA ThreadsFinite ==
  ASSUME NEW S \in SUBSET Threads
  PROVE  /\ IsFiniteSet(S) /\ Cardinality(S) \in Nat /\ Cardinality(Threads) \in Nat
         /\ Cardinality(S) <= Cardinality(Threads)
         /\ \A T \in SUBSET S : Cardinality(T) <= Cardinality(S) /\ Cardinality(T) \in Nat
<1>1. IsFiniteSet(S) /\ Cardinality(S) <= Cardinality(Threads)
  BY ThreadsAssumption, FS_Subset
<1>2. Cardinality(S) \in Nat /\ Cardinality(Threads) \in Nat
  BY <1>1, ThreadsAssumption, FS_CardinalityType
<1>3. ASSUME NEW T \in SUBSET S
      PROVE  Cardinality(T) <= Cardinality(S) /\ Cardinality(T) \in Nat
  <2>1. IsFiniteSet(T) /\ Cardinality(T) <= Cardinality(S)
    BY <1>1, FS_Subset
  <2> QED BY <2>1, FS_CardinalityType
<1> QED BY <1>1, <1>2, <1>3

\* With no more rows and no more threads that insert, the bound stays.
LEMMA BoundStays ==
  ASSUME NEW t, TableInv(t), NEW w, TableInv(w), Fewer(t, w), NEW s, NEW u, NEW v \in Values,
         InsertingIn(u, v) \subseteq InsertingIn(s, v), Bound(t, s, v)
  PROVE  Bound(w, u, v)
<1> DEFINE S == InsertingIn(s, v)
           U == InsertingIn(u, v)
<1>1. S \in SUBSET Threads
  BY DEF InsertingIn
<1> HIDE DEF S, U
<1>2. /\ Cardinality(U) <= Cardinality(S) /\ Cardinality(U) \in Nat
      /\ Cardinality(S) \in Nat /\ Cardinality(Threads) \in Nat
  BY <1>1, ThreadsFinite DEF S, U
<1>3. /\ Cardinality(Scan(t, Key, v)) \in Nat /\ Cardinality(Scan(w, Key, v)) \in Nat
      /\ Cardinality(Scan(w, Key, v)) <= Cardinality(Scan(t, Key, v))
  BY ScanFinite DEF TableInv, Fewer
<1>4. Cardinality(Scan(t, Key, v)) + Cardinality(S) <= Cardinality(Threads)
  BY DEF Bound, S
<1>5. Cardinality(Scan(w, Key, v)) + Cardinality(U) <= Cardinality(Threads)
  BY <1>2, <1>3, <1>4
<1> QED BY <1>5 DEF Bound, U

\* A thread that will insert has seen that no row has its key.
LEMMA LookBound ==
  ASSUME WritersInv, NEW th \in Threads, NEW row \in Row, Look(th, row), jobs' = jobs,
         NEW v \in Values, Bound(table, saw, v)
  PROVE  Bound(table', saw', v)
<1>1. /\ TableInv(table) /\ TableInv(table') /\ Fewer(table, table') /\ table' = table
      /\ row[Key] \in Values
  BY LookInv, KeyAssumption DEF WritersInv, Look, Row
<1>2. PICK found \in LET hits == FirstHits(table, row[Key])
                     IN  IF hits = {} THEN {{}} ELSE {{table.ids[p]} : p \in hits} :
        saw' = [saw EXCEPT ![th] = Seen(row, found)]
  BY DEF Look
<1>3. \A x \in Threads : saw'[x] = IF x = th THEN Seen(row, found) ELSE saw[x]
  BY <1>2 DEF WritersInv
<1>4. CASE found = {} /\ row[Key] = v
  <2>1. FirstHits(table, v) = {}
    BY <1>2, <1>4
  <2>2. Scan(table, Key, v) = {}
    BY <1>1, <2>1, LookupExact
  <2>3. InsertingIn(saw', v) \in SUBSET Threads
    BY DEF InsertingIn
  <2>4. /\ Cardinality(InsertingIn(saw', v)) <= Cardinality(Threads)
        /\ Cardinality(InsertingIn(saw', v)) \in Nat
    BY <2>3, ThreadsFinite
  <2>5. Cardinality(Scan(table', Key, v)) = 0
    BY <1>1, <2>2, FS_EmptySet
  <2> QED BY <2>4, <2>5 DEF Bound
<1>5. CASE ~(found = {} /\ row[Key] = v)
  <2>1. InsertingIn(saw', v) \subseteq InsertingIn(saw, v)
    <3>1. Seen(row, found).ids = found /\ Seen(row, found).row = row
      BY DEF Seen
    <3> QED BY <1>3, <1>5, <3>1 DEF InsertingIn
  <2> QED BY <1>1, <2>1, BoundStays
<1> QED BY <1>4, <1>5

\* A thread that inserts is one fewer that will.
LEMMA InsertNewBound ==
  ASSUME WritersInv, NEW th \in Threads, InsertNew(th), jobs' = jobs,
         NEW v \in Values, Bound(table, saw, v)
  PROVE  Bound(table', saw', v)
<1>1. /\ TableInv(table) /\ TableInv(table')
      /\ Cardinality(Scan(table', Key, v)) <=
           Cardinality(Scan(table, Key, v)) + (IF saw[th].row[Key] = v THEN 1 ELSE 0)
  BY InsertNewInv DEF WritersInv
<1>2. /\ Cardinality(Scan(table, Key, v)) \in Nat /\ Cardinality(Scan(table', Key, v)) \in Nat
      /\ Cardinality(Threads) \in Nat
  BY <1>1, ScanFinite, ThreadsAssumption, FS_CardinalityType DEF TableInv
<1>3. /\ \A x \in Threads : saw'[x] = IF x = th THEN NotCalling ELSE saw[x]
      /\ saw[th].calling /\ saw[th].ids = {}
  BY DEF WritersInv, InsertNew, Return, Calling
<1> DEFINE S == InsertingIn(saw, v)
           U == InsertingIn(saw', v)
<1>4. U = S \ {th}
  <2>1. ~NotCalling.calling
    BY DEF NotCalling
  <2> QED BY <1>3, <2>1 DEF InsertingIn
<1>5. S \in SUBSET Threads /\ (saw[th].row[Key] = v <=> th \in S)
  BY <1>3 DEF InsertingIn
<1>6. Cardinality(Scan(table, Key, v)) + Cardinality(S) <= Cardinality(Threads)
  BY DEF Bound
<1> HIDE DEF S, U
<1>7. IsFiniteSet(S) /\ Cardinality(S) \in Nat
  BY <1>5, ThreadsFinite
<1>8. Cardinality(U) = IF th \in S THEN Cardinality(S) - 1 ELSE Cardinality(S)
  BY <1>4, <1>7, FS_RemoveElement
<1>9. Cardinality(Scan(table', Key, v)) + Cardinality(U) <= Cardinality(Threads)
  BY <1>1, <1>2, <1>5, <1>6, <1>7, <1>8
<1> QED BY <1>9 DEF Bound, U

DuplicatesInv == WritersInv /\ \A v \in Values : Bound(table, saw, v)

\* insert_or_replace looks and inserts in two steps, so a key may get several
\* rows, but never more than there are threads.
THEOREM DuplicatesAreBounded == WritersSpec => []DuplicatesBounded
<1>1. WritersInit => DuplicatesInv
  <2> SUFFICES ASSUME WritersInit, NEW v \in Values PROVE Bound(table, saw, v)
    BY WritersInitInv DEF DuplicatesInv
  <2>1. Len(table.ids) = 0
    BY DEF WritersInit, Init, EmptyTable, CreateIndex
  <2>2. Scan(table, Key, v) = {}
    BY <2>1 DEF Scan, Positions
  <2>3. InsertingIn(saw, v) = {}
    BY DEF WritersInit, Init, InsertingIn, NotCalling
  <2>4. Cardinality({}) = 0 /\ Cardinality(Threads) \in Nat
    BY FS_EmptySet, ThreadsAssumption, FS_CardinalityType
  <2> QED BY <2>2, <2>3, <2>4 DEF Bound
<1>2. DuplicatesInv /\ [WritersNext]_writerVars => DuplicatesInv'
  <2> SUFFICES ASSUME DuplicatesInv, [WritersNext]_writerVars PROVE DuplicatesInv'
    OBVIOUS
  <2>1. WritersInv /\ WritersInv' /\ TableInv(table) /\ TableInv(table')
    BY WritersNextInv DEF DuplicatesInv, WritersInv
  <2> SUFFICES ASSUME NEW v \in Values PROVE Bound(table', saw', v)
    BY <2>1 DEF DuplicatesInv
  <2>2. Bound(table, saw, v)
    BY DEF DuplicatesInv
  <2>3. ASSUME saw' = saw, Fewer(table, table')
        PROVE  Bound(table', saw', v)
    BY <2>1, <2>2, <2>3, BoundStays
  <2>4. ASSUME NEW th \in Threads, Replace(th), jobs' = jobs
        PROVE  Bound(table', saw', v)
    <3>1. InsertingIn(saw', v) \subseteq InsertingIn(saw, v)
      <4>1. \A x \in Threads : saw'[x] = IF x = th THEN NotCalling ELSE saw[x]
        BY <2>1, <2>4 DEF WritersInv, Replace, Return
      <4>2. ~NotCalling.calling
        BY DEF NotCalling
      <4> QED BY <4>1, <4>2 DEF InsertingIn
    <3>2. Fewer(table, table')
      BY <2>1, <2>4, ReplaceInv
    <3> QED BY <2>1, <2>2, <3>1, <3>2, BoundStays
  <2>5. ASSUME NEW th \in Threads, NEW row \in Row, Look(th, row), jobs' = jobs
        PROVE  Bound(table', saw', v)
    BY <2>1, <2>2, <2>5, LookBound
  <2>6. ASSUME NEW th \in Threads, InsertNew(th), jobs' = jobs
        PROVE  Bound(table', saw', v)
    BY <2>1, <2>2, <2>6, InsertNewBound
  <2>7. ASSUME NEW id \in Id, ClientDelete(id), jobs' = jobs
        PROVE  Bound(table', saw', v)
    BY <2>1, <2>3, <2>7, ClientDeleteInv DEF ClientDelete
  <2>8. ASSUME NEW th \in Threads, NEW row \in Row, NEW kind \in {"update", "delete"},
               Collect(th, kind, row)
        PROVE  Bound(table', saw', v)
    BY <2>1, <2>3, <2>8, CollectInv DEF Collect
  <2>9. ASSUME NEW th \in Threads, NEW id \in Id, WriteOne(th, id)
        PROVE  Bound(table', saw', v)
    BY <2>1, <2>3, <2>9, WriteOneInv DEF WriteOne
  <2>10. ASSUME NEW th \in Threads, NEW id \in Id, Abort(th, id)
         PROVE  Bound(table', saw', v)
    BY <2>1, <2>3, <2>10, AbortInv DEF Abort
  <2>11. ASSUME UNCHANGED <<table, saw, jobs>>
         PROVE  Bound(table', saw', v)
    BY <2>1, <2>3, <2>11, StillInv
  <2> QED
    BY <2>4, <2>5, <2>6, <2>7, <2>8, <2>9, <2>10, <2>11
       DEF WritersNext, NextBatch, Open, writerVars
<1>3. DuplicatesInv => DuplicatesBounded
  BY DEF DuplicatesInv, Bound, InsertingIn, DuplicatesBounded, Holders, Inserting, Calling
<1> QED BY <1>1, <1>2, <1>3, PTL DEF WritersSpec

-----------------------------------------------------------------------------
(* The cursor *)

CursorRecord ==
  [open : {TRUE}, size : Nat \ {0}, offset : Nat, done : BOOLEAN,
   seen : SUBSET Id, start : SUBSET Id, disturbed : BOOLEAN]

\* Behind its offset a cursor has seen no row; and undisturbed, what it has not
\* seen of the rows it started with is there.
Reading(t, c) ==
  \/ c = NoCursor
  \/ /\ c \in CursorRecord
     /\ IsFiniteSet(c.seen)
     /\ \A id \in c.seen : id \in Nat /\ id < t.nextId
     /\ \A p \in Positions(t) : c.offset < p => t.ids[p] \notin c.seen
     /\ ~c.disturbed =>
          \A id \in c.start \ c.seen :
            ~c.done /\ \E p \in Positions(t) : c.offset < p /\ t.ids[p] = id

\* A row that is seen is not seen again: rows move towards the front.
LEMMA SeenStays ==
  ASSUME NEW t, TableInv(t), NEW w, TableInv(w), Steady(t, w),
         NEW c \in CursorRecord, Reading(t, c)
  PROVE  /\ IsFiniteSet(c.seen)
         /\ \A id \in c.seen : id \in Nat /\ id < w.nextId
         /\ \A q \in Positions(w) : c.offset < q => w.ids[q] \notin c.seen
<1>1. t.nextId \in Nat /\ w.nextId \in Nat /\ t.nextId <= w.nextId /\ c.offset \in Nat
  BY Fields DEF TableInv, Steady, CursorRecord
<1>2. c # NoCursor
  <2>1. c.open = TRUE
    BY DEF CursorRecord
  <2>2. NoCursor.open = FALSE
    BY DEF NoCursor
  <2> QED BY <2>1, <2>2
<1>3. /\ IsFiniteSet(c.seen)
      /\ \A id \in c.seen : id \in Nat /\ id < t.nextId
      /\ \A p \in Positions(t) : c.offset < p => t.ids[p] \notin c.seen
  BY <1>2 DEF Reading
<1>4. \A id \in c.seen : id \in Nat /\ id < w.nextId
  BY <1>1, <1>3
<1>5. ASSUME NEW q \in Positions(w), c.offset < q, w.ids[q] \in c.seen
      PROVE  FALSE
  <2>1. ~(t.nextId <= w.ids[q])
    BY <1>1, <1>3, <1>5
  <2>2. PICK p \in Positions(t) :
          q <= p /\ t.ids[p] = w.ids[q] /\ t.data[p][Key] = w.data[q][Key]
    BY <2>1 DEF Steady
  <2>3. p \in Nat /\ q \in Nat
    BY Fields DEF TableInv
  <2> QED BY <1>1, <1>3, <1>5, <2>2, <2>3
<1> QED BY <1>3, <1>4, <1>5

\* Steps that delete nothing do not disturb a cursor, a deletion does.
LEMMA ReadingStays ==
  ASSUME NEW t, TableInv(t), NEW w, TableInv(w), Steady(t, w), NEW c, Reading(t, c)
  PROVE  /\ Kept(t, w) => Reading(w, c)
         /\ Reading(w, IF c.open THEN [c EXCEPT !.disturbed = TRUE] ELSE c)
<1>1. CASE c = NoCursor
  BY <1>1 DEF Reading, NoCursor
<1>2. CASE c # NoCursor
  <2>1. c \in CursorRecord /\ c.open = TRUE
    BY <1>2 DEF Reading, CursorRecord
  <2>2. /\ IsFiniteSet(c.seen)
        /\ \A id \in c.seen : id \in Nat /\ id < w.nextId
        /\ \A q \in Positions(w) : c.offset < q => w.ids[q] \notin c.seen
    BY <2>1, SeenStays
  <2>3. ASSUME Kept(t, w) PROVE Reading(w, c)
    <3>1. ASSUME ~c.disturbed, NEW id \in c.start \ c.seen
          PROVE  ~c.done /\ \E p \in Positions(w) : c.offset < p /\ w.ids[p] = id
      <4>1. ~c.done /\ \E p \in Positions(t) : c.offset < p /\ t.ids[p] = id
        BY <1>2, <3>1 DEF Reading
      <4> QED BY <2>3, <4>1 DEF Kept
    <3> QED BY <2>1, <2>2, <3>1 DEF Reading
  <2> DEFINE d == [c EXCEPT !.disturbed = TRUE]
  <2>4. d \in CursorRecord /\ d.seen = c.seen /\ d.offset = c.offset /\ d.disturbed = TRUE
    BY <2>1 DEF CursorRecord
  <2> HIDE DEF d
  <2>5. Reading(w, d)
    BY <2>2, <2>4 DEF Reading
  <2> QED BY <2>1, <2>3, <2>5 DEF d
<1> QED BY <1>1, <1>2

\* A batch has a row for each of its positions.
LEMMA BatchSize ==
  ASSUME NEW t, TableInv(t), NEW a \in Nat, NEW m \in Nat, a <= m, m <= Len(t.ids)
  PROVE  /\ IsFiniteSet({t.ids[p] : p \in a + 1 .. m})
         /\ Cardinality({t.ids[p] : p \in a + 1 .. m}) = m - a
<1> DEFINE S == a + 1 .. m
           B == {t.ids[p] : p \in S}
           f == [p \in S |-> t.ids[p]]
<1>1. S \subseteq Positions(t)
  <2>1. Positions(t) = 1 .. Len(t.ids) /\ Len(t.ids) \in Nat
    BY Fields DEF TableInv
  <2> QED BY <2>1
<1>2. \A p, q \in S : t.ids[p] = t.ids[q] => p = q
  BY <1>1, OwnedOnce DEF TableInv
<1>3. IsFiniteSet(S) /\ Cardinality(S) = m - a
  <2>1. IsFiniteSet(S) /\ Cardinality(S) = IF a + 1 > m THEN 0 ELSE m - (a + 1) + 1
    BY FS_Interval
  <2> QED BY <2>1
<1> HIDE DEF S
<1>4. f \in Surjection(S, B)
  BY DEF Surjection
<1>5. f \in Injection(S, B)
  BY <1>2 DEF Injection, IsInjective
<1>6. IsFiniteSet(B) /\ Cardinality(B) = Cardinality(S)
  <2> HIDE DEF f, B
  <2> QED BY <1>3, <1>4, <1>5, FS_Surjection
<1> QED BY <1>3, <1>6 DEF S

\* One call of next returns only rows that were not returned before.
LEMMA NextBatchReads ==
  ASSUME WritersInv, Reading(table, cursor), NextBatch
  PROVE  /\ Reading(table, cursor')
         /\ Cardinality(cursor'.seen) =
              Cardinality(cursor.seen) + (cursor'.offset - cursor.offset)
<1> DEFINE c == cursor
           t == table
           n == Len(t.ids)
<1>1. /\ TableInv(t) /\ c.open /\ ~c.done /\ n \in Nat
      /\ Positions(t) = 1 .. n
  BY Fields DEF NextBatch, WritersInv, TableInv
<1>2. c # NoCursor
  <2>1. NoCursor.open = FALSE
    BY DEF NoCursor
  <2> QED BY <1>1, <2>1
<1>3. /\ c \in CursorRecord /\ IsFiniteSet(c.seen)
      /\ \A id \in c.seen : id \in Nat /\ id < t.nextId
      /\ \A p \in Positions(t) : c.offset < p => t.ids[p] \notin c.seen
      /\ ~c.disturbed =>
           \A id \in c.start \ c.seen : \E p \in Positions(t) : c.offset < p /\ t.ids[p] = id
  BY <1>2 DEF Reading
<1>4. c.offset \in Nat /\ c.size \in Nat \ {0} /\ Cardinality(c.seen) \in Nat
  BY <1>3, FS_CardinalityType DEF CursorRecord
<1>5. CASE c.offset >= n
  <2>1. cursor' = [c EXCEPT !.done = TRUE]
    BY <1>5 DEF NextBatch
  <2>2. /\ cursor' \in CursorRecord /\ cursor'.seen = c.seen /\ cursor'.offset = c.offset
        /\ cursor'.start = c.start /\ cursor'.disturbed = c.disturbed
    BY <1>3, <2>1 DEF CursorRecord
  <2>3. ~c.disturbed => c.start \ c.seen = {}
    BY <1>1, <1>3, <1>4, <1>5
  <2>4. Reading(t, cursor')
    BY <1>3, <2>2, <2>3 DEF Reading
  <2> QED BY <1>4, <2>2, <2>4
<1>6. CASE ~(c.offset >= n)
  <2> DEFINE m == Smaller(c.offset + c.size, n)
             B == Batch(c)
  <2>1. m \in Nat /\ c.offset <= m /\ m <= n /\ (m < n => m = c.offset + c.size)
        /\ m <= c.offset + c.size
    BY <1>1, <1>4, <1>6 DEF Smaller
  <2>2. B = {t.ids[p] : p \in c.offset + 1 .. m}
    BY DEF Batch
  <2>3. IsFiniteSet(B) /\ Cardinality(B) = m - c.offset
    <3> HIDE DEF m, B
    <3>1. c.offset <= m /\ m <= Len(t.ids) /\ m \in Nat /\ c.offset \in Nat /\ TableInv(t)
      BY <1>1, <1>4, <2>1
    <3>2. /\ IsFiniteSet({t.ids[p] : p \in c.offset + 1 .. m})
          /\ Cardinality({t.ids[p] : p \in c.offset + 1 .. m}) = m - c.offset
      BY ONLY <3>1, BatchSize
    <3> QED BY <2>2, <3>2
  <2>4. \A id \in B : id \in Id /\ id \in Nat /\ id < t.nextId /\ id \notin c.seen
    <3>1. \A p \in c.offset + 1 .. m : p \in Positions(t) /\ c.offset < p
      <4> HIDE DEF m
      <4> QED BY <1>1, <1>4, <2>1
    <3>2. \A p \in Positions(t) : t.ids[p] \in Id /\ t.ids[p] \in Nat /\ t.ids[p] < t.nextId
      BY <1>1, Fields DEF TableInv, NatIds, Owned
    <3> HIDE DEF m, B
    <3> QED BY <1>3, <2>2, <3>1, <3>2
  <2>5. cursor' = [c EXCEPT !.offset = c.offset + Cardinality(B),
                            !.done = Cardinality(B) < c.size,
                            !.seen = c.seen \cup B]
    BY <1>3, <1>6 DEF NextBatch, Advanced, CursorRecord
  <2> HIDE DEF B, m
  <2>6. /\ cursor' \in CursorRecord /\ cursor'.seen = c.seen \cup B /\ cursor'.offset = m
        /\ cursor'.start = c.start /\ cursor'.disturbed = c.disturbed
        /\ cursor'.done <=> m - c.offset < c.size
    <3>1. c.offset + Cardinality(B) = m /\ B \subseteq Id
      BY <1>4, <2>1, <2>3, <2>4
    <3>2. cursor' = [c EXCEPT !.offset = m, !.done = (m - c.offset < c.size),
                              !.seen = c.seen \cup B]
      BY <2>3, <2>5, <3>1
    <3>3. c.seen \cup B \in SUBSET Id /\ (m - c.offset < c.size) \in BOOLEAN
      BY <1>3, <3>1 DEF CursorRecord
    <3> QED BY <1>3, <2>1, <3>2, <3>3 DEF CursorRecord
  <2>7. /\ IsFiniteSet(c.seen \cup B)
        /\ Cardinality(c.seen \cup B) = Cardinality(c.seen) + (m - c.offset)
    <3>1. c.seen \cap B = {}
      BY <2>4
    <3>2. /\ IsFiniteSet(c.seen \cup B)
          /\ Cardinality(c.seen \cup B) =
               Cardinality(c.seen) + Cardinality(B) - Cardinality(c.seen \cap B)
      BY <1>3, <2>3, FS_Union
    <3>3. Cardinality(c.seen \cap B) = 0
      BY <3>1, FS_EmptySet
    <3>4. Cardinality(c.seen \cup B) = Cardinality(c.seen) + Cardinality(B) - 0
      BY <3>2, <3>3
    <3>5. Cardinality(B) = m - c.offset /\ m - c.offset \in Int
      BY <1>4, <2>1, <2>3
    <3>6. Cardinality(c.seen \cup B) = Cardinality(c.seen) + (m - c.offset)
      BY <1>4, <3>4, <3>5
    <3> QED BY <3>2, <3>6
  <2>8. ASSUME NEW p \in Positions(t), m < p
        PROVE  t.ids[p] \notin c.seen \cup B
    <3>1. t.ids[p] \notin c.seen
      BY <1>1, <1>3, <1>4, <2>1, <2>8
    <3>2. ASSUME NEW q \in c.offset + 1 .. m PROVE t.ids[q] # t.ids[p]
      <4>1. q \in Positions(t) /\ q # p
        BY <1>1, <1>4, <2>1, <2>8
      <4> QED BY <1>1, <4>1, OwnedOnce DEF TableInv
    <3> QED BY <2>2, <3>1, <3>2
  <2>9. ASSUME ~c.disturbed, NEW id \in c.start \ (c.seen \cup B)
        PROVE  ~(m - c.offset < c.size) /\ \E p \in Positions(t) : m < p /\ t.ids[p] = id
    <3>1. PICK p \in Positions(t) : c.offset < p /\ t.ids[p] = id
      BY <1>3, <2>9
    <3>2. p \notin c.offset + 1 .. m
      BY <2>2, <2>9, <3>1
    <3>3. m < p /\ p <= n
      BY <1>1, <1>4, <2>1, <3>1, <3>2
    <3>4. m < n
      BY <1>1, <2>1, <3>3
    <3> QED BY <1>4, <2>1, <3>1, <3>3, <3>4
  <2>10. Reading(t, cursor')
    <3> HIDE DEF c, t, n
    <3> QED BY <1>3, <2>4, <2>6, <2>7, <2>8, <2>9 DEF Reading
  <2> QED BY <2>6, <2>7, <2>10
<1> QED BY <1>5, <1>6

CursorInv == WritersInv /\ Reading(table, cursor)

\* Every step keeps what a cursor has read in step with the rows it started with.
LEMMA CursorNext ==
  ASSUME CursorInv, [WritersNext]_writerVars
  PROVE  CursorInv'
<1>1. /\ WritersInv /\ WritersInv' /\ Reading(table, cursor) /\ Steady(table, table')
      /\ TableInv(table) /\ TableInv(table')
  BY WritersNextInv DEF CursorInv, WritersInv
<1>2. ASSUME Kept(table, table'), cursor' = cursor
      PROVE  Reading(table', cursor')
  BY <1>1, <1>2, ReadingStays
<1>3. ASSUME Disturb
      PROVE  Reading(table', cursor')
  BY <1>1, <1>3, ReadingStays DEF Disturb
<1>4. ASSUME NEW th \in Threads, NEW row \in Row, Look(th, row), jobs' = jobs, cursor' = cursor
      PROVE  Reading(table', cursor')
  BY <1>1, <1>2, <1>4, LookInv
<1>5. ASSUME NEW th \in Threads, Replace(th), jobs' = jobs, cursor' = cursor
      PROVE  Reading(table', cursor')
  BY <1>1, <1>2, <1>5, ReplaceInv
<1>6. ASSUME NEW th \in Threads, InsertNew(th), jobs' = jobs, cursor' = cursor
      PROVE  Reading(table', cursor')
  BY <1>1, <1>2, <1>6, InsertNewInv
<1>7. ASSUME NEW th \in Threads, NEW row \in Row, NEW kind \in {"update", "delete"},
             Collect(th, kind, row)
      PROVE  Reading(table', cursor')
  BY <1>1, <1>2, <1>7, CollectInv DEF Collect
<1>8. ASSUME NEW th \in Threads, NEW id \in Id, WriteOne(th, id),
             IF jobs[th].kind = "delete" THEN Disturb ELSE UNCHANGED cursor
      PROVE  Reading(table', cursor')
  <2>1. CASE jobs[th].kind = "delete"
    BY <1>3, <1>8, <2>1
  <2>2. CASE jobs[th].kind # "delete"
    <3>1. Kept(table, table')
      BY <1>1, <1>8, <2>2, WriteOneInv
    <3> QED BY <1>2, <1>8, <2>2, <3>1
  <2> QED BY <2>1, <2>2
<1>9. ASSUME NEW th \in Threads, NEW id \in Id, Abort(th, id)
      PROVE  Reading(table', cursor')
  BY <1>1, <1>2, <1>9, AbortInv DEF Abort
<1>10. ASSUME NextBatch
       PROVE  Reading(table', cursor')
  BY <1>1, <1>10, NextBatchReads DEF NextBatch
<1>11. ASSUME NEW size \in BatchSizes, Open(size)
       PROVE  Reading(table', cursor')
  <2>1. table' = table /\ size \in Nat \ {0} /\ IdsNow \in SUBSET Id
    BY <1>1, <1>11, BatchSizesAssumption, Fields DEF Open, IdsNow, TableInv
  <2>2. /\ cursor' \in CursorRecord /\ cursor'.offset = 0 /\ cursor'.seen = {}
        /\ ~cursor'.done /\ cursor'.start = IdsNow
    BY <1>11, <2>1 DEF Open, CursorRecord
  <2>3. \A id \in IdsNow : \E p \in Positions(table) : 0 < p /\ table.ids[p] = id
    BY <1>1, Fields DEF IdsNow, TableInv
  <2> QED BY <2>1, <2>2, <2>3, FS_EmptySet DEF Reading
<1>12. ASSUME UNCHANGED writerVars
       PROVE  Reading(table', cursor')
  BY <1>1, <1>12 DEF writerVars
<1>13. Reading(table', cursor')
  BY <1>3, <1>4, <1>5, <1>6, <1>7, <1>8, <1>9, <1>10, <1>11, <1>12 DEF WritersNext
<1> QED BY <1>1, <1>13 DEF CursorInv

\* A cursor returns no row twice, and every row unless one is deleted.
THEOREM CursorReadsOnce == WritersSpec => CursorExact
<1>1. WritersInit => CursorInv
  BY WritersInitInv DEF CursorInv, WritersInit, Reading
<1>2. CursorInv /\ [WritersNext]_writerVars => CursorInv'
  BY CursorNext
<1>3. CursorInv /\ [WritersNext]_writerVars =>
        [cursor.open /\ NextBatch => Cardinality(cursor'.seen) =
           Cardinality(cursor.seen) + (cursor'.offset - cursor.offset)]_writerVars
  BY NextBatchReads DEF CursorInv
<1>4. CursorInv => CursorComplete
  <2> SUFFICES ASSUME CursorInv, cursor.open, cursor.done, ~cursor.disturbed
               PROVE  cursor.start \subseteq cursor.seen
    BY DEF CursorComplete
  <2>1. cursor # NoCursor
    <3>1. NoCursor.open = FALSE
      BY DEF NoCursor
    <3> QED BY <3>1
  <2> QED BY <2>1 DEF CursorInv, Reading
<1> QED BY <1>1, <1>2, <1>3, <1>4, PTL DEF WritersSpec, CursorExact, CursorNeverRepeats

=============================================================================
