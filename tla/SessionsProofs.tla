--------------------------- MODULE SessionsProofs ---------------------------
(***************************************************************************)
(* The flat vectors of StridedTable and the statements of Sessions, for    *)
(* all schemas, clauses, statements and bounds.                            *)
(*                                                                         *)
(* The lemmas go the way the modules go: what a change of one table keeps  *)
(* (TableInv), what a statement keeps (EffectInv) and what a call keeps    *)
(* (IInv); then the relation a table stands for, and what each change does *)
(* to it.  A loop of the code is a recursive function of the model, and a  *)
(* lemma ...Steps gives its values; what it reaches follows by Counting.   *)
(***************************************************************************)
EXTENDS Sessions, Integers, TLAPS, FiniteSetTheorems, SequenceTheorems

-----------------------------------------------------------------------------
(* Numbers and sequences *)

\* A non-empty set of naturals has a least element.
LEMMA LeastElement ==
  ASSUME NEW S, S \subseteq Nat, S # {}
  PROVE  \E x \in S : \A y \in S : x <= y
<1>1. PICK x \in S : \A y \in S : ~ (<<y, x>> \in OpToRel(<, Nat))
  BY NatLessThanWellFounded, WFMin
<1>2. ASSUME NEW y \in S
      PROVE  x <= y
  <2>1. ~ (y < x)
    BY <1>1 DEF OpToRel
  <2> QED BY <2>1
<1> QED BY <1>2

\* What holds of 0, and of n + 1 when it holds of n, holds of every number.
LEMMA Counting ==
  ASSUME NEW S, 0 \in S, \A n \in Nat : n \in S => n + 1 \in S
  PROVE  \A n \in Nat : n \in S
<1> DEFINE Bad == {n \in Nat : n \notin S}
<1> SUFFICES ASSUME Bad # {}  PROVE FALSE
  OBVIOUS
<1>1. PICK m \in Bad : \A k \in Bad : m <= k
  BY LeastElement
<1>2. m # 0 /\ m - 1 \in Nat /\ ~(m <= m - 1)
  OBVIOUS
<1>3. m - 1 \in S
  BY <1>1, <1>2
<1>4. m - 1 + 1 \in S
  BY <1>2, <1>3
<1> QED BY <1>2, <1>4

\* Max picks the largest of a set of positions.
LEMMA MaxProperties ==
  ASSUME NEW n \in Nat, NEW S, S \subseteq 1 .. n, S # {}
  PROVE  Max(S) \in S /\ \A q \in S : q <= Max(S)
<1> DEFINE T == {n - s : s \in S}
<1>1. T \subseteq Nat /\ T # {}
  <2>1. \A s \in S : s \in Nat /\ n - s \in Nat
    OBVIOUS
  <2>2. T \subseteq Nat
    BY <2>1
  <2>3. T # {}
    OBVIOUS
  <2> QED BY <2>2, <2>3
<1>2. PICK x \in T : \A y \in T : x <= y
  <2> HIDE DEF T
  <2> QED BY <1>1, LeastElement
<1>3. PICK p \in S : x = n - p
  BY <1>2
<1>4. ASSUME NEW q \in S
      PROVE  q <= p
  <2>1. n - q \in T
    OBVIOUS
  <2>2. n - p <= n - q
    <3> HIDE DEF T
    <3> QED BY <1>2, <1>3, <2>1
  <2> QED BY <2>2
<1>5. \A q \in S : p >= q
  BY <1>4
<1> QED BY <1>5 DEF Max

\* A product grows with its factor.
LEMMA Scaled ==
  ASSUME NEW a \in Int, NEW b \in Int, NEW w \in Nat, a <= b
  PROVE  a * w <= b * w /\ a * w \in Int
OBVIOUS

\* A product of naturals is one.
LEMMA Product ==
  ASSUME NEW a \in Nat, NEW w \in Nat
  PROVE  a * w \in Nat
OBVIOUS

\* A product with a factor one larger or smaller.
LEMMA OneMore ==
  ASSUME NEW a \in Int, NEW w \in Nat
  PROVE  (a + 1) * w = a * w + w /\ (a - 1) * w = a * w - w
OBVIOUS

\* Cell i of row p is within the n rows of a vector.
LEMMA Within ==
  ASSUME NEW w \in Nat, NEW n \in Nat, NEW p \in 1 .. n, NEW i \in 1 .. w
  PROVE  (p - 1) * w + i \in 1 .. n * w
<1>1. 0 <= (p - 1) * w /\ p * w <= n * w
  BY Scaled
<1>2. p * w = (p - 1) * w + w
  BY OneMore
<1> QED BY <1>1, <1>2

\* No two cells are in one place.
LEMMA Apart ==
  ASSUME NEW w \in Nat, NEW p \in Nat, NEW q \in Nat, NEW i \in 1 .. w, NEW j \in 1 .. w,
         (p - 1) * w + i = (q - 1) * w + j
  PROVE  p = q /\ i = j
<1>1. ASSUME NEW x \in Nat, NEW y \in Nat, x < y
      PROVE  x * w + w <= y * w
  <2>1. (x + 1) * w <= y * w
    BY <1>1, Scaled
  <2> QED BY <2>1, OneMore
<1>2. ~(p < q)
  <2>1. ASSUME p < q  PROVE FALSE
    <3>1. p * w + w <= q * w
      BY <1>1, <2>1
    <3> QED BY <3>1, OneMore
  <2> QED BY <2>1
<1>3. ~(q < p)
  <2>1. ASSUME q < p  PROVE FALSE
    <3>1. q * w + w <= p * w
      BY <1>1, <2>1
    <3> QED BY <3>1, OneMore
  <2> QED BY <2>1
<1> QED BY <1>2, <1>3

\* A number below w is the remainder, and the rest the quotient.
LEMMA Divided ==
  ASSUME NEW w \in Nat \ {0}, NEW a \in Nat, NEW i \in 0 .. w - 1
  PROVE  (a * w + i) \div w = a /\ (a * w + i) % w = i
OBVIOUS

\* A sequence, whatever its elements are.
IsList(s) == s \in Seq(Range(s))

\* A function on 1 .. n is a sequence of its values.
LEMMA Listed ==
  ASSUME NEW n \in Nat, NEW S, NEW f \in [1 .. n -> S]
  PROVE  IsList(f) /\ Len(f) = n
<1>1. f \in [1 .. n -> Range(f)]
  BY DEF Range
<1>2. IsList(f)
  <2> DEFINE R == Range(f)
  <2>1. f \in [1 .. n -> R]
    BY <1>1
  <2> HIDE DEF R
  <2>2. f \in Seq(R)
    BY <2>1
  <2> QED BY <2>2 DEF R, IsList
<1>3. DOMAIN f = 1 .. Len(f) /\ DOMAIN f = 1 .. n /\ Len(f) \in Nat
  BY <1>1, <1>2, LenProperties
<1> QED BY <1>2, <1>3

\* The operators of Sequences on sequences of anything.
LEMMA Joined ==
  ASSUME NEW f, IsList(f), NEW g, IsList(g)
  PROVE  /\ IsList(f \o g)
         /\ Len(f \o g) = Len(f) + Len(g)
         /\ \A k \in 1 .. Len(f) + Len(g) :
              (f \o g)[k] = IF k <= Len(f) THEN f[k] ELSE g[k - Len(f)]
<1> DEFINE S == Range(f) \cup Range(g)
<1>1. f \in Seq(S) /\ g \in Seq(S)
  <2>1. f \in Seq(Range(f)) /\ Range(f) \subseteq S
    BY DEF IsList
  <2>2. g \in Seq(Range(g)) /\ Range(g) \subseteq S
    BY DEF IsList
  <2> HIDE DEF S
  <2> QED BY <2>1, <2>2, SeqMonotonic
<1> HIDE DEF S
<1>2. /\ f \o g \in Seq(S)
      /\ Len(f \o g) = Len(f) + Len(g)
      /\ \A k \in 1 .. Len(f) + Len(g) :
           (f \o g)[k] = IF k <= Len(f) THEN f[k] ELSE g[k - Len(f)]
  BY <1>1, ConcatProperties
<1> DEFINE h == f \o g
<1>3. h \in Seq(S)
  BY <1>2
<1> HIDE DEF h
<1>4. h \in [1 .. Len(h) -> S] /\ Len(h) \in Nat
  BY <1>3, LenProperties
<1>5. IsList(h)
  BY <1>4, Listed
<1> QED BY <1>2, <1>5 DEF h

\* A part of a sequence, which may be empty.
LEMMA Cut ==
  ASSUME NEW f, IsList(f), NEW a \in 1 .. Len(f) + 1, NEW b \in a - 1 .. Len(f)
  PROVE  /\ IsList(SubSeq(f, a, b))
         /\ Len(SubSeq(f, a, b)) = b - a + 1
         /\ \A k \in 1 .. b - a + 1 : SubSeq(f, a, b)[k] = f[a + k - 1]
<1> DEFINE S == Range(f)
           h == SubSeq(f, a, b)
<1>1. Len(f) \in Nat
  BY LenProperties
<1>2. a \in Int /\ b \in Int /\ (IF a <= b THEN b - a + 1 ELSE 0) = b - a + 1
  BY <1>1
<1>3. \A i \in a .. b : f[i] \in S
  <2>1. \A i \in a .. b : i \in 1 .. Len(f)
    BY <1>1
  <2> HIDE DEF S
  <2>2. f \in Seq(S)
    BY DEF S, IsList
  <2> QED BY <2>1, <2>2, ElementOfSeq
<1> HIDE DEF S
<1>4. /\ h \in Seq(S)
      /\ Len(h) = IF a <= b THEN b - a + 1 ELSE 0
      /\ \A k \in 1 .. b - a + 1 : h[k] = f[a + k - 1]
  BY <1>2, <1>3, SubSeqProperties
<1> HIDE DEF h
<1>5. h \in [1 .. Len(h) -> S] /\ Len(h) \in Nat
  BY <1>4, LenProperties
<1>6. IsList(h)
  BY <1>5, Listed
<1> QED BY <1>2, <1>4, <1>6 DEF h

-----------------------------------------------------------------------------
(* The invariant of one table *)

\* The ids a table gives.
Automatic == 0 .. MaxIds - 1

\* The fields of a table; the vector has a cell for every row and column.
IsTable(t) ==
  /\ t \in [exists     : {TRUE},
            columns    : Seq(Columns),
            ids        : Seq(Automatic),
            data       : {t.data},
            idMap      : [Automatic -> Nat],
            nextId     : 0 .. MaxIds,
            sequential : BOOLEAN]
  /\ IsList(t.data) /\ Len(t.data) = Len(t.ids) * Width(t)

\* No two rows have one id, and none has one that is still to be given.
IdsDiffer(t) ==
  /\ \A p \in Rows(t) : t.ids[p] < t.nextId
  /\ \A p, q \in Rows(t) : t.ids[p] = t.ids[q] => p = q

\* A sequential table holds the ids 0, 1, 2, .. and leaves its id_map alone.
Dense(t) ==
  t.sequential => /\ t.nextId = Len(t.ids)
                  /\ \A p \in Rows(t) : t.ids[p] = p - 1
                  /\ \A id \in Automatic : t.idMap[id] = 0

\* The id_map of any other has the position of every row, and nothing else.
Exact(t) ==
  ~t.sequential => /\ \A p \in Rows(t) : t.idMap[t.ids[p]] = p
                   /\ \A id \in Automatic : t.idMap[id] # 0 =>
                        t.idMap[id] \in Rows(t) /\ t.ids[t.idMap[id]] = id

\* What holds of a table that exists, between any two calls.
TableInv(t) == IsTable(t) /\ IdsDiffer(t) /\ Dense(t) /\ Exact(t)

\* What holds of the tables under all names.
TablesInv(ts) ==
  ts \in [Names -> Range(ts)] /\ \A n \in Names : ts[n] = NoTable \/ TableInv(ts[n])

\* The invariant of the calls: the tables there are and those of the snapshot
\* satisfy TableInv, and an executor that has noted a name has its table's
\* id_map unless the table was replaced since.
IInv ==
  /\ TablesInv(tables)
  /\ populated \subseteq Names
  /\ \A n \in populated \ replaced : Lives(n) => ~tables[n].sequential
  /\ saved = NoTransaction \/ (saved = Snapshot(saved.tables) /\ TablesInv(saved.tables))

\* What a table that satisfies the invariant is made of.
LEMMA Fields ==
  ASSUME NEW t, IsTable(t)
  PROVE  /\ t.exists = TRUE
         /\ Len(t.ids) \in Nat /\ Width(t) \in Nat
         /\ Len(t.ids) * Width(t) \in Nat
         /\ Rows(t) = 1 .. Len(t.ids)
         /\ DOMAIN t.idMap = Automatic
         /\ DOMAIN t.data = 1 .. Len(t.ids) * Width(t)
         /\ \A p \in Rows(t) : t.ids[p] \in Automatic
         /\ MaxIds \in Nat
<1>1. t.ids \in Seq(Automatic) /\ t.columns \in Seq(Columns)
  BY DEF IsTable
<1>2. Len(t.ids) \in Nat /\ Len(t.columns) \in Nat
  BY <1>1, LenProperties
<1>3. Len(t.ids) * Width(t) \in Nat
  BY <1>2, Product DEF Width
<1>4. \A p \in 1 .. Len(t.ids) : t.ids[p] \in Automatic
  BY <1>1, ElementOfSeq
<1>5. t.exists = TRUE /\ DOMAIN t.idMap = Automatic
  BY DEF IsTable
<1>6. DOMAIN t.data = 1 .. Len(t.ids) * Width(t)
  <2>1. IsList(t.data) /\ Len(t.data) = Len(t.ids) * Width(t)
    BY DEF IsTable
  <2> QED BY <2>1, LenProperties
<1> QED BY <1>2, <1>3, <1>4, <1>5, <1>6, MaxIdsAssumption DEF Width, Rows

\* get finds the row of an id, and none where there is none.
LEMMA GetFinds ==
  ASSUME NEW t, TableInv(t)
  PROVE  /\ \A p \in Rows(t) : Get(t, t.ids[p]) = p
         /\ \A id : Get(t, id) # 0 =>
              /\ id \in Automatic /\ Get(t, id) \in Rows(t) /\ t.ids[Get(t, id)] = id
<1>0. IsTable(t)
  BY DEF TableInv
<1>1. CASE t.sequential
  <2>1. /\ Len(t.ids) \in Nat /\ Rows(t) = 1 .. Len(t.ids) /\ DOMAIN t.idMap = Automatic
        /\ \A p \in Rows(t) : t.ids[p] \in Automatic /\ t.ids[p] = p - 1
        /\ \A id \in Automatic : t.idMap[id] = 0
    BY <1>0, <1>1, Fields DEF TableInv, Dense
  <2>2. ASSUME NEW p \in Rows(t)
        PROVE  Get(t, t.ids[p]) = p
    <3>1. t.ids[p] < Len(t.ids) /\ t.ids[p] + 1 = p /\ t.ids[p] \in DOMAIN t.idMap
      BY <2>1
    <3> QED BY <1>1, <3>1 DEF Get
  <2>3. ASSUME NEW id, Get(t, id) # 0
        PROVE  id \in Automatic /\ Get(t, id) \in Rows(t) /\ t.ids[Get(t, id)] = id
    <3>1. id \in Automatic /\ id < Len(t.ids) /\ Get(t, id) = id + 1
      BY <1>1, <2>1, <2>3 DEF Get
    <3>2. id \in Nat /\ id + 1 \in Rows(t) /\ id + 1 - 1 = id
      BY <2>1, <3>1 DEF Automatic
    <3> QED BY <2>1, <3>1, <3>2
  <2> QED BY <2>2, <2>3
<1>2. CASE ~t.sequential
  BY <1>0, <1>2, Fields DEF TableInv, Exact, Get
<1> QED BY <1>1, <1>2

\* An empty table satisfies the invariant.
LEMMA NewInv ==
  ASSUME NEW columns \in Seq(Columns)
  PROVE  TableInv(NewTable(columns))
<1> DEFINE t == NewTable(columns)
<1>1. t = [exists |-> TRUE, columns |-> columns, ids |-> <<>>, data |-> <<>>,
           idMap |-> [id \in 0 .. MaxIds - 1 |-> 0], nextId |-> 0, sequential |-> TRUE]
  BY DEF NewTable
<1> HIDE DEF t
<1>2. Len(t.ids) = 0 /\ t.ids \in Seq(Automatic)
  BY <1>1, EmptySeq
<1>3. Width(t) \in Nat
  BY <1>1, LenProperties DEF Width
<1>4. IsList(t.data) /\ Len(t.data) = Len(t.ids) * Width(t)
  <2>1. Len(t.ids) * Width(t) = 0
    BY <1>2, <1>3
  <2>2. t.data = <<>>
    BY <1>1
  <2> QED BY <2>1, <2>2, EmptySeq DEF IsList
<1>5. t.idMap \in [Automatic -> Nat]
  BY <1>1 DEF Automatic
<1>6. IsTable(t)
  <2>1. t.columns = columns /\ t.nextId = 0 /\ t.sequential = TRUE
    BY <1>1
  <2>2. 0 \in 0 .. MaxIds
    BY MaxIdsAssumption
  <2> HIDE DEF Automatic
  <2>3. t \in [exists : {TRUE}, columns : Seq(Columns), ids : Seq(Automatic), data : {t.data},
               idMap : [Automatic -> Nat], nextId : 0 .. MaxIds, sequential : BOOLEAN]
    BY <1>1, <1>2, <1>5, <2>1, <2>2
  <2> QED BY <1>4, <2>3 DEF IsTable
<1>7. Rows(t) = {}
  BY <1>2 DEF Rows
<1>8. t.sequential /\ t.nextId = 0 /\ \A id \in Automatic : t.idMap[id] = 0
  BY <1>1 DEF Automatic
<1>9. TableInv(t)
  BY <1>2, <1>6, <1>7, <1>8 DEF TableInv, IdsDiffer, Dense, Exact
<1> QED BY <1>9 DEF t

\* The id_map is filled with the positions of the rows.
LEMMA LeaveInv ==
  ASSUME NEW t, TableInv(t)
  PROVE  LET u == LeaveSequential(t)
         IN  /\ TableInv(u) /\ ~u.sequential
             /\ u.columns = t.columns /\ u.ids = t.ids /\ u.data = t.data
             /\ u.nextId = t.nextId
<1> DEFINE u == LeaveSequential(t)
<1>0. IsTable(t)
  BY DEF TableInv
<1>1. CASE ~t.sequential
  BY <1>1 DEF LeaveSequential
<1>2. CASE t.sequential
  <2> DEFINE map == [id \in DOMAIN t.idMap |->
                IF \E p \in Rows(t) : t.ids[p] = id
                THEN CHOOSE p \in Rows(t) : t.ids[p] = id ELSE t.idMap[id]]
  <2>1. u = [t EXCEPT !.sequential = FALSE, !.idMap = map]
    BY <1>2 DEF LeaveSequential, FillIdMap
  <2>2. \A p \in Rows(t) : map[t.ids[p]] = p
    <3> SUFFICES ASSUME NEW p \in Rows(t)  PROVE map[t.ids[p]] = p
      OBVIOUS
    <3>1. t.ids[p] \in DOMAIN t.idMap
      BY <1>0, Fields
    <3>2. map[t.ids[p]] = CHOOSE q \in Rows(t) : t.ids[q] = t.ids[p]
      BY <3>1
    <3>3. \A q \in Rows(t) : t.ids[q] = t.ids[p] => q = p
      BY DEF TableInv, IdsDiffer
    <3> HIDE DEF map
    <3> QED BY <3>2, <3>3
  <2>3. \A id \in Automatic : map[id] # 0 => map[id] \in Rows(t) /\ t.ids[map[id]] = id
    <3> SUFFICES ASSUME NEW id \in Automatic, map[id] # 0
                 PROVE  map[id] \in Rows(t) /\ t.ids[map[id]] = id
      OBVIOUS
    <3>1. id \in DOMAIN t.idMap /\ t.idMap[id] = 0
      BY <1>0, <1>2, Fields DEF TableInv, Dense
    <3>2. \E p \in Rows(t) : t.ids[p] = id
      BY <3>1
    <3>3. PICK p \in Rows(t) : t.ids[p] = id
      BY <3>2
    <3>4. map[id] = p
      BY <2>2, <3>3
    <3> QED BY <3>3, <3>4
  <2>4. map \in [Automatic -> Nat]
    <3>1. Rows(t) \subseteq Nat
      <4>1. Rows(t) = 1 .. Len(t.ids) /\ Len(t.ids) \in Nat
        BY <1>0, Fields
      <4> QED BY <4>1
    <3>2. DOMAIN t.idMap = Automatic
      BY <1>0, Fields
    <3>3. \A id \in Automatic : map[id] \in Nat
      <4> HIDE DEF map
      <4> QED BY <2>3, <3>1
    <3> QED BY <3>2, <3>3
  <2> HIDE DEF map, u
  <2>5. /\ u = [exists |-> TRUE, columns |-> t.columns, ids |-> t.ids, data |-> t.data,
                idMap |-> map, nextId |-> t.nextId, sequential |-> FALSE]
    BY <1>0, <2>1 DEF IsTable
  <2>6. IsTable(u)
    BY <1>0, <2>4, <2>5 DEF IsTable, Width
  <2>7. Rows(u) = Rows(t)
    BY <2>5 DEF Rows
  <2>8. Exact(u)
    BY <2>2, <2>3, <2>5, <2>7 DEF Exact
  <2>9. IdsDiffer(u)
    BY <2>5, <2>7 DEF TableInv, IdsDiffer
  <2> QED BY <2>5, <2>6, <2>8, <2>9 DEF TableInv, Dense, u
<1> QED BY <1>1, <1>2

-----------------------------------------------------------------------------
(* One row more, one less, one column more *)

\* A row is appended: the others keep their cells.
LEMMA AppendInv ==
  ASSUME NEW t, TableInv(t), t.nextId < MaxIds,
         NEW cells, IsList(cells), Len(cells) = Width(t)
  PROVE  LET u == Append1(t, cells)
             n == Len(t.ids)
         IN  /\ TableInv(u) /\ u.columns = t.columns /\ u.nextId = t.nextId + 1
             /\ u.sequential = t.sequential
             /\ Len(u.ids) = n + 1 /\ u.ids[n + 1] = t.nextId
             /\ \A p \in 1 .. n : u.ids[p] = t.ids[p]
             /\ \A p \in 1 .. n, i \in 1 .. Width(t) : Cell(u, p, i) = Cell(t, p, i)
             /\ \A i \in 1 .. Width(t) : Cell(u, n + 1, i) = cells[i]
<1> DEFINE n == Len(t.ids)
           w == Width(t)
           m == n * w
           ids == Append(t.ids, t.nextId)
           data == t.data \o cells
           map == IF t.sequential THEN t.idMap ELSE [t.idMap EXCEPT ![t.nextId] = n + 1]
           u == Append1(t, cells)
<1>1. IsTable(t)
  BY DEF TableInv
<1>2. n \in Nat /\ w \in Nat /\ m \in Nat /\ MaxIds \in Nat
  BY <1>1, Fields
<1>3. t.nextId \in Automatic /\ t.nextId + 1 \in 0 .. MaxIds
  BY <1>1, <1>2 DEF IsTable, Automatic
<1>4. /\ ids \in Seq(Automatic) /\ Len(ids) = n + 1 /\ ids[n + 1] = t.nextId
      /\ \A p \in 1 .. n : ids[p] = t.ids[p]
  <2>1. t.ids \in Seq(Automatic)
    BY <1>1 DEF IsTable
  <2> QED BY <1>3, <2>1, AppendProperties
<1>5. IsList(data) /\ Len(data) = m + w
  <2>1. IsList(t.data) /\ Len(t.data) = m /\ Len(cells) = w
    BY <1>1 DEF IsTable
  <2> HIDE DEF n, w, m
  <2> QED BY <2>1, Joined
<1>6. \A k \in 1 .. m + w : data[k] = IF k <= m THEN t.data[k] ELSE cells[k - m]
  <2>1. IsList(t.data) /\ Len(t.data) = m /\ Len(cells) = w
    BY <1>1 DEF IsTable
  <2> HIDE DEF n, w, m
  <2> QED BY <2>1, Joined
<1>7. map \in [Automatic -> Nat]
  BY <1>1, <1>2, <1>3 DEF IsTable
<1>8. u = [t EXCEPT !.ids = ids, !.data = data, !.idMap = map, !.nextId = t.nextId + 1]
  BY <1>1 DEF IsTable, Append1
<1> HIDE DEF ids, data, map, u
<1>9. /\ u.ids = ids /\ u.data = data /\ u.idMap = map /\ u.nextId = t.nextId + 1
      /\ u.columns = t.columns /\ u.sequential = t.sequential /\ u.exists = TRUE
  BY <1>1, <1>8 DEF IsTable
<1>10. Width(u) = w /\ Rows(u) = 1 .. n + 1 /\ (n + 1) * w = m + w
  <2>1. Width(u) = w /\ Rows(u) = 1 .. n + 1
    BY <1>4, <1>9 DEF Width, Rows
  <2>2. (n + 1) * w = n * w + w
    <3> HIDE DEF n, w
    <3> QED BY <1>2, OneMore
  <2> QED BY <2>1, <2>2
<1>11. IsTable(u)
  <2>1. u \in [exists : {TRUE}, columns : Seq(Columns), ids : Seq(Automatic), data : {u.data},
               idMap : [Automatic -> Nat], nextId : 0 .. MaxIds, sequential : BOOLEAN]
    BY <1>1, <1>3, <1>4, <1>7, <1>8 DEF IsTable
  <2>2. IsList(u.data) /\ Len(u.data) = Len(u.ids) * Width(u)
    BY <1>4, <1>5, <1>9, <1>10
  <2> QED BY <2>1, <2>2 DEF IsTable
<1>12. \A p \in Rows(t) : t.ids[p] < t.nextId /\ t.ids[p] \in Automatic
  BY <1>1, Fields DEF TableInv, IdsDiffer
<1>13. Rows(t) = 1 .. n
  BY DEF Rows
<1>14. IdsDiffer(u)
  <2>1. \A p \in Rows(u) : u.ids[p] < u.nextId
    <3> SUFFICES ASSUME NEW p \in Rows(u)
                 PROVE  ids[p] < t.nextId + 1
      BY <1>9
    <3>1. CASE p \in 1 .. n
      <4>1. ids[p] = t.ids[p] /\ t.ids[p] < t.nextId /\ t.ids[p] \in Nat /\ t.nextId \in Nat
        BY <1>3, <1>4, <1>12, <1>13, <3>1 DEF Automatic
      <4> QED BY <4>1
    <3>2. CASE p = n + 1
      BY <1>3, <1>4, <3>2 DEF Automatic
    <3> QED BY <1>2, <1>10, <3>1, <3>2
  <2>2. ASSUME NEW p \in Rows(u), NEW q \in Rows(u), u.ids[p] = u.ids[q]
        PROVE  p = q
    <3> HIDE DEF n, w, m, ids, data, map, u
    <3>1. CASE p \in 1 .. n /\ q \in 1 .. n
      BY <1>4, <1>9, <1>13, <2>2, <3>1 DEF TableInv, IdsDiffer
    <3>2. CASE p = n + 1 \/ q = n + 1
      <4>1. ASSUME NEW r \in 1 .. n
            PROVE  ids[r] # t.nextId
        <5>1. ids[r] = t.ids[r] /\ t.ids[r] < t.nextId
          BY <1>4, <1>12, <1>13
        <5>2. t.ids[r] \in Nat /\ t.nextId \in Nat
          BY <1>3, <1>12, <1>13 DEF Automatic
        <5> QED BY <5>1, <5>2
      <4>2. p \in 1 .. n \/ p = n + 1
        BY <1>2, <1>10
      <4>3. q \in 1 .. n \/ q = n + 1
        BY <1>2, <1>10
      <4>4. ids[n + 1] = t.nextId /\ ids[p] = ids[q]
        BY <1>4, <1>9, <2>2
      <4> QED BY <3>2, <4>1, <4>2, <4>3, <4>4
    <3>3. p \in 1 .. n \/ p = n + 1
      BY <1>2, <1>10
    <3>4. q \in 1 .. n \/ q = n + 1
      BY <1>2, <1>10
    <3> QED BY <3>1, <3>2, <3>3, <3>4
  <2> QED BY <2>1, <2>2 DEF IdsDiffer
<1>15. Dense(u)
  <2> SUFFICES ASSUME u.sequential  PROVE Dense(u)
    BY DEF Dense
  <2>1. /\ t.nextId = n /\ (\A p \in 1 .. n : t.ids[p] = p - 1)
        /\ \A id \in Automatic : t.idMap[id] = 0
    BY <1>9, <1>13 DEF TableInv, Dense
  <2>2. map = t.idMap
    BY <1>9 DEF map
  <2>3. ASSUME NEW p \in Rows(u)
        PROVE  ids[p] = p - 1
    <3>1. CASE p \in 1 .. n
      BY <1>4, <2>1, <3>1
    <3>2. CASE p = n + 1
      BY <1>2, <1>4, <2>1, <3>2
    <3> QED BY <1>2, <1>10, <3>1, <3>2
  <2> QED BY <1>4, <1>9, <2>1, <2>2, <2>3 DEF Dense
<1>16. Exact(u)
  <2> SUFFICES ASSUME ~u.sequential  PROVE Exact(u)
    BY DEF Exact
  <2>1. /\ \A p \in 1 .. n : t.idMap[t.ids[p]] = p
        /\ \A id \in Automatic : t.idMap[id] # 0 =>
             t.idMap[id] \in 1 .. n /\ t.ids[t.idMap[id]] = id
    BY <1>9, <1>13 DEF TableInv, Exact
  <2>2. /\ \A id \in Automatic : map[id] = IF id = t.nextId THEN n + 1 ELSE t.idMap[id]
    BY <1>1, <1>3, <1>9 DEF map, IsTable
  <2>3. ASSUME NEW p \in Rows(u)
        PROVE  map[ids[p]] = p
    <3>1. CASE p \in 1 .. n
      <4>1. ids[p] \in Automatic /\ ids[p] # t.nextId
        BY <1>3, <1>4, <1>12, <1>13, <3>1 DEF Automatic
      <4> QED BY <1>4, <2>1, <2>2, <3>1, <4>1
    <3>2. CASE p = n + 1
      BY <1>3, <1>4, <2>2, <3>2
    <3> QED BY <1>2, <1>10, <3>1, <3>2
  <2>4. ASSUME NEW id \in Automatic, map[id] # 0
        PROVE  map[id] \in Rows(u) /\ ids[map[id]] = id
    <3>1. CASE id = t.nextId
      <4>1. map[id] = n + 1
        BY <2>2, <3>1
      <4>2. n + 1 \in Rows(u) /\ ids[n + 1] = t.nextId
        BY <1>2, <1>4, <1>10
      <4> QED BY <3>1, <4>1, <4>2
    <3>2. CASE id # t.nextId
      <4>1. map[id] \in 1 .. n /\ t.ids[map[id]] = id
        BY <2>1, <2>2, <2>4, <3>2
      <4> QED BY <1>2, <1>4, <1>10, <4>1
    <3> QED BY <3>1, <3>2
  <2> QED BY <1>9, <2>3, <2>4 DEF Exact
<1>17. \A p \in 1 .. n, i \in 1 .. w : Cell(u, p, i) = Cell(t, p, i)
  <2> SUFFICES ASSUME NEW p \in 1 .. n, NEW i \in 1 .. w
               PROVE  Cell(u, p, i) = Cell(t, p, i)
    OBVIOUS
  <2> DEFINE k == (p - 1) * w + i
  <2>1. k \in 1 .. m
    <3> HIDE DEF n, w
    <3> QED BY <1>2, Within
  <2>2. Cell(u, p, i) = data[k] /\ Cell(t, p, i) = t.data[k]
    BY <1>9, <1>10 DEF Cell
  <2> HIDE DEF k, n, w, m
  <2>3. data[k] = t.data[k]
    BY <1>2, <1>6, <2>1
  <2> QED BY <2>2, <2>3
<1>18. \A i \in 1 .. w : Cell(u, n + 1, i) = cells[i]
  <2> SUFFICES ASSUME NEW i \in 1 .. w
               PROVE  Cell(u, n + 1, i) = cells[i]
    OBVIOUS
  <2>1. Cell(u, n + 1, i) = data[(n + 1 - 1) * w + i]
    BY <1>9, <1>10 DEF Cell
  <2>2. (n + 1 - 1) * w + i = m + i
    BY <1>2
  <2> HIDE DEF n, w, m
  <2>3. m + i \in 1 .. m + w /\ ~(m + i <= m) /\ m + i - m = i
    BY <1>2
  <2>4. data[m + i] = cells[i]
    BY <1>2, <1>6, <2>3
  <2> QED BY <2>1, <2>2, <2>4
<1> QED BY <1>4, <1>9, <1>10, <1>11, <1>14, <1>15, <1>16, <1>17, <1>18 DEF TableInv, u

\* Cells of one row are overwritten: all others stay.
LEMMA OverwriteCells ==
  ASSUME NEW t, IsTable(t), NEW p \in Rows(t), NEW i \in Nat \ {0},
         NEW c \in Nat, NEW cells, DOMAIN cells = 1 .. c, i + c <= Width(t) + 1
  PROVE  LET d == Overwritten(t, p, i, cells)
         IN  /\ IsList(d) /\ Len(d) = Len(t.data)
             /\ \A q \in Rows(t), j \in 1 .. Width(t) :
                  d[(q - 1) * Width(t) + j] =
                    IF q = p /\ j \in i .. i + c - 1 THEN cells[j - i + 1] ELSE Cell(t, q, j)
<1> DEFINE n == Len(t.ids)
           w == Width(t)
           m == n * w
           a == (p - 1) * w
           at == a + i - 1
           New(k) == IF k - at \in DOMAIN cells THEN cells[k - at] ELSE t.data[k]
           d == Overwritten(t, p, i, cells)
           S == {New(k) : k \in 1 .. m}
<1>1. n \in Nat /\ w \in Nat /\ m \in Nat /\ Rows(t) = 1 .. n /\ DOMAIN t.data = 1 .. m
  BY Fields
<1>2. Len(t.data) = m /\ a \in Int /\ at \in Int
  <2>1. Len(t.data) = m
    BY DEF IsTable
  <2>2. p - 1 \in Int
    BY <1>1
  <2> HIDE DEF w, n, m
  <2> QED BY <1>1, <2>1, <2>2, Scaled
<1>3. d = [k \in 1 .. m |-> New(k)]
  BY <1>1 DEF Overwritten
<1>4. d \in [1 .. m -> S]
  <2> HIDE DEF New, d, m
  <2> QED BY <1>3
<1>5. IsList(d) /\ Len(d) = m
  <2> HIDE DEF S, d, m
  <2> QED BY <1>1, <1>4, Listed
<1>6. ASSUME NEW q \in Rows(t), NEW j \in 1 .. w
      PROVE  d[(q - 1) * w + j] =
               IF q = p /\ j \in i .. i + c - 1 THEN cells[j - i + 1] ELSE Cell(t, q, j)
  <2> DEFINE k == (q - 1) * w + j
  <2>1. k \in 1 .. m
    <3> HIDE DEF n, w
    <3> QED BY <1>1, Within
  <2>2. d[k] = New(k) /\ Cell(t, q, j) = t.data[k]
    <3>1. Cell(t, q, j) = t.data[k]
      BY DEF Cell
    <3> HIDE DEF New, d, m, k
    <3> QED BY <1>3, <2>1, <3>1
  <2>3. CASE q = p
    <3>1. k = a + j
      BY <2>3
    <3> HIDE DEF k, a, w
    <3>2. k - at = j - i + 1
      BY <1>2, <3>1
    <3>3. j - i + 1 \in 1 .. c <=> j \in i .. i + c - 1
      BY <1>1
    <3> HIDE DEF at
    <3>4. New(k) = IF j - i + 1 \in 1 .. c THEN cells[j - i + 1] ELSE t.data[k]
      BY <3>2
    <3> HIDE DEF New
    <3> QED BY <2>2, <2>3, <3>3, <3>4 DEF k
  <2>4. CASE q # p
    <3>1. ASSUME k - at \in 1 .. c  PROVE FALSE
      <4> DEFINE x == k - at
                 y == i + x - 1
      <4>1. y \in 1 .. w
        <5>1. i + c <= w + 1
          OBVIOUS
        <5> HIDE DEF k, at, w
        <5>2. x \in 1 .. c
          BY <3>1
        <5> HIDE DEF x
        <5> QED BY <1>1, <5>1, <5>2
      <4>2. k = a + y
        <5>1. k \in Int
          BY <2>1, <1>1
        <5> HIDE DEF k, a
        <5> QED BY <1>2, <5>1
      <4>3. p \in Nat /\ q \in Nat
        BY <1>1
      <4>4. (q - 1) * w + j = (p - 1) * w + y
        BY <4>2
      <4> HIDE DEF w, y
      <4> QED BY <1>1, <2>4, <4>1, <4>3, <4>4, Apart
    <3> HIDE DEF k, at
    <3>2. New(k) = t.data[k]
      BY <3>1
    <3> HIDE DEF New
    <3> QED BY <2>2, <2>4, <3>2 DEF k
  <2> QED BY <2>3, <2>4
<1> HIDE DEF d
<1> QED BY <1>2, <1>5, <1>6 DEF d

\* u is t with c cells of row p, from column i on, replaced by cells.
Overwrites(t, u, p, i, c, cells) ==
  /\ p \in Rows(t) /\ i \in Nat \ {0} /\ c \in Nat
  /\ DOMAIN cells = 1 .. c /\ i + c <= Width(t) + 1
  /\ u = [t EXCEPT !.data = Overwritten(t, p, i, cells)]

\* What cell j of row q is then.
AfterOverwrite(t, p, i, c, cells, q, j) ==
  IF q = p /\ j \in i .. i + c - 1 THEN cells[j - i + 1] ELSE Cell(t, q, j)

\* Some neighbouring cells of one row are overwritten, and no other.
LEMMA OverwriteInv ==
  ASSUME NEW t, TableInv(t), NEW u, NEW p, NEW i, NEW c, NEW cells,
         Overwrites(t, u, p, i, c, cells)
  PROVE  /\ TableInv(u)
         /\ u.columns = t.columns /\ u.ids = t.ids /\ u.idMap = t.idMap
         /\ u.nextId = t.nextId /\ u.sequential = t.sequential
         /\ \A q \in Rows(t), j \in 1 .. Width(t) :
              Cell(u, q, j) = AfterOverwrite(t, p, i, c, cells, q, j)
<1> DEFINE d == Overwritten(t, p, i, cells)
<1>1. IsTable(t)
  BY DEF TableInv
<1>2. /\ IsList(d) /\ Len(d) = Len(t.data)
      /\ \A q \in Rows(t), j \in 1 .. Width(t) :
           d[(q - 1) * Width(t) + j] =
             IF q = p /\ j \in i .. i + c - 1 THEN cells[j - i + 1] ELSE Cell(t, q, j)
  BY <1>1, OverwriteCells DEF Overwrites
<1>3. u = [t EXCEPT !.data = d]
  BY DEF Overwrites
<1> HIDE DEF d
<1>4. /\ u.columns = t.columns /\ u.ids = t.ids /\ u.idMap = t.idMap
      /\ u.nextId = t.nextId /\ u.sequential = t.sequential /\ u.data = d
  BY <1>3, <1>1 DEF IsTable
<1>5. Width(u) = Width(t) /\ Rows(u) = Rows(t)
  BY <1>4 DEF Width, Rows
<1>6. IsTable(u)
  <2>1. u \in [exists : {TRUE}, columns : Seq(Columns), ids : Seq(Automatic), data : {u.data},
               idMap : [Automatic -> Nat], nextId : 0 .. MaxIds, sequential : BOOLEAN]
    BY <1>3, <1>1 DEF IsTable
  <2>2. Len(t.data) = Len(t.ids) * Width(t)
    BY <1>1 DEF IsTable
  <2> QED BY <1>2, <1>4, <1>5, <2>1, <2>2 DEF IsTable
<1>7. TableInv(u)
  BY <1>4, <1>5, <1>6 DEF TableInv, IdsDiffer, Dense, Exact
<1>8. \A q \in Rows(t), j \in 1 .. Width(t) : Cell(u, q, j) = d[(q - 1) * Width(t) + j]
  BY <1>4, <1>5 DEF Cell
<1> QED BY <1>2, <1>4, <1>7, <1>8 DEF AfterOverwrite

\* delete: the last row takes the place of the one that goes, with its cells.
LEMMA DeleteInv ==
  ASSUME NEW t, TableInv(t), NEW id, Get(t, id) # 0
  PROVE  LET u == Delete(t, id)
             p == Get(t, id)
             last == Len(t.ids)
             From(q) == IF q = p THEN last ELSE q
         IN  /\ TableInv(u) /\ u.columns = t.columns /\ u.nextId = t.nextId /\ ~u.sequential
             /\ p \in 1 .. last /\ t.ids[p] = id
             /\ Len(u.ids) = last - 1
             /\ \A q \in 1 .. last - 1 : u.ids[q] = t.ids[From(q)]
             /\ \A q \in 1 .. last - 1, j \in 1 .. Width(t) :
                  Cell(u, q, j) = Cell(t, From(q), j)
<1> DEFINE n == Len(t.ids)
           w == Width(t)
           m == (n - 1) * w
           p == Get(t, id)
           From(q) == IF q = p THEN n ELSE q
           v == LeaveSequential(t)
           block == SubSeq(t.data, m + 1, n * w)
           over == Overwritten(t, p, 1, block)
           moved == [t.ids EXCEPT ![p] = t.ids[n]]
           ids == SubSeq(moved, 1, n - 1)
           data == SubSeq(over, 1, m)
           unmapped == [v.idMap EXCEPT ![id] = 0]
           map == IF p < n THEN [unmapped EXCEPT ![t.ids[n]] = p] ELSE unmapped
           u == Delete(t, id)
<1>1. IsTable(t)
  BY DEF TableInv
<1>2. n \in Nat /\ w \in Nat /\ MaxIds \in Nat /\ Rows(t) = 1 .. n
  BY <1>1, Fields
<1>3. p \in 1 .. n /\ t.ids[p] = id /\ id \in Automatic
  BY <1>2, GetFinds
<1>4. m \in Nat /\ n * w = m + w /\ n - 1 \in Nat
  <2>1. n - 1 \in Nat
    BY <1>2, <1>3
  <2>2. (n - 1) * w \in Nat
    <3> HIDE DEF n, w
    <3> QED BY <1>2, <2>1, Product
  <2>3. (n - 1) * w = n * w - w /\ n * w \in Nat
    <3> HIDE DEF n, w
    <3> QED BY <1>2, OneMore, Product
  <2> QED BY <1>2, <2>1, <2>2, <2>3
<1>5. IsList(t.data) /\ Len(t.data) = m + w
  BY <1>1, <1>4 DEF IsTable
<1>6. /\ DOMAIN block = 1 .. w
      /\ \A j \in 1 .. w : block[j] = t.data[m + j]
  <2>1. block = SubSeq(t.data, m + 1, m + w)
    BY <1>4
  <2> HIDE DEF block, m, w, n
  <2>2. m + 1 \in 1 .. Len(t.data) + 1 /\ m + w \in m + 1 - 1 .. Len(t.data)
        /\ m + w - (m + 1) + 1 = w
    BY <1>2, <1>4, <1>5
  <2>3. /\ IsList(block) /\ Len(block) = w
        /\ \A j \in 1 .. w : block[j] = t.data[m + 1 + j - 1]
    <3> DEFINE a == m + 1
               b == m + w
               f == t.data
    <3>1. IsList(f) /\ a \in 1 .. Len(f) + 1 /\ b \in a - 1 .. Len(f)
      BY <1>5, <2>2
    <3>2. block = SubSeq(f, a, b)
      BY <2>1
    <3>3. b - a + 1 = w
      BY <2>2, <1>2, <1>4
    <3> HIDE DEF a, b, f
    <3>4. /\ IsList(block) /\ Len(block) = b - a + 1
          /\ \A j \in 1 .. b - a + 1 : block[j] = f[a + j - 1]
      BY <3>1, <3>2, Cut
    <3> QED BY <3>3, <3>4 DEF a, f
  <2>4. DOMAIN block = 1 .. w
    BY <2>3, LenProperties DEF IsList
  <2>5. \A j \in 1 .. w : m + 1 + j - 1 = m + j
    BY <1>2, <1>4
  <2> QED BY <2>3, <2>4, <2>5
<1>7. /\ IsList(over) /\ Len(over) = m + w
      /\ \A q \in Rows(t), j \in 1 .. w :
           over[(q - 1) * w + j] = IF q = p THEN block[j] ELSE Cell(t, q, j)
  <2> HIDE DEF block, m, n, p
  <2>1. /\ 1 \in Nat \ {0} /\ 1 + w <= Width(t) + 1 /\ p \in Rows(t) /\ DOMAIN block = 1 .. w
    BY <1>2, <1>3, <1>6
  <2>2. /\ IsList(over) /\ Len(over) = Len(t.data)
        /\ \A q \in Rows(t), j \in 1 .. Width(t) :
             over[(q - 1) * Width(t) + j] =
               IF q = p /\ j \in 1 .. 1 + w - 1 THEN block[j - 1 + 1] ELSE Cell(t, q, j)
    <3> DEFINE i == 1
    <3>1. i \in Nat \ {0} /\ w \in Nat /\ i + w <= Width(t) + 1
      BY <1>2, <2>1
    <3>2. over = Overwritten(t, p, i, block)
      OBVIOUS
    <3> HIDE DEF over, w, i
    <3>3. /\ IsList(over) /\ Len(over) = Len(t.data)
          /\ \A q \in Rows(t), j \in 1 .. Width(t) :
               over[(q - 1) * Width(t) + j] =
                 IF q = p /\ j \in i .. i + w - 1 THEN block[j - i + 1] ELSE Cell(t, q, j)
      BY <1>1, <2>1, <3>1, <3>2, OverwriteCells
    <3> QED BY <3>3 DEF i
  <2>3. \A j \in 1 .. w : j \in 1 .. 1 + w - 1 /\ j - 1 + 1 = j
    BY <1>2
  <2> HIDE DEF over
  <2> QED BY <1>5, <2>2, <2>3
<1>8. /\ IsList(data) /\ Len(data) = m
      /\ \A k \in 1 .. m : data[k] = over[k]
  <2> HIDE DEF over, m, n, w
  <2>1. 1 \in 1 .. Len(over) + 1 /\ m \in 1 - 1 .. Len(over) /\ m - 1 + 1 = m
    BY <1>2, <1>4, <1>7
  <2>2. /\ IsList(data) /\ Len(data) = m - 1 + 1
        /\ \A k \in 1 .. m - 1 + 1 : data[k] = over[1 + k - 1]
    BY <1>7, <2>1, Cut
  <2>3. \A k \in 1 .. m : 1 + k - 1 = k
    BY <1>4
  <2> HIDE DEF data
  <2> QED BY <2>1, <2>2, <2>3
<1>9. ASSUME NEW q \in 1 .. n - 1, NEW j \in 1 .. w
      PROVE  data[(q - 1) * w + j] = Cell(t, From(q), j)
  <2> DEFINE k == (q - 1) * w + j
  <2>1. k \in 1 .. m
    <3> HIDE DEF n, w
    <3> QED BY <1>2, <1>4, Within
  <2>2. data[k] = IF q = p THEN block[j] ELSE Cell(t, q, j)
    <3>1. q \in Rows(t)
      BY <1>2
    <3> HIDE DEF data, over, m, n, p, w, block
    <3> QED BY <1>7, <1>8, <2>1, <3>1
  <2>3. block[j] = Cell(t, n, j)
    BY <1>6 DEF Cell
  <2> QED BY <2>2, <2>3
<1>10. /\ ids \in Seq(Automatic) /\ Len(ids) = n - 1
       /\ \A q \in 1 .. n - 1 : ids[q] = t.ids[From(q)]
  <2>1. t.ids \in Seq(Automatic) /\ t.ids[n] \in Automatic
    BY <1>1, <1>2, <1>3, Fields DEF IsTable
  <2>2. /\ moved \in Seq(Automatic) /\ Len(moved) = n
        /\ \A q \in 1 .. n : moved[q] = IF q = p THEN t.ids[n] ELSE t.ids[q]
    <3> HIDE DEF p
    <3> QED BY <1>3, <2>1, ExceptSeq
  <2> HIDE DEF moved, n, p
  <2>3. \A i \in 1 .. n - 1 : moved[i] \in Automatic
    BY <1>2, <2>2, ElementOfSeq
  <2>4. 1 \in Int /\ n - 1 \in Int /\ (IF 1 <= n - 1 THEN n - 1 - 1 + 1 ELSE 0) = n - 1
        /\ n - 1 - 1 + 1 = n - 1
    BY <1>4
  <2>5. /\ ids \in Seq(Automatic) /\ Len(ids) = n - 1
        /\ \A q \in 1 .. n - 1 : ids[q] = moved[1 + q - 1]
    BY <2>3, <2>4, SubSeqProperties
  <2>6. \A q \in 1 .. n - 1 : 1 + q - 1 = q /\ q \in 1 .. n
    BY <1>2
  <2> HIDE DEF ids
  <2> QED BY <2>2, <2>5, <2>6
<1>11. /\ TableInv(v) /\ ~v.sequential
       /\ v.columns = t.columns /\ v.ids = t.ids /\ v.data = t.data /\ v.nextId = t.nextId
  BY LeaveInv
<1>12. u = [v EXCEPT !.ids = ids, !.data = data, !.idMap = map]
  BY <1>11 DEF Delete, TableInv, IsTable
<1> HIDE DEF v, block, over, moved, ids, data, unmapped
<1>13. IsTable(v) /\ v.idMap \in [Automatic -> Nat] /\ Rows(v) = 1 .. n
  BY <1>11 DEF TableInv, IsTable, Rows
<1>14. t.ids[n] \in Automatic
  <2>1. n \in Rows(t)
    BY <1>2, <1>3
  <2> QED BY <1>1, <2>1, Fields
<1>15. /\ map \in [Automatic -> Nat]
       /\ \A x \in Automatic : map[x] =
            IF p < n /\ x = t.ids[n] THEN p ELSE IF x = id THEN 0 ELSE v.idMap[x]
  <2>1. /\ unmapped \in [Automatic -> Nat]
        /\ \A x \in Automatic : unmapped[x] = IF x = id THEN 0 ELSE v.idMap[x]
    BY <1>3, <1>13 DEF unmapped
  <2>2. p \in Nat
    BY <1>2, <1>3
  <2> HIDE DEF p, n
  <2> QED BY <1>14, <2>1, <2>2
<1> HIDE DEF map, u
<1>16. /\ u.ids = ids /\ u.data = data /\ u.idMap = map /\ u.nextId = t.nextId
       /\ u.columns = t.columns /\ ~u.sequential
  BY <1>11, <1>12, <1>13 DEF IsTable
<1>17. Width(u) = w /\ Rows(u) = 1 .. n - 1
  BY <1>10, <1>16 DEF Width, Rows
<1>18. IsTable(u)
  <2>1. u \in [exists : {TRUE}, columns : Seq(Columns), ids : Seq(Automatic), data : {u.data},
               idMap : [Automatic -> Nat], nextId : 0 .. MaxIds, sequential : BOOLEAN]
    BY <1>10, <1>12, <1>13, <1>15 DEF IsTable
  <2>2. IsList(u.data) /\ Len(u.data) = Len(u.ids) * Width(u)
    BY <1>8, <1>10, <1>16, <1>17
  <2> QED BY <2>1, <2>2 DEF IsTable
<1>19. \A q, r \in 1 .. n : t.ids[q] = t.ids[r] => q = r
  BY <1>2 DEF TableInv, IdsDiffer
<1>20. \A q \in 1 .. n - 1 : From(q) \in 1 .. n /\ From(q) # p
  <2> HIDE DEF p, n
  <2> QED BY <1>2, <1>3
<1>21. IdsDiffer(u)
  <2>1. \A q \in 1 .. n : t.ids[q] < t.nextId
    BY <1>2 DEF TableInv, IdsDiffer
  <2>2. \A q, r \in 1 .. n - 1 : From(q) = From(r) => q = r
    <3> HIDE DEF p, n
    <3> QED BY <1>2, <1>3
  <2> HIDE DEF From, p, n
  <2> QED BY <1>10, <1>16, <1>17, <1>19, <1>20, <2>1, <2>2 DEF IdsDiffer
<1>22. Exact(u)
  <2>1. /\ \A q \in 1 .. n : v.idMap[t.ids[q]] = q
        /\ \A x \in Automatic : v.idMap[x] # 0 => v.idMap[x] \in 1 .. n /\ t.ids[v.idMap[x]] = x
    BY <1>11, <1>13 DEF TableInv, Exact
  <2>2. ASSUME NEW q \in 1 .. n - 1
        PROVE  map[ids[q]] = q
    <3>1. ids[q] = t.ids[From(q)] /\ ids[q] # id /\ ids[q] \in Automatic
      <4>1. ids[q] = t.ids[From(q)]
        BY <1>10
      <4>2. t.ids[From(q)] # t.ids[p]
        <5> HIDE DEF From, p, n
        <5> QED BY <1>3, <1>19, <1>20
      <4>3. ids[q] \in Automatic
        <5> HIDE DEF n
        <5> QED BY <1>10, ElementOfSeq
      <4> QED BY <1>3, <4>1, <4>2, <4>3
    <3>2. CASE q = p
      <4> HIDE DEF p, n
      <4> QED BY <1>2, <1>15, <3>1, <3>2
    <3>3. CASE q # p
      <4>1. ids[q] = t.ids[q] /\ q \in 1 .. n /\ n \in 1 .. n /\ q # n
        <5> HIDE DEF p, n
        <5> QED BY <1>2, <1>3, <3>1, <3>3
      <4>2. ids[q] # t.ids[n]
        <5> HIDE DEF n
        <5> QED BY <1>19, <4>1
      <4> HIDE DEF p, n
      <4> QED BY <1>15, <2>1, <3>1, <4>1, <4>2
    <3> QED BY <3>2, <3>3
  <2>3. ASSUME NEW x \in Automatic, map[x] # 0
        PROVE  map[x] \in 1 .. n - 1 /\ ids[map[x]] = x
    <3>1. CASE p < n /\ x = t.ids[n]
      <4>1. From(p) = n
        OBVIOUS
      <4> HIDE DEF p, n, From
      <4>2. map[x] = p
        BY <1>15, <3>1
      <4>3. p \in 1 .. n - 1
        BY <1>2, <1>3, <3>1
      <4>4. ids[p] = t.ids[n]
        BY <1>10, <4>1, <4>3
      <4> QED BY <3>1, <4>2, <4>3, <4>4
    <3>2. CASE ~(p < n /\ x = t.ids[n])
      <4>1. x # id /\ map[x] = v.idMap[x] /\ v.idMap[x] \in 1 .. n /\ t.ids[v.idMap[x]] = x
        <5> HIDE DEF p, n
        <5> QED BY <1>15, <2>1, <2>3, <3>2
      <4>2. v.idMap[x] # p /\ v.idMap[x] # n
        <5> HIDE DEF p, n
        <5> QED BY <1>2, <1>3, <3>2, <4>1
      <4>3. v.idMap[x] \in 1 .. n - 1 /\ From(v.idMap[x]) = v.idMap[x]
        <5> HIDE DEF n, p
        <5> QED BY <1>2, <4>1, <4>2
      <4> HIDE DEF From, n, p
      <4> QED BY <1>10, <4>1, <4>3
    <3> QED BY <3>1, <3>2
  <2> QED BY <1>10, <1>16, <1>17, <2>2, <2>3 DEF Exact
<1>23. TableInv(u)
  BY <1>16, <1>18, <1>21, <1>22 DEF TableInv, Dense
<1>24. \A q \in 1 .. n - 1, j \in 1 .. w : Cell(u, q, j) = Cell(t, From(q), j)
  <2> SUFFICES ASSUME NEW q \in 1 .. n - 1, NEW j \in 1 .. w
               PROVE  Cell(u, q, j) = Cell(t, From(q), j)
    OBVIOUS
  <2>1. Cell(u, q, j) = data[(q - 1) * w + j]
    BY <1>16, <1>17 DEF Cell
  <2> QED BY <1>9, <2>1
<1> QED BY <1>3, <1>10, <1>16, <1>23, <1>24 DEF u

\* ALTER TABLE: every row keeps its cells and gets one without a value.
LEMMA WithColumnInv ==
  ASSUME NEW t, TableInv(t), NEW column \in Columns
  PROVE  LET u == WithColumn(t, column)
             w == Width(t)
         IN  /\ TableInv(u) /\ u.ids = t.ids /\ u.nextId = t.nextId /\ ~u.sequential
             /\ u.columns = Append(t.columns, column)
             /\ Width(u) = w + 1
             /\ \A p \in Rows(t), i \in 1 .. w + 1 :
                  Cell(u, p, i) = IF i = w + 1 THEN Null ELSE Cell(t, p, i)
<1> DEFINE n == Len(t.ids)
           w == Width(t)
           x == w + 1
           m == n * x
           Copied(k) == IF k % x = 0 THEN Null ELSE t.data[(k \div x) * w + (k % x)]
           data == [k \in 1 .. m |-> Copied(k)]
           v == LeaveSequential(t)
           u == WithColumn(t, column)
           S == {Copied(k) : k \in 1 .. m}
<1>1. IsTable(t)
  BY DEF TableInv
<1>2. n \in Nat /\ w \in Nat /\ Rows(t) = 1 .. n
  BY <1>1, Fields
<1>3. x \in Nat \ {0} /\ m \in Nat
  <2>1. x \in Nat \ {0}
    BY <1>2
  <2> HIDE DEF n, x
  <2> QED BY <1>2, <2>1, Product
<1>4. IsList(data) /\ Len(data) = m
  <2>1. data \in [1 .. m -> S]
    <3> HIDE DEF Copied, m
    <3> QED OBVIOUS
  <2> HIDE DEF data, m, S
  <2> QED BY <1>3, <2>1, Listed
<1>5. /\ TableInv(v) /\ ~v.sequential
      /\ v.columns = t.columns /\ v.ids = t.ids /\ v.data = t.data /\ v.nextId = t.nextId
  BY LeaveInv
<1>6. u = [v EXCEPT !.columns = Append(t.columns, column), !.data = data]
  BY <1>5 DEF WithColumn, TableInv, IsTable
<1>7. ASSUME NEW p \in 1 .. n, NEW i \in 1 .. x
      PROVE  data[(p - 1) * x + i] = IF i = x THEN Null ELSE Cell(t, p, i)
  <2> DEFINE k == (p - 1) * x + i
  <2>1. k \in 1 .. m
    <3> HIDE DEF n, x
    <3> QED BY <1>2, <1>3, Within
  <2>2. data[k] = Copied(k)
    <3> HIDE DEF k, m, Copied
    <3> QED BY <2>1
  <2>3. CASE i = x
    <3>1. k = p * x + 0
      <4> HIDE DEF x, n
      <4>1. (p - 1) * x = p * x - x /\ p * x \in Int
        BY <1>2, <1>3, OneMore, Scaled
      <4> QED BY <1>3, <2>3, <4>1
    <3>2. k % x = 0
      <4>1. 0 \in 0 .. x - 1 /\ p \in Nat
        BY <1>2
      <4> HIDE DEF x, k
      <4> QED BY <1>3, <3>1, <4>1, Divided
    <3> HIDE DEF data, k, x
    <3> QED BY <2>2, <2>3, <3>2 DEF k
  <2>4. CASE i # x
    <3>1. i \in 0 .. x - 1 /\ i # 0 /\ p - 1 \in Nat
      BY <1>2, <2>4
    <3>2. k \div x = p - 1 /\ k % x = i
      <4> HIDE DEF x, n
      <4> QED BY <1>3, <3>1, Divided
    <3>3. Copied(k) = t.data[(p - 1) * w + i]
      <4> HIDE DEF k, x, w
      <4> QED BY <3>1, <3>2
    <3> HIDE DEF data, Copied
    <3> QED BY <2>2, <2>4, <3>3 DEF Cell
  <2> QED BY <2>3, <2>4
<1> HIDE DEF v, data, u, Copied
<1>8. t.columns \in Seq(Columns)
  BY <1>1 DEF IsTable
<1>9. Append(t.columns, column) \in Seq(Columns) /\ Len(Append(t.columns, column)) = x
  BY <1>8, AppendProperties DEF Width
<1>10. IsTable(v)
  BY <1>5 DEF TableInv
<1>11. /\ u.columns = Append(t.columns, column) /\ u.data = data /\ u.ids = t.ids
       /\ u.nextId = t.nextId /\ u.idMap = v.idMap /\ ~u.sequential
  BY <1>5, <1>6, <1>10 DEF IsTable
<1>12. Width(u) = x /\ Rows(u) = Rows(t) /\ Rows(v) = Rows(t)
  BY <1>5, <1>9, <1>11 DEF Width, Rows
<1>13. IsTable(u)
  <2>1. u \in [exists : {TRUE}, columns : Seq(Columns), ids : Seq(Automatic), data : {u.data},
               idMap : [Automatic -> Nat], nextId : 0 .. MaxIds, sequential : BOOLEAN]
    BY <1>6, <1>9, <1>10 DEF IsTable
  <2>2. IsList(u.data) /\ Len(u.data) = Len(u.ids) * Width(u)
    BY <1>4, <1>11, <1>12
  <2> QED BY <2>1, <2>2 DEF IsTable
<1>14. TableInv(u)
  BY <1>5, <1>11, <1>12, <1>13 DEF TableInv, IdsDiffer, Dense, Exact
<1>15. \A p \in Rows(t), i \in 1 .. x : Cell(u, p, i) = IF i = x THEN Null ELSE Cell(t, p, i)
  BY <1>2, <1>7, <1>11, <1>12 DEF Cell
<1> QED BY <1>11, <1>12, <1>14, <1>15 DEF u

-----------------------------------------------------------------------------
(* Columns found by name *)

\* column_map has the last column of a name.
LEMMA ColumnFound ==
  ASSUME NEW t, IsTable(t), NEW c
  PROVE  /\ c \in ColumnNames(t) => /\ ColumnIndex(t, c) \in 1 .. Width(t)
                                    /\ t.columns[ColumnIndex(t, c)].name = c
                                    /\ \A i \in 1 .. Width(t) :
                                         t.columns[i].name = c => i <= ColumnIndex(t, c)
         /\ c \notin ColumnNames(t) => ColumnIndex(t, c) = 0
<1> DEFINE I == {i \in 1 .. Len(t.columns) : t.columns[i].name = c}
<1>1. ColumnIndex(t, c) = IF I # {} THEN Max(I) ELSE 0
  BY DEF ColumnIndex, SelectLastInSeq
<1>2. c \in ColumnNames(t) <=> I # {}
  BY DEF ColumnNames, Width
<1>3. Width(t) \in Nat /\ I \subseteq 1 .. Width(t)
  BY Fields DEF Width
<1>4. CASE I # {}
  <2>1. Max(I) \in I /\ \A q \in I : q <= Max(I)
    <3> HIDE DEF I
    <3> QED BY <1>3, <1>4, MaxProperties
  <2>2. \A i \in 1 .. Width(t) : t.columns[i].name = c => i \in I
    BY DEF Width
  <2>3. t.columns[Max(I)].name = c /\ Max(I) \in 1 .. Width(t)
    BY <2>1 DEF Width
  <2> HIDE DEF I
  <2> QED BY <1>1, <1>2, <1>4, <2>1, <2>2, <2>3
<1>5. CASE I = {}
  BY <1>1, <1>2, <1>5
<1> QED BY <1>4, <1>5

\* A row that is converted has a cell for every column.
LEMMA ConvertedList ==
  ASSUME NEW t, IsTable(t), NEW map
  PROVE  /\ IsList(Converted(t, map)) /\ Len(Converted(t, map)) = Width(t)
         /\ DOMAIN Converted(t, map) = 1 .. Width(t)
<1> DEFINE w == Width(t)
           Given(i) == LET c == t.columns[i].name
                       IN  IF c \in DOMAIN map /\ ColumnIndex(t, c) = i THEN map[c] ELSE Null
           d == Converted(t, map)
           S == {Given(i) : i \in 1 .. w}
<1>1. w \in Nat
  BY Fields
<1>2. d = [i \in 1 .. w |-> Given(i)]
  BY DEF Converted
<1> HIDE DEF w, d, Given
<1>3. d \in [1 .. w -> S]
  BY <1>2
<1> HIDE DEF S
<1> QED BY <1>1, <1>3, Listed DEF d, w

\* Conversion and its test look at the columns alone.
LEMMA SameColumns ==
  ASSUME NEW t, NEW u, u.columns = t.columns
  PROVE  /\ Width(u) = Width(t) /\ ColumnNames(u) = ColumnNames(t)
         /\ \A c : ColumnIndex(u, c) = ColumnIndex(t, c)
         /\ \A map : /\ Converted(u, map) = Converted(t, map)
                     /\ Admitted(u, map) <=> Admitted(t, map)
<1>1. Width(u) = Width(t)
  BY DEF Width
<1>2. ColumnNames(u) = ColumnNames(t)
  BY <1>1 DEF ColumnNames
<1>3. \A c : ColumnIndex(u, c) = ColumnIndex(t, c)
  BY DEF ColumnIndex
<1>4. \A map : Converted(u, map) = Converted(t, map)
  BY <1>1, <1>3 DEF Converted
<1>5. \A map : Admitted(u, map) <=> Admitted(t, map)
  BY <1>1, <1>4 DEF Admitted
<1> QED BY <1>1, <1>2, <1>3, <1>4, <1>5

-----------------------------------------------------------------------------
(* Effects *)

\* What holds of the effect of a statement: IInv of the state it leads to.
EffectInv(e) ==
  /\ e \in [tables : {e.tables}, populated : SUBSET Names, answer : {"ok", "error"}]
  /\ TablesInv(e.tables)
  /\ \A n \in e.populated \ replaced : Exists(e, n) => ~e.tables[n].sequential

\* The tables of e, with t under the name n.
Holding(e, n, t) == [e.tables EXCEPT ![n] = t]

\* A table that exists satisfies the invariant.
LEMMA ExistingInv ==
  ASSUME NEW e, EffectInv(e), NEW n \in Names
  PROVE  /\ Exists(e, n) => TableInv(e.tables[n])
         /\ ~Exists(e, n) => e.tables[n] = NoTable
         /\ Exists(e, n) \in BOOLEAN
<1>1. e.tables[n] = NoTable \/ TableInv(e.tables[n])
  BY DEF EffectInv, TablesInv
<1>2. NoTable.exists = FALSE
  BY DEF NoTable
<1>3. TableInv(e.tables[n]) => e.tables[n].exists = TRUE
  BY Fields DEF TableInv
<1> QED BY <1>1, <1>2, <1>3 DEF Exists

\* A table is put under a name.
LEMMA PutInv ==
  ASSUME NEW e, EffectInv(e), NEW n \in Names, NEW t, t = NoTable \/ TableInv(t),
         n \in e.populated \ replaced /\ t # NoTable => ~t.sequential
  PROVE  /\ EffectInv(Put(e, n, t))
         /\ Put(e, n, t).tables = Holding(e, n, t) /\ Put(e, n, t).tables[n] = t
         /\ Put(e, n, t).populated = e.populated /\ Put(e, n, t).answer = "ok"
<1> DEFINE f == Put(e, n, t)
           ts == Holding(e, n, t)
<1>1. f.tables = ts /\ f.populated = e.populated /\ f.answer = "ok"
  BY DEF EffectInv, Put, Holding
<1>2. DOMAIN e.tables = Names
  BY DEF EffectInv, TablesInv
<1>3. /\ ts \in [Names -> Range(ts)] /\ ts[n] = t
      /\ \A o \in Names : o # n => ts[o] = e.tables[o]
  <2>1. ts = [o \in Names |-> IF o = n THEN t ELSE e.tables[o]]
    BY <1>2 DEF Holding
  <2> HIDE DEF ts
  <2> QED BY <2>1 DEF Range
<1>4. f \in [tables : {f.tables}, populated : SUBSET Names, answer : {"ok", "error"}]
  BY DEF EffectInv, Put
<1> HIDE DEF f, ts
<1>5. TablesInv(ts)
  BY <1>3 DEF EffectInv, TablesInv
<1>6. \A o \in f.populated \ replaced : Exists(f, o) => ~f.tables[o].sequential
  <2> SUFFICES ASSUME NEW o \in f.populated \ replaced, Exists(f, o)
               PROVE  ~f.tables[o].sequential
    OBVIOUS
  <2>1. o \in Names
    BY <1>1 DEF EffectInv
  <2>2. CASE o = n
    <3>1. t # NoTable
      BY <1>1, <1>3, <2>2 DEF Exists, NoTable
    <3> QED BY <1>1, <1>3, <2>2, <3>1
  <2>3. CASE o # n
    BY <1>1, <1>3, <2>1, <2>3 DEF EffectInv, Exists
  <2> QED BY <2>2, <2>3
<1> QED BY <1>1, <1>3, <1>4, <1>5, <1>6 DEF EffectInv, f, ts

\* A statement that is refused changes no table.
LEMMA RefuseInv ==
  ASSUME NEW e, EffectInv(e)
  PROVE  /\ EffectInv(Refuse(e))
         /\ Refuse(e).tables = e.tables /\ Refuse(e).populated = e.populated
         /\ Refuse(e).answer = "error"
<1> DEFINE f == Refuse(e)
<1>1. f.tables = e.tables /\ f.populated = e.populated /\ f.answer = "error"
  BY DEF EffectInv, Refuse
<1>2. f \in [tables : {f.tables}, populated : SUBSET Names, answer : {"ok", "error"}]
  BY DEF EffectInv, Refuse
<1> HIDE DEF f
<1> QED BY <1>1, <1>2 DEF EffectInv, Exists, f

\* Tables with the same rows, in the same places.
SameRows(t, u) ==
  u.columns = t.columns /\ u.ids = t.ids /\ u.data = t.data /\ u.nextId = t.nextId

\* populate_id_map_once keeps the rows, and afterwards the table's id_map can be
\* relied on unless it was replaced.
LEMMA PopulateInv ==
  ASSUME NEW e, EffectInv(e), NEW n \in Names, Exists(e, n)
  PROVE  LET d == PopulateOnce(e, n)
             t == d.tables[n]
         IN  /\ EffectInv(d) /\ d.answer = e.answer /\ d.tables = Holding(e, n, t)
             /\ TableInv(t) /\ SameRows(e.tables[n], t)
             /\ n \notin replaced => ~t.sequential
             /\ n \notin e.populated \/ ~e.tables[n].sequential => ~t.sequential
<1> DEFINE d == PopulateOnce(e, n)
           t == d.tables[n]
           o == e.tables[n]
           v == LeaveSequential(o)
<1>1. TableInv(o)
  BY ExistingInv
<1>2. CASE n \in e.populated
  <2>1. d = e
    BY <1>2 DEF PopulateOnce
  <2>2. e.tables = Holding(e, n, e.tables[n])
    BY DEF Holding, EffectInv, TablesInv
  <2>3. n \notin replaced => ~o.sequential
    BY <1>2 DEF EffectInv
  <2> QED BY <1>1, <1>2, <2>1, <2>2, <2>3 DEF SameRows
<1>3. CASE n \notin e.populated
  <2>1. d = [e EXCEPT !.populated = e.populated \cup {n}, !.tables = Holding(e, n, v)]
    BY <1>3 DEF PopulateOnce, Holding, EffectInv
  <2>2. TableInv(v) /\ ~v.sequential /\ SameRows(o, v)
    BY <1>1, LeaveInv DEF SameRows
  <2>3. DOMAIN e.tables = Names
    BY DEF EffectInv, TablesInv
  <2>4. /\ Holding(e, n, v) \in [Names -> Range(Holding(e, n, v))]
        /\ Holding(e, n, v)[n] = v
        /\ \A k \in Names : k # n => Holding(e, n, v)[k] = e.tables[k]
    <3> DEFINE ts == Holding(e, n, v)
    <3>1. ts = [k \in Names |-> IF k = n THEN v ELSE e.tables[k]]
      BY <2>3 DEF Holding
    <3> HIDE DEF ts
    <3>2. ts \in [Names -> Range(ts)] /\ ts[n] = v /\ \A k \in Names : k # n => ts[k] = e.tables[k]
      BY <3>1 DEF Range
    <3> QED BY <3>2 DEF ts
  <2> HIDE DEF v, d, o
  <2>5. d.tables = Holding(e, n, v) /\ d.populated = e.populated \cup {n} /\ d.answer = e.answer
    BY <2>1 DEF EffectInv
  <2>6. d \in [tables : {d.tables}, populated : SUBSET Names, answer : {"ok", "error"}]
    BY <2>1, <2>5 DEF EffectInv
  <2>7. TablesInv(d.tables)
    BY <2>2, <2>4, <2>5 DEF EffectInv, TablesInv
  <2>8. \A k \in d.populated \ replaced : Exists(d, k) => ~d.tables[k].sequential
    <3> SUFFICES ASSUME NEW k \in d.populated \ replaced, Exists(d, k)
                 PROVE  ~d.tables[k].sequential
      OBVIOUS
    <3>1. CASE k = n
      BY <2>2, <2>4, <2>5, <3>1
    <3>2. CASE k # n
      BY <2>4, <2>5, <3>2 DEF EffectInv, Exists
    <3> QED BY <3>1, <3>2
  <2>9. t = v
    BY <2>4, <2>5
  <2> QED BY <2>2, <2>5, <2>6, <2>7, <2>8, <2>9 DEF EffectInv, o, d
<1> QED BY <1>2, <1>3

\* All cells of one row are overwritten.
LEMMA OverwriteRow ==
  ASSUME NEW t, TableInv(t), NEW p \in Rows(t),
         NEW row, DOMAIN row = 1 .. Width(t),
         NEW u, u = [t EXCEPT !.data = Overwritten(t, p, 1, row)]
  PROVE  /\ TableInv(u)
         /\ u.columns = t.columns /\ u.ids = t.ids /\ u.idMap = t.idMap
         /\ u.nextId = t.nextId /\ u.sequential = t.sequential
         /\ \A q \in Rows(t), j \in 1 .. Width(t) :
              Cell(u, q, j) = IF q = p THEN row[j] ELSE Cell(t, q, j)
<1>1. Width(t) \in Nat
  BY Fields DEF TableInv
<1> DEFINE i == 1
           c == Width(t)
<1>2. Overwrites(t, u, p, i, c, row)
  BY <1>1 DEF Overwrites
<1>3. \A j \in 1 .. Width(t) : j \in i .. i + c - 1 /\ j - i + 1 = j
  BY <1>1
<1> HIDE DEF i, c
<1>4. /\ TableInv(u)
      /\ u.columns = t.columns /\ u.ids = t.ids /\ u.idMap = t.idMap
      /\ u.nextId = t.nextId /\ u.sequential = t.sequential
  BY <1>2, OverwriteInv
<1>5. ASSUME NEW q \in Rows(t), NEW j \in 1 .. Width(t)
      PROVE  Cell(u, q, j) = IF q = p THEN row[j] ELSE Cell(t, q, j)
  <2>1. Cell(u, q, j) = AfterOverwrite(t, p, i, c, row, q, j)
    BY <1>2, OverwriteInv
  <2> QED BY <1>3, <2>1 DEF AfterOverwrite
<1> QED BY <1>4, <1>5

\* One cell of one row is overwritten.
LEMMA OverwriteCell ==
  ASSUME NEW t, TableInv(t), NEW p \in Rows(t), NEW i \in 1 .. Width(t), NEW value,
         NEW u, u = [t EXCEPT !.data = Overwritten(t, p, i, <<value>>)]
  PROVE  /\ TableInv(u)
         /\ u.columns = t.columns /\ u.ids = t.ids /\ u.idMap = t.idMap
         /\ u.nextId = t.nextId /\ u.sequential = t.sequential
         /\ \A q \in Rows(t), j \in 1 .. Width(t) :
              Cell(u, q, j) = IF q = p /\ j = i THEN value ELSE Cell(t, q, j)
<1> DEFINE cell == <<value>>
           c == 1
<1>1. Width(t) \in Nat
  BY Fields DEF TableInv
<1>2. Overwrites(t, u, p, i, c, cell)
  BY <1>1 DEF Overwrites
<1>3. cell[1] = value
  OBVIOUS
<1>4. \A j \in 1 .. Width(t) : (j \in i .. i + c - 1 <=> j = i) /\ i - i + 1 = 1
  BY <1>1
<1> HIDE DEF cell, c
<1>5. /\ TableInv(u)
      /\ u.columns = t.columns /\ u.ids = t.ids /\ u.idMap = t.idMap
      /\ u.nextId = t.nextId /\ u.sequential = t.sequential
  BY <1>2, OverwriteInv
<1>6. \A q \in Rows(t), j \in 1 .. Width(t) :
        Cell(u, q, j) = AfterOverwrite(t, p, i, c, cell, q, j)
  BY <1>2, OverwriteInv
<1>7. \A q \in Rows(t), j \in 1 .. Width(t) :
        Cell(u, q, j) = IF q = p /\ j = i THEN value ELSE Cell(t, q, j)
  BY <1>3, <1>4, <1>6 DEF AfterOverwrite
<1> QED BY <1>5, <1>7

-----------------------------------------------------------------------------
(* UPDATE *)

\* What is written to the row at a position.
NewCells(t, p, cells) == Merged(cells, RowMap(t, p))

\* u is t with cells written to the rows at the positions of P.
Written(t, u, P, cells) ==
  /\ TableInv(u)
  /\ u.columns = t.columns /\ u.ids = t.ids /\ u.idMap = t.idMap
  /\ u.nextId = t.nextId /\ u.sequential = t.sequential
  /\ \A p \in P : Admitted(t, NewCells(t, p, cells))
  /\ \A q \in Rows(t), j \in 1 .. Width(t) :
       Cell(u, q, j) = IF q \in P THEN Converted(t, NewCells(t, q, cells))[j] ELSE Cell(t, q, j)

\* update_row writes the row of an id, or refuses when its cells are not
\* admitted or the id_map does not know it.
LEMMA UpdateRowInv ==
  ASSUME NEW e, EffectInv(e), NEW n \in Names, Exists(e, n), NEW id \in Automatic, NEW map
  PROVE  LET t == e.tables[n]
             d == UpdateRow(e, n, id, map)
             p == t.idMap[id]
             u == [t EXCEPT !.data = Overwritten(t, p, 1, Converted(t, map))]
         IN  \/ d = Refuse(e)
                /\ (e.answer = "error" \/ ~Admitted(t, map) \/ p = 0)
             \/ /\ e.answer = "ok" /\ Admitted(t, map)
                /\ p \in Rows(t) /\ t.ids[p] = id
                /\ d = Put(e, n, u) /\ EffectInv(d) /\ d.tables = Holding(e, n, u)
                /\ d.populated = e.populated /\ d.answer = "ok"
                /\ TableInv(u)
                /\ u.columns = t.columns /\ u.ids = t.ids /\ u.idMap = t.idMap
                /\ u.nextId = t.nextId /\ u.sequential = t.sequential
                /\ \A q \in Rows(t), j \in 1 .. Width(t) :
                     Cell(u, q, j) = IF q = p THEN Converted(t, map)[j] ELSE Cell(t, q, j)
<1> DEFINE t == e.tables[n]
           d == UpdateRow(e, n, id, map)
           p == t.idMap[id]
           row == Converted(t, map)
           u == [t EXCEPT !.data = Overwritten(t, p, 1, row)]
<1>1. TableInv(t) /\ IsTable(t)
  BY ExistingInv DEF TableInv
<1>2. CASE e.answer = "error" \/ ~Admitted(t, map) \/ p = 0
  BY <1>2 DEF UpdateRow
<1>3. CASE ~(e.answer = "error" \/ ~Admitted(t, map) \/ p = 0)
  <2>1. d = Put(e, n, u) /\ e.answer = "ok"
    BY <1>3 DEF UpdateRow, EffectInv
  <2>2. ~t.sequential
    BY <1>1, <1>3 DEF TableInv, Dense
  <2>3. p \in Rows(t) /\ t.ids[p] = id
    BY <1>1, <1>3, <2>2 DEF TableInv, Exact
  <2>4. DOMAIN row = 1 .. Width(t) /\ Width(t) \in Nat
    BY <1>1, ConvertedList, Fields
  <2> HIDE DEF row, t, p, d
  <2>5. /\ TableInv(u)
        /\ u.columns = t.columns /\ u.ids = t.ids /\ u.idMap = t.idMap
        /\ u.nextId = t.nextId /\ u.sequential = t.sequential
        /\ \A q \in Rows(t), j \in 1 .. Width(t) :
             Cell(u, q, j) = IF q = p THEN row[j] ELSE Cell(t, q, j)
    <3>1. u = [t EXCEPT !.data = Overwritten(t, p, 1, row)]
      OBVIOUS
    <3> HIDE DEF u
    <3> QED BY <1>1, <2>3, <2>4, <3>1, OverwriteRow
  <2> HIDE DEF u
  <2>6. /\ EffectInv(d) /\ d.tables = Holding(e, n, u)
        /\ d.populated = e.populated /\ d.answer = "ok"
    BY <2>1, <2>2, <2>5, PutInv
  <2> QED BY <1>3, <2>1, <2>3, <2>5, <2>6 DEF t, p, row, d, u
<1> QED BY <1>2, <1>3

\* One step of UPDATE, at position p, when d was reached and t is the table the
\* rows were collected from.
UpdateStep(d, n, t, clause, cells, p) ==
  IF p \notin Found(t, clause) THEN d ELSE UpdateRow(d, n, t.ids[p], NewCells(t, p, cells))

\* The loop of UPDATE has a value, the last of its steps.
LEMMA UpdateSteps ==
  ASSUME NEW e, NEW n, NEW clause, NEW cells, Exists(e, n),
         NEW d, d = PopulateOnce(e, n), NEW t, t = d.tables[n], Len(t.ids) \in Nat
  PROVE  \E done : /\ UpdateWhere(e, n, clause, cells) = done[Len(t.ids)]
                   /\ done[0] = [d EXCEPT !.answer = "ok"]
                   /\ \A k \in 1 .. Len(t.ids) :
                        done[k] = UpdateStep(done[k - 1], n, t, clause, cells, k)
<1> DEFINE start == [d EXCEPT !.answer = "ok"]
           m0 == Len(t.ids)
           Solves(f, m) ==
             f = [k \in 0 .. m |-> IF k = 0 THEN start
                                   ELSE UpdateStep(f[k - 1], n, t, clause, cells, k)]
           Bad == {m \in Nat : ~\E f : Solves(f, m)}
<1>0. m0 \in Nat
  OBVIOUS
<1>1. Bad = {}
  <2> SUFFICES ASSUME Bad # {}  PROVE FALSE
    OBVIOUS
  <2>1. PICK m \in Bad : \A k \in Bad : m <= k
    BY LeastElement
  <2>2. Solves([k \in 0 .. 0 |-> start], 0)
    OBVIOUS
  <2>3. m # 0 /\ m \in Nat
    BY <2>2
  <2>4. PICK f : Solves(f, m - 1)
    <3>1. m - 1 \in Nat /\ ~(m <= m - 1)
      BY <2>3
    <3>2. m - 1 \notin Bad
      <4> HIDE DEF Bad
      <4> QED BY <2>1, <3>1
    <3> HIDE DEF Solves
    <3> QED BY <3>1, <3>2
  <2> DEFINE g == [k \in 0 .. m |-> IF k = m THEN UpdateStep(f[m - 1], n, t, clause, cells, m)
                                    ELSE f[k]]
  <2>5. \A k \in 0 .. m :
          g[k] = IF k = 0 THEN start ELSE UpdateStep(g[k - 1], n, t, clause, cells, k)
    <3>1. ASSUME NEW k \in 0 .. m
          PROVE  g[k] = IF k = 0 THEN start ELSE UpdateStep(g[k - 1], n, t, clause, cells, k)
      <4>1. CASE k = m
        <5>1. g[k] = UpdateStep(f[m - 1], n, t, clause, cells, m) /\ g[m - 1] = f[m - 1]
          BY <2>3, <4>1
        <5> HIDE DEF g
        <5> QED BY <2>3, <4>1, <5>1
      <4>2. CASE k # m
        <5>1. g[k] = f[k] /\ k \in 0 .. m - 1
          BY <2>3, <4>2
        <5>2. f[k] = IF k = 0 THEN start ELSE UpdateStep(f[k - 1], n, t, clause, cells, k)
          <6> HIDE DEF g, start
          <6> QED BY <2>4, <5>1
        <5>3. k # 0 => g[k - 1] = f[k - 1]
          BY <2>3, <4>2
        <5> HIDE DEF g
        <5> QED BY <5>1, <5>2, <5>3
      <4> QED BY <4>1, <4>2
    <3> QED BY <3>1
  <2>6. Solves(g, m)
    BY <2>5
  <2> QED BY <2>6
<1> DEFINE done == CHOOSE f : Solves(f, m0)
<1>2. Solves(done, m0)
  <2>1. m0 \notin Bad
    BY <1>0, <1>1
  <2>2. \E f : Solves(f, m0)
    <3> HIDE DEF Solves, m0
    <3> QED BY <1>0, <2>1
  <2> HIDE DEF Solves, m0
  <2> QED BY <2>2
<1>3. UpdateWhere(e, n, clause, cells) = done[m0]
  BY DEF UpdateWhere, UpdateStep, NewCells
<1> QED
  <2> HIDE DEF done
  <2>1. \A k \in 0 .. m0 :
          done[k] = IF k = 0 THEN start ELSE UpdateStep(done[k - 1], n, t, clause, cells, k)
    <3> HIDE DEF m0
    <3> QED BY <1>2
  <2>2. done[0] = start
    BY <1>0, <2>1
  <2>3. \A k \in 1 .. m0 : done[k] = UpdateStep(done[k - 1], n, t, clause, cells, k)
    BY <1>0, <2>1
  <2> QED BY <1>3, <2>2, <2>3

\* A clause finds rows of the table.
LEMMA FoundRows ==
  ASSUME NEW t, TableInv(t), NEW clause
  PROVE  Found(t, clause) \subseteq Rows(t)
<1>1. CASE clause = NoClause
  BY <1>1 DEF Found
<1>2. CASE clause # NoClause /\ clause.column = "id" /\ ~DeclaresId(t)
  <2>1. Get(t, clause.value) # 0 => Get(t, clause.value) \in Rows(t)
    BY GetFinds
  <2> QED BY <1>2, <2>1 DEF Found
<1>3. CASE clause # NoClause /\ ~(clause.column = "id" /\ ~DeclaresId(t))
  BY <1>3 DEF Found
<1> QED BY <1>1, <1>2, <1>3

\* One table after the other under one name.
LEMMA HoldingTwice ==
  ASSUME NEW d, EffectInv(d), NEW n \in Names, NEW u, NEW v,
         NEW f, f.tables = Holding(d, n, u)
  PROVE  /\ Holding(f, n, v) = Holding(d, n, v) /\ f.tables[n] = u
         /\ \A o \in Names : o # n => f.tables[o] = d.tables[o]
<1>1. DOMAIN d.tables = Names
  BY DEF EffectInv, TablesInv
<1>2. f.tables = [o \in Names |-> IF o = n THEN u ELSE d.tables[o]]
  BY <1>1 DEF Holding
<1>3. Holding(d, n, v) = [o \in Names |-> IF o = n THEN v ELSE d.tables[o]]
  BY <1>1 DEF Holding
<1>4. Holding(f, n, v) = [o \in Names |-> IF o = n THEN v ELSE d.tables[o]]
  BY <1>2 DEF Holding
<1> QED BY <1>2, <1>3, <1>4

\* UPDATE writes to rows the clause finds, and to all of them unless it is
\* refused; it is not when all new cells are admitted and the id_map is filled.
UpdateReached(f, d, n, t, clause, cells, k) ==
  /\ EffectInv(f)
  /\ \E u, P : /\ P \subseteq Found(t, clause) \cap (1 .. k)
               /\ f.answer = "ok" => P = Found(t, clause) \cap (1 .. k)
               /\ Written(t, u, P, cells) /\ f.tables = Holding(d, n, u)
  /\ ~t.sequential /\ (\A p \in Found(t, clause) : Admitted(t, NewCells(t, p, cells)))
       => f.answer = "ok"

\* One step of it.
LEMMA UpdateStepInv ==
  ASSUME NEW d, EffectInv(d), NEW n \in Names, NEW t, TableInv(t), d.tables[n] = t,
         NEW clause, NEW cells, NEW k \in Rows(t),
         NEW f, UpdateReached(f, d, n, t, clause, cells, k - 1)
  PROVE  UpdateReached(UpdateStep(f, n, t, clause, cells, k), d, n, t, clause, cells, k)
<1> DEFINE F == Found(t, clause)
           map == NewCells(t, k, cells)
           g == UpdateStep(f, n, t, clause, cells, k)
           Sure == ~t.sequential /\ \A p \in F : Admitted(t, NewCells(t, p, cells))
<1>1. PICK u, P : /\ P \subseteq F \cap (1 .. k - 1)
                  /\ f.answer = "ok" => P = F \cap (1 .. k - 1)
                  /\ Written(t, u, P, cells) /\ f.tables = Holding(d, n, u)
  BY DEF UpdateReached
<1>2. EffectInv(f) /\ (Sure => f.answer = "ok")
  BY DEF UpdateReached
<1>3. IsTable(t) /\ k \in Nat \ {0} /\ t.ids[k] \in Automatic
  <2>1. IsTable(t)
    BY DEF TableInv
  <2>2. Rows(t) = 1 .. Len(t.ids) /\ Len(t.ids) \in Nat /\ t.ids[k] \in Automatic
    BY <2>1, Fields
  <2> QED BY <2>1, <2>2
<1>4. (1 .. k) = (1 .. k - 1) \cup {k}
  BY <1>3
<1>5. TableInv(u) /\ u.columns = t.columns /\ u.ids = t.ids /\ u.idMap = t.idMap
      /\ u.sequential = t.sequential /\ u.nextId = t.nextId
  BY <1>1 DEF Written
<1>6. f.tables[n] = u /\ Exists(f, n)
  <2>1. f.tables[n] = u
    BY <1>1, HoldingTwice
  <2>2. u.exists = TRUE
    BY <1>5, Fields DEF TableInv
  <2> QED BY <2>1, <2>2 DEF Exists
<1>7. CASE k \notin F
  <2>1. g = f
    BY <1>7 DEF UpdateStep
  <2>2. F \cap (1 .. k) = F \cap (1 .. k - 1)
    BY <1>4, <1>7
  <2> HIDE DEF F, g
  <2> QED BY <1>1, <1>2, <2>1, <2>2 DEF UpdateReached, F, g
<1>8. CASE k \in F
  <2>1. g = UpdateRow(f, n, t.ids[k], map)
    BY <1>8 DEF UpdateStep
  <2> DEFINE p == u.idMap[t.ids[k]]
             v == [u EXCEPT !.data = Overwritten(u, p, 1, Converted(u, map))]
  <2>2. \/ g = Refuse(f)
           /\ (f.answer = "error" \/ ~Admitted(u, map) \/ p = 0)
        \/ /\ f.answer = "ok" /\ Admitted(u, map)
           /\ p \in Rows(u) /\ u.ids[p] = t.ids[k]
           /\ g = Put(f, n, v) /\ EffectInv(g) /\ g.tables = Holding(f, n, v)
           /\ g.populated = f.populated /\ g.answer = "ok"
           /\ TableInv(v)
           /\ v.columns = u.columns /\ v.ids = u.ids /\ v.idMap = u.idMap
           /\ v.nextId = u.nextId /\ v.sequential = u.sequential
           /\ \A q \in Rows(u), j \in 1 .. Width(u) :
                Cell(v, q, j) = IF q = p THEN Converted(u, map)[j] ELSE Cell(u, q, j)
    <3> HIDE DEF g, map
    <3> QED BY <1>2, <1>3, <1>6, <2>1, UpdateRowInv
  <2> HIDE DEF v, g, map
  <2>3. Rows(u) = Rows(t) /\ Width(u) = Width(t)
        /\ (Admitted(u, map) <=> Admitted(t, map)) /\ Converted(u, map) = Converted(t, map)
    BY <1>5, SameColumns DEF Rows
  <2>4. CASE g = Refuse(f) /\ (f.answer = "error" \/ ~Admitted(u, map) \/ p = 0)
    <3>1. EffectInv(g) /\ g.tables = f.tables /\ g.answer = "error"
      BY <1>2, <2>4, RefuseInv
    <3>2. ~Sure
      <4> SUFFICES ASSUME Sure  PROVE FALSE
        OBVIOUS
      <4>1. f.answer = "ok" /\ Admitted(t, map)
        BY <1>2, <1>8 DEF map
      <4>2. t.idMap[t.ids[k]] = k
        BY DEF TableInv, Exact
      <4> HIDE DEF Sure
      <4> QED BY <1>3, <1>5, <2>3, <2>4, <4>1, <4>2
    <3>3. P \subseteq F \cap (1 .. k)
      BY <1>1, <1>4
    <3> QED BY <1>1, <3>1, <3>2, <3>3 DEF UpdateReached, g
  <2>5. CASE /\ f.answer = "ok"
             /\ Admitted(u, map)
             /\ p \in Rows(u) /\ u.ids[p] = t.ids[k]
             /\ EffectInv(g) /\ g.tables = Holding(f, n, v) /\ g.answer = "ok"
             /\ TableInv(v)
             /\ v.columns = u.columns /\ v.ids = u.ids /\ v.idMap = u.idMap
             /\ v.nextId = u.nextId /\ v.sequential = u.sequential
             /\ \A q \in Rows(u), j \in 1 .. Width(u) :
                  Cell(v, q, j) = IF q = p THEN Converted(u, map)[j] ELSE Cell(u, q, j)
    <3>1. p = k
      <4> HIDE DEF p
      <4> QED BY <1>5, <2>3, <2>5 DEF TableInv, IdsDiffer
    <3> HIDE DEF p
    <3> DEFINE Q == P \cup {k}
    <3>2. Q = F \cap (1 .. k)
      BY <1>1, <1>4, <1>8, <2>5
    <3>3. g.tables = Holding(d, n, v)
      BY <1>1, <2>5, HoldingTwice
    <3>4. Written(t, v, Q, cells)
      <4>1. \A q \in Q : Admitted(t, NewCells(t, q, cells))
        BY <1>1, <2>3, <2>5 DEF Written, map
      <4>2. ASSUME NEW q \in Rows(t), NEW j \in 1 .. Width(t)
            PROVE  Cell(v, q, j) = IF q \in Q THEN Converted(t, NewCells(t, q, cells))[j]
                                              ELSE Cell(t, q, j)
        <5>1. Cell(v, q, j) = IF q = k THEN Converted(t, map)[j] ELSE Cell(u, q, j)
          BY <2>3, <2>5, <3>1
        <5>2. Cell(u, q, j) = IF q \in P THEN Converted(t, NewCells(t, q, cells))[j]
                                         ELSE Cell(t, q, j)
          BY <1>1 DEF Written
        <5> QED BY <5>1, <5>2 DEF map
      <4> HIDE DEF Q
      <4> QED BY <1>5, <2>5, <4>1, <4>2 DEF Written
    <3> HIDE DEF Q, F
    <3> QED BY <2>5, <3>2, <3>3, <3>4 DEF UpdateReached, F, g
  <2> QED BY <2>2, <2>4, <2>5
<1> QED BY <1>7, <1>8

\* UPDATE as a whole.
LEMMA UpdateInv ==
  ASSUME NEW e, EffectInv(e), NEW n \in Names, Exists(e, n), NEW clause, NEW cells,
         NEW d, d = PopulateOnce(e, n), NEW t, t = d.tables[n]
  PROVE  UpdateReached(UpdateWhere(e, n, clause, cells), d, n, t, clause, cells, Len(t.ids))
<1> DEFINE m == Len(t.ids)
           Fine(f, k) == UpdateReached(f, d, n, t, clause, cells, k)
<1>1. EffectInv(d) /\ d.tables = Holding(e, n, t) /\ TableInv(t)
  BY PopulateInv
<1>2. m \in Nat /\ Rows(t) = 1 .. m
  BY <1>1, Fields DEF TableInv
<1>3. PICK done : /\ UpdateWhere(e, n, clause, cells) = done[m]
                  /\ done[0] = [d EXCEPT !.answer = "ok"]
                  /\ \A k \in 1 .. m : done[k] = UpdateStep(done[k - 1], n, t, clause, cells, k)
  <2>1. Len(t.ids) \in Nat
    BY <1>2
  <2> QED BY <2>1, UpdateSteps
<1>4. Fine(done[0], 0)
  <2> DEFINE f == [d EXCEPT !.answer = "ok"]
  <2>1. f.tables = d.tables /\ f.populated = d.populated /\ f.answer = "ok"
    BY <1>1 DEF EffectInv
  <2>2. f \in [tables : {f.tables}, populated : SUBSET Names, answer : {"ok", "error"}]
    BY <1>1 DEF EffectInv
  <2> HIDE DEF f
  <2>3. EffectInv(f)
    BY <1>1, <2>1, <2>2 DEF EffectInv, Exists
  <2>4. Written(t, t, {}, cells)
    BY <1>1 DEF Written
  <2>5. d.tables = Holding(d, n, t)
    BY <1>1 DEF EffectInv, TablesInv, Holding
  <2>6. 1 .. 0 = {}
    OBVIOUS
  <2>7. \E u, P : /\ P \subseteq Found(t, clause) \cap (1 .. 0)
                  /\ f.answer = "ok" => P = Found(t, clause) \cap (1 .. 0)
                  /\ Written(t, u, P, cells) /\ f.tables = Holding(d, n, u)
    BY <2>1, <2>4, <2>5, <2>6
  <2>8. UpdateReached(f, d, n, t, clause, cells, 0)
    BY <2>1, <2>3, <2>7 DEF UpdateReached
  <2> QED BY <1>3, <2>8 DEF f
<1> DEFINE S == {k \in Nat : k <= m => Fine(done[k], k)}
<1>5. ASSUME NEW k \in Nat, k \in S
      PROVE  k + 1 \in S
  <2>1. CASE k + 1 <= m
    <3>1. Fine(done[k], k + 1 - 1) /\ k + 1 \in 1 .. m /\ k + 1 - 1 = k
      BY <1>2, <1>5, <2>1
    <3>2. done[k + 1] = UpdateStep(done[k], n, t, clause, cells, k + 1)
      BY <1>3, <3>1
    <3>3. d.tables[n] = t /\ k + 1 \in Rows(t)
      BY <1>2, <3>1
    <3> DEFINE f == done[k]
               j == k + 1
    <3>4. UpdateReached(f, d, n, t, clause, cells, j - 1) /\ j \in Rows(t)
      BY <3>1, <3>3
    <3> HIDE DEF f, j
    <3>5. UpdateReached(UpdateStep(f, n, t, clause, cells, j), d, n, t, clause, cells, j)
      BY <1>1, <3>3, <3>4, UpdateStepInv
    <3> QED BY <3>2, <3>5 DEF f, j
  <2>2. CASE ~(k + 1 <= m)
    BY <2>2
  <2> QED BY <2>1, <2>2
<1>6. Fine(done[m], m)
  <2>1. 0 \in S
    BY <1>4
  <2>2. \A k \in Nat : k \in S
    <3> HIDE DEF S
    <3> QED BY <1>5, <2>1, Counting
  <2> HIDE DEF Fine
  <2> QED BY <1>2, <2>2
<1> QED BY <1>3, <1>6

-----------------------------------------------------------------------------
(* INSERT of several rows *)

\* The loop of a batch has a value, the last of its steps.
LEMMA AppendSteps ==
  ASSUME NEW t, NEW rows, Len(rows) \in Nat
  PROVE  \E done : /\ AppendAll(t, rows) = done[Len(rows)]
                   /\ done[0] = t
                   /\ \A k \in 1 .. Len(rows) : done[k] = Append1(done[k - 1], rows[k])
<1> DEFINE start == t
           m0 == Len(rows)
           Solves(f, m) ==
             f = [k \in 0 .. m |-> IF k = 0 THEN start ELSE Append1(f[k - 1], rows[k])]
           Bad == {m \in Nat : ~\E f : Solves(f, m)}
<1>0. m0 \in Nat
  OBVIOUS
<1>1. Bad = {}
  <2> SUFFICES ASSUME Bad # {}  PROVE FALSE
    OBVIOUS
  <2>1. PICK m \in Bad : \A k \in Bad : m <= k
    BY LeastElement
  <2>2. Solves([k \in 0 .. 0 |-> start], 0)
    OBVIOUS
  <2>3. m # 0 /\ m \in Nat
    BY <2>2
  <2>4. PICK f : Solves(f, m - 1)
    <3>1. m - 1 \in Nat /\ ~(m <= m - 1)
      BY <2>3
    <3>2. m - 1 \notin Bad
      <4> HIDE DEF Bad
      <4> QED BY <2>1, <3>1
    <3> HIDE DEF Solves
    <3> QED BY <3>1, <3>2
  <2> DEFINE g == [k \in 0 .. m |-> IF k = m THEN Append1(f[m - 1], rows[m]) ELSE f[k]]
  <2>5. \A k \in 0 .. m : g[k] = IF k = 0 THEN start ELSE Append1(g[k - 1], rows[k])
    <3>1. ASSUME NEW k \in 0 .. m
          PROVE  g[k] = IF k = 0 THEN start ELSE Append1(g[k - 1], rows[k])
      <4>1. CASE k = m
        <5>1. g[k] = Append1(f[m - 1], rows[m]) /\ g[m - 1] = f[m - 1]
          BY <2>3, <4>1
        <5> HIDE DEF g
        <5> QED BY <2>3, <4>1, <5>1
      <4>2. CASE k # m
        <5>1. g[k] = f[k] /\ k \in 0 .. m - 1
          BY <2>3, <4>2
        <5>2. f[k] = IF k = 0 THEN start ELSE Append1(f[k - 1], rows[k])
          <6> HIDE DEF g, start
          <6> QED BY <2>4, <5>1
        <5>3. k # 0 => g[k - 1] = f[k - 1]
          BY <2>3, <4>2
        <5> HIDE DEF g
        <5> QED BY <5>1, <5>2, <5>3
      <4> QED BY <4>1, <4>2
    <3> QED BY <3>1
  <2>6. Solves(g, m)
    BY <2>5
  <2> QED BY <2>6
<1> DEFINE done == CHOOSE f : Solves(f, m0)
<1>2. Solves(done, m0)
  <2>1. m0 \notin Bad
    BY <1>0, <1>1
  <2>2. \E f : Solves(f, m0)
    <3> HIDE DEF Solves, m0
    <3> QED BY <1>0, <2>1
  <2> HIDE DEF Solves, m0
  <2> QED BY <2>2
<1>3. AppendAll(t, rows) = done[m0]
  BY DEF AppendAll
<1> QED
  <2> HIDE DEF done
  <2>1. \A k \in 0 .. m0 : done[k] = IF k = 0 THEN start ELSE Append1(done[k - 1], rows[k])
    <3> HIDE DEF m0
    <3> QED BY <1>2
  <2>2. done[0] = start
    BY <1>0, <2>1
  <2>3. \A k \in 1 .. m0 : done[k] = Append1(done[k - 1], rows[k])
    BY <1>0, <2>1
  <2> QED BY <1>3, <2>2, <2>3

\* u is t with the first k of the rows after its own.
AppendedTo(t, u, rows, k) ==
  /\ TableInv(u) /\ u.columns = t.columns /\ u.sequential = t.sequential
  /\ u.nextId = t.nextId + k /\ Len(u.ids) = Len(t.ids) + k
  /\ \A p \in Rows(t) : u.ids[p] = t.ids[p]
  /\ \A p \in Rows(t), i \in 1 .. Width(t) : Cell(u, p, i) = Cell(t, p, i)
  /\ \A r \in 1 .. k : u.ids[Len(t.ids) + r] = t.nextId + r - 1
  /\ \A r \in 1 .. k, i \in 1 .. Width(t) : Cell(u, Len(t.ids) + r, i) = rows[r][i]

\* One row more.
LEMMA AppendStepInv ==
  ASSUME NEW t, TableInv(t), NEW rows, NEW k \in Nat, NEW u, AppendedTo(t, u, rows, k),
         IsList(rows[k + 1]), Len(rows[k + 1]) = Width(t), t.nextId + k + 1 <= MaxIds
  PROVE  AppendedTo(t, Append1(u, rows[k + 1]), rows, k + 1)
<1> DEFINE n == Len(t.ids)
           w == Width(t)
           row == rows[k + 1]
           v == Append1(u, row)
           l == Len(u.ids)
<1>1. n \in Nat /\ w \in Nat /\ Rows(t) = 1 .. n /\ MaxIds \in Nat
  BY Fields DEF TableInv
<1>2. t.nextId \in Nat
  BY <1>1 DEF TableInv, IsTable
<1>3. /\ TableInv(u) /\ u.columns = t.columns /\ u.sequential = t.sequential
      /\ u.nextId = t.nextId + k /\ l = n + k
  BY DEF AppendedTo
<1>4. u.nextId < MaxIds /\ Width(u) = w
  BY <1>1, <1>2, <1>3, SameColumns
<1>5. /\ TableInv(v) /\ v.columns = u.columns /\ v.nextId = u.nextId + 1
      /\ v.sequential = u.sequential
      /\ Len(v.ids) = l + 1 /\ v.ids[l + 1] = u.nextId
      /\ \A p \in 1 .. l : v.ids[p] = u.ids[p]
      /\ \A p \in 1 .. l, i \in 1 .. Width(u) : Cell(v, p, i) = Cell(u, p, i)
      /\ \A i \in 1 .. Width(u) : Cell(v, l + 1, i) = row[i]
  <2>1. IsList(row) /\ Len(row) = Width(u)
    BY <1>4
  <2> HIDE DEF row
  <2> QED BY <1>3, <1>4, <2>1, AppendInv
<1> HIDE DEF v, row, l
<1>6. \A p \in Rows(t) : p \in 1 .. l
  BY <1>1, <1>3
<1>7. \A p \in Rows(t) : v.ids[p] = t.ids[p]
  BY <1>5, <1>6 DEF AppendedTo
<1>8. \A p \in Rows(t), i \in 1 .. w : Cell(v, p, i) = Cell(t, p, i)
  BY <1>4, <1>5, <1>6 DEF AppendedTo
<1>9. ASSUME NEW r \in 1 .. k + 1
      PROVE  /\ v.ids[n + r] = t.nextId + r - 1
             /\ \A i \in 1 .. w : Cell(v, n + r, i) = rows[r][i]
  <2>1. CASE r \in 1 .. k
    <3>1. n + r \in 1 .. l
      BY <1>1, <1>3, <2>1
    <3> HIDE DEF n, w
    <3>2. v.ids[n + r] = u.ids[n + r] /\ \A i \in 1 .. w : Cell(v, n + r, i) = Cell(u, n + r, i)
      BY <1>4, <1>5, <3>1
    <3> QED BY <2>1, <3>2 DEF AppendedTo, n, w
  <2>2. CASE r = k + 1
    <3> HIDE DEF n, w
    <3>1. l \in Nat /\ u.nextId \in Nat
      BY <1>1, <1>2, <1>3
    <3>2. n + r = l + 1 /\ t.nextId + r - 1 = u.nextId
      BY <1>1, <1>2, <1>3, <2>2, <3>1
    <3>3. rows[r] = row
      BY <2>2 DEF row
    <3> QED BY <1>4, <1>5, <3>2, <3>3
  <2> QED BY <2>1, <2>2
<1>10. v.nextId = t.nextId + (k + 1) /\ Len(v.ids) = n + (k + 1)
  <2> HIDE DEF n, w
  <2>1. l \in Nat /\ u.nextId \in Nat
    BY <1>1, <1>2, <1>3
  <2>2. v.nextId = u.nextId + 1 /\ Len(v.ids) = l + 1
    BY <1>5
  <2>3. u.nextId = t.nextId + k /\ l = n + k
    BY <1>3
  <2> QED BY <1>1, <1>2, <2>1, <2>2, <2>3
<1> QED BY <1>3, <1>5, <1>7, <1>8, <1>9, <1>10 DEF AppendedTo, v, row

\* The rows can be added to t: they have its width, and ids are left for them.
Fits(t, rows) ==
  /\ Len(rows) \in Nat /\ t.nextId + Len(rows) <= MaxIds
  /\ \A r \in 1 .. Len(rows) : IsList(rows[r]) /\ Len(rows[r]) = Width(t)

\* done has the tables that the loop of AppendAll goes through.
Appending(t, rows, done) ==
  /\ AppendAll(t, rows) = done[Len(rows)] /\ done[0] = t
  /\ \A k \in 1 .. Len(rows) : done[k] = Append1(done[k - 1], rows[k])
  /\ \A k \in 0 .. Len(rows) : AppendedTo(t, done[k], rows, k)

\* One row after the other is added.
LEMMA AppendReached ==
  ASSUME NEW t, TableInv(t), NEW rows, Fits(t, rows)
  PROVE  \E done : Appending(t, rows, done)
<1> DEFINE m == Len(rows)
<1> /\ m \in Nat /\ t.nextId + m <= MaxIds
    /\ \A r \in 1 .. m : IsList(rows[r]) /\ Len(rows[r]) = Width(t)
  BY DEF Fits
<1>1. PICK done : /\ AppendAll(t, rows) = done[m]
                  /\ done[0] = t
                  /\ \A k \in 1 .. m : done[k] = Append1(done[k - 1], rows[k])
  BY AppendSteps
<1>2. t.nextId \in Nat /\ Len(t.ids) \in Nat /\ MaxIds \in Nat
  <2>1. IsTable(t)
    BY DEF TableInv
  <2>2. Len(t.ids) \in Nat /\ MaxIds \in Nat
    BY <2>1, Fields
  <2> QED BY <2>1, <2>2 DEF IsTable
<1> DEFINE Fine(k) == AppendedTo(t, done[k], rows, k)
           S == {k \in Nat : k <= m => Fine(k)}
<1>3. Fine(0)
  <2>1. t.nextId + 0 = t.nextId /\ Len(t.ids) + 0 = Len(t.ids) /\ 1 .. 0 = {}
    BY <1>2
  <2> QED BY <1>1, <2>1 DEF AppendedTo
<1>4. ASSUME NEW k \in Nat, k \in S
      PROVE  k + 1 \in S
  <2>1. CASE k + 1 <= m
    <3>1. Fine(k) /\ k + 1 \in 1 .. m /\ k + 1 - 1 = k /\ t.nextId + k + 1 <= MaxIds
      BY <1>2, <1>4, <2>1
    <3>2. done[k + 1] = Append1(done[k], rows[k + 1])
      BY <1>1, <3>1
    <3>3. IsList(rows[k + 1]) /\ Len(rows[k + 1]) = Width(t)
      BY <3>1
    <3> DEFINE u == done[k]
    <3>4. AppendedTo(t, u, rows, k)
      BY <3>1
    <3> HIDE DEF u
    <3>5. AppendedTo(t, Append1(u, rows[k + 1]), rows, k + 1)
      BY <3>1, <3>3, <3>4, AppendStepInv
    <3> QED BY <3>2, <3>5 DEF u
  <2>2. CASE ~(k + 1 <= m)
    BY <2>2
  <2> QED BY <2>1, <2>2
<1>5. \A k \in 0 .. m : Fine(k)
  <2>1. 0 \in S
    BY <1>3
  <2>2. \A k \in Nat : k \in S
    <3> HIDE DEF S
    <3> QED BY <1>4, <2>1, Counting
  <2> HIDE DEF Fine
  <2> QED BY <2>2
<1> QED BY <1>1, <1>5 DEF Appending

\* All rows are added.
LEMMA AppendAllInv ==
  ASSUME NEW t, TableInv(t), NEW rows, Len(rows) \in Nat,
         \A r \in 1 .. Len(rows) : IsList(rows[r]) /\ Len(rows[r]) = Width(t),
         t.nextId + Len(rows) <= MaxIds
  PROVE  AppendedTo(t, AppendAll(t, rows), rows, Len(rows))
<1>1. PICK done : /\ AppendAll(t, rows) = done[Len(rows)]
                  /\ \A k \in 0 .. Len(rows) : AppendedTo(t, done[k], rows, k)
  <2>1. Fits(t, rows)
    BY DEF Fits
  <2>2. PICK done : Appending(t, rows, done)
    BY <2>1, AppendReached
  <2> QED BY <2>2 DEF Appending
<1>2. Len(rows) \in 0 .. Len(rows)
  OBVIOUS
<1> QED BY <1>1, <1>2

-----------------------------------------------------------------------------
(* DELETE *)

\* One step of DELETE, at position p, when u was reached and t is the table the
\* ids were collected from.
DeleteStep(u, t, clause, p) ==
  IF p \notin Found(t, clause) THEN u ELSE Delete(u, t.ids[p])

\* The loop of DELETE has a value, the last of its steps.
LEMMA DeleteSteps ==
  ASSUME NEW e, NEW n, NEW clause, Exists(e, n),
         NEW d, d = PopulateOnce(e, n), NEW t, t = d.tables[n], Len(t.ids) \in Nat
  PROVE  \E done : /\ DeleteWhere(e, n, clause) = Put(d, n, done[Len(t.ids)])
                   /\ done[0] = t
                   /\ \A k \in 1 .. Len(t.ids) : done[k] = DeleteStep(done[k - 1], t, clause, k)
<1> DEFINE start == t
           m0 == Len(t.ids)
           Solves(f, m) ==
             f = [k \in 0 .. m |-> IF k = 0 THEN start ELSE DeleteStep(f[k - 1], t, clause, k)]
           Bad == {m \in Nat : ~\E f : Solves(f, m)}
<1>0. m0 \in Nat
  OBVIOUS
<1>1. Bad = {}
  <2> SUFFICES ASSUME Bad # {}  PROVE FALSE
    OBVIOUS
  <2>1. PICK m \in Bad : \A k \in Bad : m <= k
    BY LeastElement
  <2>2. Solves([k \in 0 .. 0 |-> start], 0)
    OBVIOUS
  <2>3. m # 0 /\ m \in Nat
    BY <2>2
  <2>4. PICK f : Solves(f, m - 1)
    <3>1. m - 1 \in Nat /\ ~(m <= m - 1)
      BY <2>3
    <3>2. m - 1 \notin Bad
      <4> HIDE DEF Bad
      <4> QED BY <2>1, <3>1
    <3> HIDE DEF Solves
    <3> QED BY <3>1, <3>2
  <2> DEFINE g == [k \in 0 .. m |-> IF k = m THEN DeleteStep(f[m - 1], t, clause, m) ELSE f[k]]
  <2>5. \A k \in 0 .. m : g[k] = IF k = 0 THEN start ELSE DeleteStep(g[k - 1], t, clause, k)
    <3>1. ASSUME NEW k \in 0 .. m
          PROVE  g[k] = IF k = 0 THEN start ELSE DeleteStep(g[k - 1], t, clause, k)
      <4>1. CASE k = m
        <5>1. g[k] = DeleteStep(f[m - 1], t, clause, m) /\ g[m - 1] = f[m - 1]
          BY <2>3, <4>1
        <5> HIDE DEF g
        <5> QED BY <2>3, <4>1, <5>1
      <4>2. CASE k # m
        <5>1. g[k] = f[k] /\ k \in 0 .. m - 1
          BY <2>3, <4>2
        <5>2. f[k] = IF k = 0 THEN start ELSE DeleteStep(f[k - 1], t, clause, k)
          <6> HIDE DEF g, start
          <6> QED BY <2>4, <5>1
        <5>3. k # 0 => g[k - 1] = f[k - 1]
          BY <2>3, <4>2
        <5> HIDE DEF g
        <5> QED BY <5>1, <5>2, <5>3
      <4> QED BY <4>1, <4>2
    <3> QED BY <3>1
  <2>6. Solves(g, m)
    BY <2>5
  <2> QED BY <2>6
<1> DEFINE done == CHOOSE f : Solves(f, m0)
<1>2. Solves(done, m0)
  <2>1. m0 \notin Bad
    BY <1>0, <1>1
  <2>2. \E f : Solves(f, m0)
    <3> HIDE DEF Solves, m0
    <3> QED BY <1>0, <2>1
  <2> HIDE DEF Solves, m0
  <2> QED BY <2>2
<1>3. DeleteWhere(e, n, clause) = Put(d, n, done[m0])
  BY DEF DeleteWhere, DeleteStep
<1> QED
  <2> HIDE DEF done
  <2>1. \A k \in 0 .. m0 : done[k] = IF k = 0 THEN start ELSE DeleteStep(done[k - 1], t, clause, k)
    <3> HIDE DEF m0
    <3> QED BY <1>2
  <2>2. done[0] = start
    BY <1>0, <2>1
  <2>3. \A k \in 1 .. m0 : done[k] = DeleteStep(done[k - 1], t, clause, k)
    BY <1>0, <2>1
  <2> QED BY <1>3, <2>2, <2>3

\* u has the rows of t that are not at the positions of D, each in some place.
Deleted(t, u, D) ==
  /\ TableInv(u) /\ u.columns = t.columns /\ u.nextId = t.nextId
  /\ ~t.sequential => ~u.sequential
  /\ \A q \in Rows(u) : \E p \in Rows(t) \ D :
       u.ids[q] = t.ids[p] /\ \A i \in 1 .. Width(t) : Cell(u, q, i) = Cell(t, p, i)
  /\ \A p \in Rows(t) \ D : \E q \in Rows(u) : u.ids[q] = t.ids[p]

\* One more goes.
LEMMA DeleteStepInv ==
  ASSUME NEW t, TableInv(t), NEW u, NEW D, Deleted(t, u, D), NEW k \in Rows(t) \ D
  PROVE  Deleted(t, Delete(u, t.ids[k]), D \cup {k})
<1> DEFINE id == t.ids[k]
           p == Get(u, id)
           last == Len(u.ids)
           From(q) == IF q = p THEN last ELSE q
           v == Delete(u, id)
           E == D \cup {k}
<1>1. /\ TableInv(u) /\ u.columns = t.columns /\ u.nextId = t.nextId
      /\ \A q \in Rows(u) : \E r \in Rows(t) \ D :
           u.ids[q] = t.ids[r] /\ \A i \in 1 .. Width(t) : Cell(u, q, i) = Cell(t, r, i)
      /\ \A r \in Rows(t) \ D : \E q \in Rows(u) : u.ids[q] = t.ids[r]
  BY DEF Deleted
<1>2. last \in Nat /\ Rows(u) = 1 .. last /\ Width(u) = Width(t)
  BY <1>1, Fields, SameColumns DEF TableInv
<1>3. p # 0
  <2>1. PICK q \in Rows(u) : u.ids[q] = id
    BY <1>1
  <2>2. p = q
    BY <1>1, <2>1, GetFinds
  <2> QED BY <1>2, <2>1, <2>2
<1>4. /\ TableInv(v) /\ v.columns = u.columns /\ v.nextId = u.nextId /\ ~v.sequential
      /\ p \in 1 .. last /\ u.ids[p] = id
      /\ Len(v.ids) = last - 1
      /\ \A q \in 1 .. last - 1 : v.ids[q] = u.ids[From(q)]
      /\ \A q \in 1 .. last - 1, j \in 1 .. Width(t) : Cell(v, q, j) = Cell(u, From(q), j)
  <2> HIDE DEF id
  <2> QED BY <1>1, <1>2, <1>3, DeleteInv
<1> HIDE DEF v, p, last, id
<1>5. Rows(v) = 1 .. last - 1
  BY <1>4 DEF Rows
<1>6. \A q \in 1 .. last - 1 : From(q) \in Rows(u) /\ From(q) # p
  BY <1>2, <1>4
<1> HIDE DEF From
<1>7. ASSUME NEW q \in Rows(v)
      PROVE  \E r \in Rows(t) \ E :
               v.ids[q] = t.ids[r] /\ \A i \in 1 .. Width(t) : Cell(v, q, i) = Cell(t, r, i)
  <2>1. From(q) \in Rows(u) /\ From(q) # p
    BY <1>5, <1>6
  <2>2. PICK r \in Rows(t) \ D : /\ u.ids[From(q)] = t.ids[r]
                                 /\ \A i \in 1 .. Width(t) : Cell(u, From(q), i) = Cell(t, r, i)
    BY <1>1, <2>1
  <2>3. u.ids[From(q)] # u.ids[p]
    BY <1>1, <1>2, <1>4, <2>1 DEF TableInv, IdsDiffer
  <2>4. r # k
    BY <1>4, <2>2, <2>3 DEF id
  <2>5. r \in Rows(t) \ E
    BY <2>4
  <2>6. v.ids[q] = t.ids[r] /\ \A i \in 1 .. Width(t) : Cell(v, q, i) = Cell(t, r, i)
    BY <1>4, <1>5, <2>2
  <2> QED BY <2>5, <2>6
<1>8. ASSUME NEW r \in Rows(t) \ E
      PROVE  \E q \in Rows(v) : v.ids[q] = t.ids[r]
  <2>1. PICK q \in Rows(u) : u.ids[q] = t.ids[r]
    BY <1>1
  <2>2. t.ids[r] # id
    BY DEF TableInv, IdsDiffer, id
  <2>3. q # p
    BY <1>4, <2>1, <2>2
  <2>4. CASE q # last
    <3>1. q \in 1 .. last - 1 /\ From(q) = q
      BY <1>2, <2>3, <2>4 DEF From
    <3> QED BY <1>4, <1>5, <2>1, <3>1
  <2>5. CASE q = last
    <3>1. p \in 1 .. last - 1 /\ From(p) = q
      BY <1>2, <1>4, <2>3, <2>5 DEF From
    <3> QED BY <1>4, <1>5, <2>1, <3>1
  <2> QED BY <2>4, <2>5
<1> HIDE DEF E
<1> QED BY <1>1, <1>4, <1>7, <1>8 DEF Deleted, v, id, E

\* DELETE as a whole: the rows the clause finds go, and no other.
LEMMA DeletedAll ==
  ASSUME NEW e, EffectInv(e), NEW n \in Names, Exists(e, n), NEW clause,
         NEW d, d = PopulateOnce(e, n), NEW t, t = d.tables[n]
  PROVE  \E u : /\ DeleteWhere(e, n, clause) = Put(d, n, u)
                /\ Deleted(t, u, Found(t, clause))
<1> DEFINE m == Len(t.ids)
           F == Found(t, clause)
           Fine(u, k) == Deleted(t, u, F \cap (1 .. k))
<1>1. TableInv(t)
  BY PopulateInv
<1>2. m \in Nat /\ Rows(t) = 1 .. m /\ F \subseteq 1 .. m
  <2>1. m \in Nat /\ Rows(t) = 1 .. m
    BY <1>1, Fields DEF TableInv
  <2>2. F \subseteq Rows(t)
    BY <1>1, FoundRows
  <2> QED BY <2>1, <2>2
<1>3. PICK done : /\ DeleteWhere(e, n, clause) = Put(d, n, done[m])
                  /\ done[0] = t
                  /\ \A k \in 1 .. m : done[k] = DeleteStep(done[k - 1], t, clause, k)
  <2>1. Len(t.ids) \in Nat
    BY <1>2
  <2> QED BY <2>1, DeleteSteps
<1>4. Fine(done[0], 0)
  <2>1. F \cap (1 .. 0) = {}
    OBVIOUS
  <2> HIDE DEF F
  <2> QED BY <1>1, <1>3, <2>1 DEF Deleted
<1> DEFINE S == {k \in Nat : k <= m => Fine(done[k], k)}
<1>5. ASSUME NEW k \in Nat, k \in S
      PROVE  k + 1 \in S
  <2>1. CASE k + 1 <= m
    <3> DEFINE u == done[k]
               j == k + 1
               D == F \cap (1 .. k)
    <3>1. Deleted(t, u, D) /\ j \in 1 .. m
      BY <1>2, <1>5, <2>1
    <3>2. done[j] = DeleteStep(u, t, clause, j)
      <4>1. j - 1 = k
        OBVIOUS
      <4> QED BY <1>3, <3>1, <4>1
    <3>3. 1 .. j = (1 .. k) \cup {j} /\ j \notin 1 .. k
      OBVIOUS
    <3>4. CASE j \in F
      <4>1. F \cap (1 .. j) = D \cup {j} /\ j \in Rows(t) \ D
        <5> HIDE DEF F, j
        <5> QED BY <1>2, <3>1, <3>3, <3>4
      <4>2. done[j] = Delete(u, t.ids[j])
        BY <3>2, <3>4 DEF DeleteStep
      <4> HIDE DEF D, j, u, F, m
      <4>3. Deleted(t, Delete(u, t.ids[j]), D \cup {j})
        BY <1>1, <3>1, <4>1, DeleteStepInv
      <4>4. Deleted(t, done[j], F \cap (1 .. j))
        BY <4>1, <4>2, <4>3
      <4> QED BY <4>4 DEF j
    <3>5. CASE j \notin F
      <4>1. F \cap (1 .. j) = D
        <5> HIDE DEF F, j
        <5> QED BY <3>3, <3>5
      <4>2. done[j] = u
        BY <3>2, <3>5 DEF DeleteStep
      <4> HIDE DEF D, u, F, m, j
      <4>3. Deleted(t, done[j], F \cap (1 .. j))
        BY <3>1, <4>1, <4>2
      <4> QED BY <4>3 DEF j
    <3> QED BY <3>4, <3>5
  <2>2. CASE ~(k + 1 <= m)
    BY <2>2
  <2> QED BY <2>1, <2>2
<1>6. Fine(done[m], m)
  <2>1. 0 \in S
    BY <1>4
  <2>2. \A k \in Nat : k \in S
    <3> HIDE DEF S
    <3> QED BY <1>5, <2>1, Counting
  <2> HIDE DEF Fine
  <2> QED BY <1>2, <2>2
<1>7. F \cap (1 .. m) = F
  BY <1>2
<1> HIDE DEF F, m
<1> QED BY <1>3, <1>6, <1>7 DEF F

-----------------------------------------------------------------------------
(* update_batch_by_indices *)

\* One change of a batch.
WriteOne(t, change) ==
  IF Get(t, change.id) = 0 THEN t
  ELSE [t EXCEPT !.data = Overwritten(t, Get(t, change.id),
                                      ColumnIndex(t, change.column), <<change.value>>)]

\* The loop of update_batch_by_indices has a value, the last of its steps.
LEMMA IndicesSteps ==
  ASSUME NEW e, NEW n, NEW changes, Len(changes) \in Nat
  PROVE  \E done : /\ UpdateByIndices(e, n, changes) = Put(e, n, done[Len(changes)])
                   /\ done[0] = e.tables[n]
                   /\ \A k \in 1 .. Len(changes) : done[k] = WriteOne(done[k - 1], changes[k])
<1> DEFINE start == e.tables[n]
           m0 == Len(changes)
           Solves(f, m) ==
             f = [k \in 0 .. m |-> IF k = 0 THEN start ELSE WriteOne(f[k - 1], changes[k])]
           Bad == {m \in Nat : ~\E f : Solves(f, m)}
<1>0. m0 \in Nat
  OBVIOUS
<1>1. Bad = {}
  <2> SUFFICES ASSUME Bad # {}  PROVE FALSE
    OBVIOUS
  <2>1. PICK m \in Bad : \A k \in Bad : m <= k
    BY LeastElement
  <2>2. Solves([k \in 0 .. 0 |-> start], 0)
    OBVIOUS
  <2>3. m # 0 /\ m \in Nat
    BY <2>2
  <2>4. PICK f : Solves(f, m - 1)
    <3>1. m - 1 \in Nat /\ ~(m <= m - 1)
      BY <2>3
    <3>2. m - 1 \notin Bad
      <4> HIDE DEF Bad
      <4> QED BY <2>1, <3>1
    <3> HIDE DEF Solves
    <3> QED BY <3>1, <3>2
  <2> DEFINE g == [k \in 0 .. m |-> IF k = m THEN WriteOne(f[m - 1], changes[m]) ELSE f[k]]
  <2>5. \A k \in 0 .. m : g[k] = IF k = 0 THEN start ELSE WriteOne(g[k - 1], changes[k])
    <3>1. ASSUME NEW k \in 0 .. m
          PROVE  g[k] = IF k = 0 THEN start ELSE WriteOne(g[k - 1], changes[k])
      <4>1. CASE k = m
        <5>1. g[k] = WriteOne(f[m - 1], changes[m]) /\ g[m - 1] = f[m - 1]
          BY <2>3, <4>1
        <5> HIDE DEF g
        <5> QED BY <2>3, <4>1, <5>1
      <4>2. CASE k # m
        <5>1. g[k] = f[k] /\ k \in 0 .. m - 1
          BY <2>3, <4>2
        <5>2. f[k] = IF k = 0 THEN start ELSE WriteOne(f[k - 1], changes[k])
          <6> HIDE DEF g, start
          <6> QED BY <2>4, <5>1
        <5>3. k # 0 => g[k - 1] = f[k - 1]
          BY <2>3, <4>2
        <5> HIDE DEF g
        <5> QED BY <5>1, <5>2, <5>3
      <4> QED BY <4>1, <4>2
    <3> QED BY <3>1
  <2>6. Solves(g, m)
    BY <2>5
  <2> QED BY <2>6
<1> DEFINE done == CHOOSE f : Solves(f, m0)
<1>2. Solves(done, m0)
  <2>1. m0 \notin Bad
    BY <1>0, <1>1
  <2>2. \E f : Solves(f, m0)
    <3> HIDE DEF Solves, m0
    <3> QED BY <1>0, <2>1
  <2> HIDE DEF Solves, m0
  <2> QED BY <2>2
<1>3. UpdateByIndices(e, n, changes) = Put(e, n, done[m0])
  BY DEF UpdateByIndices, WriteOne
<1> QED
  <2> HIDE DEF done
  <2>1. \A k \in 0 .. m0 : done[k] = IF k = 0 THEN start ELSE WriteOne(done[k - 1], changes[k])
    <3> HIDE DEF m0
    <3> QED BY <1>2
  <2>2. done[0] = start
    BY <1>0, <2>1
  <2>3. \A k \in 1 .. m0 : done[k] = WriteOne(done[k - 1], changes[k])
    BY <1>0, <2>1
  <2> QED BY <1>3, <2>2, <2>3

\* u is t with other cells.
Rewritten(t, u) ==
  /\ TableInv(u) /\ u.columns = t.columns /\ u.ids = t.ids
  /\ u.nextId = t.nextId /\ u.sequential = t.sequential

\* It writes one cell of the row of its id, if there is one.
LEMMA WriteOneInv ==
  ASSUME NEW t, TableInv(t), NEW change, change.column \in ColumnNames(t)
  PROVE  LET u == WriteOne(t, change)
         IN  /\ Rewritten(t, u)
             /\ \A q \in Rows(t), j \in 1 .. Width(t) :
                  Cell(u, q, j) = IF t.ids[q] = change.id /\ j = ColumnIndex(t, change.column)
                                  THEN change.value ELSE Cell(t, q, j)
<1> DEFINE p == Get(t, change.id)
           i == ColumnIndex(t, change.column)
           u == WriteOne(t, change)
<1>1. IsTable(t)
  BY DEF TableInv
<1>2. i \in 1 .. Width(t) /\ Width(t) \in Nat
  BY <1>1, ColumnFound, Fields
<1>3. CASE p = 0
  <2>1. u = t
    BY <1>3 DEF WriteOne
  <2>2. \A q \in Rows(t) : t.ids[q] # change.id
    <3> SUFFICES ASSUME NEW q \in Rows(t), t.ids[q] = change.id
                 PROVE  FALSE
      OBVIOUS
    <3>1. p = q
      BY GetFinds
    <3>2. Rows(t) = 1 .. Len(t.ids) /\ Len(t.ids) \in Nat
      BY <1>1, Fields
    <3> QED BY <1>3, <3>1, <3>2
  <2> QED BY <2>1, <2>2 DEF Rewritten
<1>4. CASE p # 0
  <2>1. p \in Rows(t) /\ t.ids[p] = change.id
    BY <1>4, GetFinds
  <2>2. \A q \in Rows(t) : q = p <=> t.ids[q] = change.id
    BY <2>1 DEF TableInv, IdsDiffer
  <2> DEFINE value == change.value
  <2>3. u = [t EXCEPT !.data = Overwritten(t, p, i, <<value>>)]
    BY <1>4 DEF WriteOne
  <2> HIDE DEF u, p, i, value
  <2>4. /\ TableInv(u)
        /\ u.columns = t.columns /\ u.ids = t.ids /\ u.idMap = t.idMap
        /\ u.nextId = t.nextId /\ u.sequential = t.sequential
    BY <1>2, <2>1, <2>3, OverwriteCell
  <2>5. \A q \in Rows(t), j \in 1 .. Width(t) :
          Cell(u, q, j) = IF q = p /\ j = i THEN value ELSE Cell(t, q, j)
    BY <1>2, <2>1, <2>3, OverwriteCell
  <2>6. \A q \in Rows(t), j \in 1 .. Width(t) :
          Cell(u, q, j) = IF t.ids[q] = change.id /\ j = i THEN change.value ELSE Cell(t, q, j)
    BY <2>2, <2>5 DEF value
  <2> QED BY <2>4, <2>6 DEF Rewritten, u, i
<1> QED BY <1>3, <1>4

\* Changes of cells in columns that are there keep the rows.
LEMMA IndicesReached ==
  ASSUME NEW e, NEW n, TableInv(e.tables[n]), NEW changes, Len(changes) \in Nat,
         \A k \in 1 .. Len(changes) : changes[k].column \in ColumnNames(e.tables[n])
  PROVE  \E done : /\ UpdateByIndices(e, n, changes) = Put(e, n, done[Len(changes)])
                   /\ done[0] = e.tables[n]
                   /\ \A k \in 1 .. Len(changes) : done[k] = WriteOne(done[k - 1], changes[k])
                   /\ \A k \in 0 .. Len(changes) : Rewritten(e.tables[n], done[k])
<1> DEFINE m == Len(changes)
           t == e.tables[n]
<1>1. PICK done : /\ UpdateByIndices(e, n, changes) = Put(e, n, done[m])
                  /\ done[0] = t
                  /\ \A k \in 1 .. m : done[k] = WriteOne(done[k - 1], changes[k])
  BY IndicesSteps
<1> DEFINE S == {k \in Nat : k <= m => Rewritten(t, done[k])}
<1>2. Rewritten(t, done[0])
  BY <1>1 DEF Rewritten
<1>3. ASSUME NEW k \in Nat, k \in S
      PROVE  k + 1 \in S
  <2>1. CASE k + 1 <= m
    <3> DEFINE u == done[k]
               change == changes[k + 1]
    <3>1. Rewritten(t, u) /\ k + 1 \in 1 .. m /\ k + 1 - 1 = k
      BY <1>3, <2>1
    <3>2. done[k + 1] = WriteOne(u, change)
      BY <1>1, <3>1
    <3>3. change.column \in ColumnNames(t)
      BY <3>1
    <3> HIDE DEF u, change, t
    <3>4. TableInv(u) /\ change.column \in ColumnNames(u)
      BY <3>1, <3>3, SameColumns DEF Rewritten
    <3>5. Rewritten(u, WriteOne(u, change))
      BY <3>4, WriteOneInv
    <3>6. Rewritten(t, done[k + 1])
      BY <3>1, <3>2, <3>5 DEF Rewritten
    <3> QED BY <3>6
  <2>2. CASE ~(k + 1 <= m)
    BY <2>2
  <2> QED BY <2>1, <2>2
<1>4. \A k \in 0 .. m : Rewritten(t, done[k])
  <2>1. 0 \in S
    BY <1>2
  <2>2. \A k \in Nat : k \in S
    <3> HIDE DEF S
    <3> QED BY <1>3, <2>1, Counting
  <2> HIDE DEF t
  <2> QED BY <2>2
<1> QED BY <1>1, <1>4

\* What a batch of changes makes of a table has the rows it had.
LEMMA IndicesInv ==
  ASSUME NEW e, NEW n, TableInv(e.tables[n]), NEW changes, Len(changes) \in Nat,
         \A k \in 1 .. Len(changes) : changes[k].column \in ColumnNames(e.tables[n])
  PROVE  \E u : UpdateByIndices(e, n, changes) = Put(e, n, u) /\ Rewritten(e.tables[n], u)
<1>1. PICK done : /\ UpdateByIndices(e, n, changes) = Put(e, n, done[Len(changes)])
                  /\ \A k \in 0 .. Len(changes) : Rewritten(e.tables[n], done[k])
  BY IndicesReached
<1>2. Len(changes) \in 0 .. Len(changes)
  OBVIOUS
<1> QED BY <1>1, <1>2

-----------------------------------------------------------------------------
(* The statements *)

\* A row that is put down by position has a cell for every column.
LEMMA PlacedList ==
  ASSUME NEW t, IsTable(t), NEW columns, NEW row
  PROVE  IsList(Placed(t, columns, row)) /\ Len(Placed(t, columns, row)) = Width(t)
<1> DEFINE f == Placed(t, columns, row)
<1>1. Width(t) \in Nat
  BY Fields
<1>2. f \in [1 .. Width(t) -> Range(f)]
  BY DEF Placed, Range
<1> HIDE DEF f
<1> QED BY <1>1, <1>2, Listed DEF f

\* INSERT of one row adds a row whose cells are admitted, or is refused.
LEMMA InsertOneInv ==
  ASSUME NEW e, EffectInv(e), NEW n \in Names, NEW map,
         Exists(e, n) => e.tables[n].nextId < MaxIds
  PROVE  LET t == e.tables[n]
             f == InsertOne(e, n, map)
             u == Append1(t, Converted(t, map))
         IN  /\ EffectInv(f)
             /\ \/ f = Refuse(e)
                \/ /\ Exists(e, n) /\ Admitted(t, map) /\ f = Put(e, n, u)
                   /\ TableInv(t) /\ AppendedTo(t, u, <<Converted(t, map)>>, 1)
<1> DEFINE t == e.tables[n]
           f == InsertOne(e, n, map)
           cells == Converted(t, map)
           u == Append1(t, cells)
<1>1. CASE ~(Exists(e, n) /\ Admitted(t, map))
  BY <1>1, RefuseInv DEF InsertOne
<1>2. CASE Exists(e, n) /\ Admitted(t, map)
  <2>1. f = Put(e, n, u)
    BY <1>2 DEF InsertOne
  <2>2. TableInv(t) /\ IsTable(t) /\ t.nextId < MaxIds
    BY <1>2, ExistingInv DEF TableInv
  <2>3. IsList(cells) /\ Len(cells) = Width(t)
    BY <2>2, ConvertedList
  <2>4. /\ t.nextId \in Nat /\ Len(t.ids) \in Nat /\ Rows(t) = 1 .. Len(t.ids)
    <3>1. Len(t.ids) \in Nat /\ Rows(t) = 1 .. Len(t.ids) /\ MaxIds \in Nat
      BY <2>2, Fields
    <3>2. t.nextId \in 0 .. MaxIds
      BY <2>2 DEF IsTable
    <3> QED BY <3>1, <3>2
  <2>5. n \in e.populated \ replaced => ~t.sequential
    BY <1>2 DEF EffectInv
  <2> HIDE DEF t, f, cells, u
  <2>6. LET v == Append1(t, cells)
            m == Len(t.ids)
        IN  /\ TableInv(v) /\ v.columns = t.columns /\ v.nextId = t.nextId + 1
            /\ v.sequential = t.sequential
            /\ Len(v.ids) = m + 1 /\ v.ids[m + 1] = t.nextId
            /\ \A p \in 1 .. m : v.ids[p] = t.ids[p]
            /\ \A p \in 1 .. m, i \in 1 .. Width(t) : Cell(v, p, i) = Cell(t, p, i)
            /\ \A i \in 1 .. Width(t) : Cell(v, m + 1, i) = cells[i]
    BY <2>2, <2>3, AppendInv
  <2>7. AppendedTo(t, u, <<cells>>, 1)
    <3>1. 1 .. 1 = {1} /\ <<cells>>[1] = cells /\ t.nextId + 1 - 1 = t.nextId
      BY <2>4
    <3>2. /\ TableInv(u) /\ u.columns = t.columns /\ u.nextId = t.nextId + 1
          /\ u.sequential = t.sequential
          /\ Len(u.ids) = Len(t.ids) + 1 /\ u.ids[Len(t.ids) + 1] = t.nextId
          /\ \A p \in Rows(t) : u.ids[p] = t.ids[p]
          /\ \A p \in Rows(t), i \in 1 .. Width(t) : Cell(u, p, i) = Cell(t, p, i)
          /\ \A i \in 1 .. Width(t) : Cell(u, Len(t.ids) + 1, i) = cells[i]
      BY <2>4, <2>6 DEF u
    <3>3. \A r \in 1 .. 1 : u.ids[Len(t.ids) + r] = t.nextId + r - 1
      BY <3>1, <3>2
    <3>4. \A r \in 1 .. 1, i \in 1 .. Width(t) :
            Cell(u, Len(t.ids) + r, i) = <<cells>>[r][i]
      BY <3>1, <3>2
    <3> QED BY <3>2, <3>3, <3>4 DEF AppendedTo
  <2>8. TableInv(u) /\ u.sequential = t.sequential
    BY <2>7 DEF AppendedTo
  <2>9. EffectInv(Put(e, n, u))
    BY <2>5, <2>8, PutInv
  <2> QED BY <1>2, <2>1, <2>2, <2>7, <2>9 DEF t, f, cells, u
<1> QED BY <1>1, <1>2

\* INSERT of several rows adds a row for each, or is refused.
LEMMA InsertManyInv ==
  ASSUME NEW e, EffectInv(e), NEW n \in Names, NEW columns,
         NEW rows, Len(rows) \in Nat, DOMAIN rows = 1 .. Len(rows),
         Exists(e, n) => e.tables[n].nextId + Len(rows) <= MaxIds
  PROVE  LET t == e.tables[n]
             f == InsertMany(e, n, columns, rows)
             placed == [r \in DOMAIN rows |-> Placed(t, columns, rows[r])]
             u == AppendAll(t, placed)
         IN  /\ EffectInv(f)
             /\ \/ f = Refuse(e)
                \/ /\ Exists(e, n) /\ f = Put(e, n, u)
                   /\ \A i \in DOMAIN columns : ColumnIndex(t, columns[i]) # 0
                   /\ TableInv(t) /\ AppendedTo(t, u, placed, Len(rows))
<1> DEFINE t == e.tables[n]
           f == InsertMany(e, n, columns, rows)
           placed == [r \in DOMAIN rows |-> Placed(t, columns, rows[r])]
           u == AppendAll(t, placed)
           Known == \A i \in DOMAIN columns : ColumnIndex(t, columns[i]) # 0
<1>1. CASE ~(Exists(e, n) /\ Known)
  BY <1>1, RefuseInv DEF InsertMany
<1>2. CASE Exists(e, n) /\ Known
  <2>1. f = Put(e, n, u)
    BY <1>2 DEF InsertMany
  <2>2. TableInv(t) /\ IsTable(t) /\ t.nextId + Len(rows) <= MaxIds
    BY <1>2, ExistingInv DEF TableInv
  <2>3. Len(placed) = Len(rows)
    <3>1. placed \in [1 .. Len(rows) -> Range(placed)]
      BY DEF Range
    <3> HIDE DEF placed
    <3> QED BY <3>1, Listed
  <2>4. \A r \in 1 .. Len(placed) : IsList(placed[r]) /\ Len(placed[r]) = Width(t)
    <3>1. ASSUME NEW r \in 1 .. Len(rows)
          PROVE  placed[r] = Placed(t, columns, rows[r])
      OBVIOUS
    <3> HIDE DEF placed, t
    <3> QED BY <2>2, <2>3, <3>1, PlacedList
  <2>5. n \in e.populated \ replaced => ~t.sequential
    BY <1>2 DEF EffectInv
  <2> HIDE DEF t, f, placed, u, Known
  <2>6. AppendedTo(t, u, placed, Len(rows))
    BY <2>2, <2>3, <2>4, AppendAllInv DEF u
  <2>7. TableInv(u) /\ u.sequential = t.sequential
    BY <2>6 DEF AppendedTo
  <2>8. EffectInv(Put(e, n, u))
    BY <2>5, <2>7, PutInv
  <2> QED BY <1>2, <2>1, <2>2, <2>6, <2>8 DEF t, f, placed, u, Known
<1> QED BY <1>1, <1>2

\* DELETE leaves the table without the rows found, or is refused.
LEMMA DeleteWhereInv ==
  ASSUME NEW e, EffectInv(e), NEW n \in Names, NEW clause
  PROVE  EffectInv(DeleteWhere(e, n, clause))
<1> DEFINE d == PopulateOnce(e, n)
           t == d.tables[n]
<1>1. CASE ~Exists(e, n)
  BY <1>1, RefuseInv DEF DeleteWhere
<1>2. CASE Exists(e, n)
  <2>1. PICK u : DeleteWhere(e, n, clause) = Put(d, n, u) /\ Deleted(t, u, Found(t, clause))
    BY <1>2, DeletedAll
  <2>2. EffectInv(d) /\ TableInv(t)
    BY <1>2, PopulateInv
  <2>3. t.exists = TRUE
    BY <2>2, Fields DEF TableInv
  <2>4. n \in d.populated \ replaced => ~t.sequential
    BY <2>2, <2>3 DEF EffectInv, Exists
  <2> HIDE DEF d, t
  <2>5. TableInv(u) /\ (~t.sequential => ~u.sequential)
    BY <2>1 DEF Deleted
  <2>6. EffectInv(Put(d, n, u))
    BY <2>2, <2>4, <2>5, PutInv
  <2> QED BY <2>1, <2>6
<1> QED BY <1>1, <1>2

\* SELECT leaves the tables as they are, but for an id_map that is filled.
LEMMA SelectWhereInv ==
  ASSUME NEW e, EffectInv(e), NEW n \in Names, NEW clause
  PROVE  LET f == SelectWhere(e, n, clause)
         IN  /\ EffectInv(f)
             /\ Exists(e, n) => /\ f.answer = e.answer /\ f.tables = Holding(e, n, f.tables[n])
                                /\ TableInv(f.tables[n]) /\ SameRows(e.tables[n], f.tables[n])
             /\ ~Exists(e, n) => f = Refuse(e)
<1> DEFINE f == SelectWhere(e, n, clause)
<1>1. CASE ~Exists(e, n)
  BY <1>1, RefuseInv DEF SelectWhere
<1>2. CASE Exists(e, n) /\ f = PopulateOnce(e, n)
  BY <1>2, PopulateInv
<1>3. CASE Exists(e, n) /\ f = e
  <2>1. TableInv(e.tables[n])
    BY <1>3, ExistingInv
  <2>2. e.tables = Holding(e, n, e.tables[n])
    BY DEF Holding, EffectInv, TablesInv
  <2> HIDE DEF f
  <2> QED BY <1>3, <2>1, <2>2 DEF SameRows, f
<1>4. Exists(e, n) => f = PopulateOnce(e, n) \/ f = e
  BY DEF SelectWhere
<1> QED BY <1>1, <1>2, <1>3, <1>4

\* UPDATE keeps the invariant, refused or not.
LEMMA UpdateWhereInv ==
  ASSUME NEW e, EffectInv(e), NEW n \in Names, NEW clause, NEW cells
  PROVE  EffectInv(UpdateWhere(e, n, clause, cells))
<1>1. CASE ~Exists(e, n)
  BY <1>1, RefuseInv DEF UpdateWhere
<1>2. CASE Exists(e, n)
  BY <1>2, UpdateInv DEF UpdateReached
<1> QED BY <1>1, <1>2

-----------------------------------------------------------------------------
(* The relation a table stands for *)

\* What tables with the same rows have in common.
LEMMA SameFound ==
  ASSUME NEW t, TableInv(t), NEW u, TableInv(u), SameRows(t, u)
  PROVE  /\ \A id : Get(u, id) = Get(t, id)
         /\ \A clause : Found(u, clause) = Found(t, clause)
         /\ \A p : RowMap(u, p) = RowMap(t, p)
         /\ \A map : Admitted(u, map) <=> Admitted(t, map)
<1>1. u.columns = t.columns /\ u.ids = t.ids /\ u.data = t.data
  BY DEF SameRows
<1>2. /\ Width(u) = Width(t) /\ ColumnNames(u) = ColumnNames(t)
      /\ \A c : ColumnIndex(u, c) = ColumnIndex(t, c)
      /\ \A map : Admitted(u, map) <=> Admitted(t, map)
  BY <1>1, SameColumns
<1>3. Rows(u) = Rows(t) /\ \A p, i : Cell(u, p, i) = Cell(t, p, i)
  BY <1>1, <1>2 DEF Rows, Cell
<1>4. ASSUME NEW id  PROVE Get(u, id) = Get(t, id)
  <2>1. CASE Get(u, id) = 0 /\ Get(t, id) = 0
    BY <2>1
  <2>2. CASE Get(u, id) # 0
    <3> DEFINE p == Get(u, id)
    <3>1. p \in Rows(t) /\ t.ids[p] = id
      BY <1>1, <1>3, <2>2, GetFinds
    <3> HIDE DEF p
    <3>2. Get(t, t.ids[p]) = p
      BY <3>1, GetFinds
    <3> QED BY <3>1, <3>2 DEF p
  <2>3. CASE Get(t, id) # 0
    <3> DEFINE p == Get(t, id)
    <3>1. p \in Rows(u) /\ u.ids[p] = id
      BY <1>1, <1>3, <2>3, GetFinds
    <3> HIDE DEF p
    <3>2. Get(u, u.ids[p]) = p
      BY <3>1, GetFinds
    <3> QED BY <3>1, <3>2 DEF p
  <2> QED BY <2>1, <2>2, <2>3
<1>5. ASSUME NEW clause  PROVE Found(u, clause) = Found(t, clause)
  <2>1. DeclaresId(u) <=> DeclaresId(t)
    BY <1>2 DEF DeclaresId
  <2> QED BY <1>2, <1>3, <1>4, <2>1 DEF Found
<1>6. ASSUME NEW p  PROVE RowMap(u, p) = RowMap(t, p)
  BY <1>2, <1>3 DEF RowMap
<1> QED BY <1>2, <1>4, <1>5, <1>6

\* The cell a map gives to a column that can be found by its name.
LEMMA ConvertedAt ==
  ASSUME NEW t, IsTable(t), NEW map, NEW c \in ColumnNames(t)
  PROVE  Converted(t, map)[ColumnIndex(t, c)] = IF c \in DOMAIN map THEN map[c] ELSE Null
<1> DEFINE i == ColumnIndex(t, c)
<1>1. i \in 1 .. Width(t) /\ t.columns[i].name = c
  BY ColumnFound
<1> HIDE DEF i
<1>2. Converted(t, map)[i] = LET d == t.columns[i].name
                             IN  IF d \in DOMAIN map /\ ColumnIndex(t, d) = i THEN map[d] ELSE Null
  BY <1>1 DEF Converted
<1> QED BY <1>1, <1>2 DEF i

\* What the relation of a table is made of.
LEMMA RelationParts ==
  ASSUME NEW t, TableInv(t)
  PROVE  LET r == AsRelation(t)
         IN  /\ r = Abstract!Relation(ColumnNames(t), r.rows, t.nextId)
             /\ r.exists = TRUE /\ r.columns = ColumnNames(t) /\ r.next = t.nextId
             /\ DOMAIN r.rows = {t.ids[p] : p \in Rows(t)}
             /\ r.rows = [id \in DOMAIN r.rows |-> r.rows[id]]
             /\ \A p \in Rows(t) : r.rows[t.ids[p]] = RowMap(t, p)
<1> DEFINE r == AsRelation(t)
           Row(id) == RowMap(t, CHOOSE p \in Rows(t) : t.ids[p] = id)
           ids == {t.ids[p] : p \in Rows(t)}
<1>1. IsTable(t) /\ IdsDiffer(t)
  BY DEF TableInv
<1>2. t.exists = TRUE /\ t.ids \in Seq(Automatic) /\ Rows(t) = 1 .. Len(t.ids)
  <2>1. t.ids \in Seq(Automatic)
    BY <1>1 DEF IsTable
  <2> QED BY <1>1, <2>1, Fields
<1>3. Range(t.ids) = ids
  BY <1>2 DEF Range
<1>4. r = Abstract!Relation(ColumnNames(t), [id \in ids |-> Row(id)], t.nextId)
  BY <1>2, <1>3 DEF AsRelation, Abstract!Relation
<1>5. ASSUME NEW p \in Rows(t)
      PROVE  Row(t.ids[p]) = RowMap(t, p)
  <2>1. \A q \in Rows(t) : t.ids[q] = t.ids[p] => q = p
    BY <1>1 DEF IdsDiffer
  <2>2. (CHOOSE q \in Rows(t) : t.ids[q] = t.ids[p]) = p
    BY <2>1
  <2> QED BY <2>2
<1> HIDE DEF ids, Row, r
<1>6. /\ r.exists = TRUE /\ r.columns = ColumnNames(t) /\ r.next = t.nextId
      /\ r.rows = [id \in ids |-> Row(id)]
  BY <1>4 DEF Abstract!Relation
<1>7. \A p \in Rows(t) : t.ids[p] \in ids
  BY DEF ids
<1>8. DOMAIN r.rows = ids /\ r.rows = [id \in DOMAIN r.rows |-> r.rows[id]]
      /\ \A id \in ids : r.rows[id] = Row(id)
  BY <1>6
<1>9. \A p \in Rows(t) : r.rows[t.ids[p]] = RowMap(t, p)
  BY <1>5, <1>7, <1>8
<1> QED BY <1>4, <1>6, <1>8, <1>9 DEF ids, r

\* A relation is that of a table when it has its columns, its rows under their
\* ids, and its next id.
LEMMA RelationIs ==
  ASSUME NEW t, TableInv(t), NEW rows, rows = [id \in DOMAIN rows |-> rows[id]],
         DOMAIN rows = {t.ids[p] : p \in Rows(t)},
         \A p \in Rows(t) : rows[t.ids[p]] = RowMap(t, p)
  PROVE  AsRelation(t) = Abstract!Relation(ColumnNames(t), rows, t.nextId)
<1> DEFINE r == AsRelation(t)
           others == r.rows
           ids == {t.ids[p] : p \in Rows(t)}
<1>1. /\ r = Abstract!Relation(ColumnNames(t), others, t.nextId)
      /\ DOMAIN others = ids /\ others = [id \in DOMAIN others |-> others[id]]
      /\ \A p \in Rows(t) : others[t.ids[p]] = RowMap(t, p)
  BY RelationParts
<1> HIDE DEF r, others
<1>2. \A id \in ids : rows[id] = others[id]
  BY <1>1
<1>3. DOMAIN rows = ids
  OBVIOUS
<1> HIDE DEF ids
<1>4. rows = [id \in ids |-> rows[id]] /\ others = [id \in ids |-> others[id]]
  BY <1>1, <1>3
<1>5. rows = others
  BY <1>2, <1>4
<1> QED BY <1>1, <1>5 DEF r

\* Tables with the same rows stand for one relation.
LEMMA SameRelation ==
  ASSUME NEW t, TableInv(t), NEW u, TableInv(u), SameRows(t, u)
  PROVE  AsRelation(u) = AsRelation(t)
<1> DEFINE r == AsRelation(t)
           rows == r.rows
<1>1. /\ r = Abstract!Relation(ColumnNames(t), rows, t.nextId)
      /\ DOMAIN rows = {t.ids[p] : p \in Rows(t)} /\ rows = [id \in DOMAIN rows |-> rows[id]]
      /\ \A p \in Rows(t) : rows[t.ids[p]] = RowMap(t, p)
  BY RelationParts
<1>2. u.ids = t.ids /\ u.columns = t.columns /\ u.nextId = t.nextId /\ Rows(u) = Rows(t)
      /\ ColumnNames(u) = ColumnNames(t)
  BY SameColumns DEF SameRows, Rows
<1>3. \A p : RowMap(u, p) = RowMap(t, p)
  BY SameFound
<1> HIDE DEF r, rows
<1>4. AsRelation(u) = Abstract!Relation(ColumnNames(u), rows, u.nextId)
  BY <1>1, <1>2, <1>3, RelationIs
<1> QED BY <1>1, <1>2, <1>4 DEF r

\* Tables and relations are there together.
LEMMA AsManyRelations ==
  ASSUME NEW ts, TablesInv(ts)
  PROVE  LET rs == AsRelations(ts)
         IN  /\ DOMAIN rs = Names /\ rs = [n \in Names |-> rs[n]]
             /\ \A n \in Names : /\ rs[n] = AsRelation(ts[n]) /\ rs[n].exists = ts[n].exists
                                 /\ ~ts[n].exists => rs[n] = NoTable /\ ts[n] = NoTable
                                 /\ ts[n].exists => TableInv(ts[n])
<1> DEFINE rs == AsRelations(ts)
<1>1. DOMAIN rs = Names /\ rs = [n \in Names |-> rs[n]]
      /\ \A n \in Names : rs[n] = AsRelation(ts[n])
  BY DEF AsRelations
<1> HIDE DEF rs
<1>2. ASSUME NEW n \in Names
      PROVE  /\ rs[n].exists = ts[n].exists
             /\ ~ts[n].exists => rs[n] = NoTable /\ ts[n] = NoTable
             /\ ts[n].exists => TableInv(ts[n])
  <2>1. CASE ts[n] = NoTable
    <3>1. NoTable.exists = FALSE
      BY DEF NoTable
    <3>2. AsRelation(ts[n]) = NoTable
      BY <2>1, <3>1 DEF AsRelation
    <3> QED BY <1>1, <2>1, <3>1, <3>2
  <2>2. CASE TableInv(ts[n])
    <3>1. AsRelation(ts[n]).exists = TRUE
      BY <2>2, RelationParts
    <3>2. ts[n].exists = TRUE
      BY <2>2, Fields DEF TableInv
    <3> QED BY <1>1, <2>2, <3>1, <3>2
  <2> QED BY <2>1, <2>2 DEF TablesInv
<1> QED BY <1>1, <1>2 DEF rs

\* A table put under a name is a relation put under it.
LEMMA BecomesOne ==
  ASSUME NEW e, EffectInv(e), NEW n \in Names, NEW u
  PROVE  AsRelations(Holding(e, n, u)) = [AsRelations(e.tables) EXCEPT ![n] = AsRelation(u)]
<1> DEFINE ts == Holding(e, n, u)
           rs == AsRelations(e.tables)
<1>1. DOMAIN e.tables = Names
  BY DEF EffectInv, TablesInv
<1>2. \A o \in Names : ts[o] = IF o = n THEN u ELSE e.tables[o]
  BY <1>1 DEF Holding
<1>3. rs = [o \in Names |-> AsRelation(e.tables[o])]
  BY DEF AsRelations
<1> HIDE DEF ts, rs
<1>4. AsRelations(ts) = [o \in Names |-> AsRelation(ts[o])]
  BY DEF AsRelations
<1>5. [rs EXCEPT ![n] = AsRelation(u)]
        = [o \in Names |-> IF o = n THEN AsRelation(u) ELSE AsRelation(e.tables[o])]
  BY <1>3
<1> QED BY <1>2, <1>4, <1>5 DEF ts, rs

\* CREATE TABLE: no rows, and the names of the columns.
LEMMA NewRelation ==
  ASSUME NEW columns \in Seq(Columns)
  PROVE  AsRelation(NewTable(columns))
           = Abstract!Relation({columns[i].name : i \in DOMAIN columns}, <<>>, 0)
<1> DEFINE t == NewTable(columns)
           rows == <<>>
<1>1. TableInv(t)
  BY NewInv
<1>2. t.columns = columns /\ t.ids = <<>> /\ t.nextId = 0
  BY DEF NewTable
<1>3. Rows(t) = {}
  <2>1. Len(<<>>) = 0 /\ 1 .. 0 = {}
    OBVIOUS
  <2> HIDE DEF t
  <2> QED BY <1>2, <2>1 DEF Rows
<1>4. ColumnNames(t) = {columns[i].name : i \in DOMAIN columns}
  <2>1. DOMAIN columns = 1 .. Len(columns)
    OBVIOUS
  <2> HIDE DEF t
  <2> QED BY <1>2, <2>1 DEF ColumnNames, Width
<1>5. DOMAIN rows = {} /\ rows = [id \in DOMAIN rows |-> rows[id]]
  OBVIOUS
<1> HIDE DEF t, rows
<1>6. DOMAIN rows = {t.ids[p] : p \in Rows(t)} /\ \A p \in Rows(t) : rows[t.ids[p]] = RowMap(t, p)
  BY <1>3, <1>5
<1>7. AsRelation(t) = Abstract!Relation(ColumnNames(t), rows, t.nextId)
  BY <1>1, <1>5, <1>6, RelationIs
<1> QED BY <1>2, <1>4, <1>7 DEF t, rows

\* ALTER TABLE: the new column is the last, and hides one of its name.
LEMMA WiderColumns ==
  ASSUME NEW t, IsTable(t), NEW column, NEW u, IsTable(u),
         u.columns = Append(t.columns, column)
  PROVE  /\ ColumnNames(u) = ColumnNames(t) \cup {column.name}
         /\ ColumnIndex(u, column.name) = Width(t) + 1
         /\ \A c \in ColumnNames(t) : c # column.name => ColumnIndex(u, c) = ColumnIndex(t, c)
<1> DEFINE w == Width(t)
<1>1. t.columns \in Seq(Columns) /\ w = Len(t.columns) /\ w \in Nat
  <2>1. t.columns \in Seq(Columns)
    BY DEF IsTable
  <2> QED BY <2>1, Fields DEF Width
<1>2. /\ Width(u) = w + 1
      /\ \A i \in 1 .. w + 1 : u.columns[i] = IF i = w + 1 THEN column ELSE t.columns[i]
  BY <1>1 DEF Width
<1>3. (1 .. w + 1) = (1 .. w) \cup {w + 1} /\ w + 1 \notin 1 .. w
  BY <1>1
<1> HIDE DEF w
<1>4. /\ \A i \in 1 .. w : u.columns[i].name = t.columns[i].name
      /\ u.columns[w + 1].name = column.name
  BY <1>2, <1>3
<1>5. ColumnNames(u) = ColumnNames(t) \cup {column.name}
  <2>1. ColumnNames(u) = {u.columns[i].name : i \in 1 .. w + 1}
    BY <1>2 DEF ColumnNames
  <2>2. ColumnNames(t) = {t.columns[i].name : i \in 1 .. w}
    BY DEF ColumnNames, w
  <2>3. \A c : c \in ColumnNames(u) <=> \E i \in 1 .. w + 1 : u.columns[i].name = c
    BY <2>1
  <2>4. \A c : c \in ColumnNames(t) <=> \E i \in 1 .. w : t.columns[i].name = c
    BY <2>2
  <2>5. ASSUME NEW c
        PROVE  c \in ColumnNames(u) <=> c \in ColumnNames(t) \cup {column.name}
    BY <1>3, <1>4, <2>3, <2>4
  <2> QED BY <2>5
<1>6. ColumnIndex(u, column.name) = w + 1
  <2> DEFINE i == ColumnIndex(u, column.name)
  <2>1. i \in 1 .. w + 1 /\ \A j \in 1 .. w + 1 : u.columns[j].name = column.name => j <= i
    BY <1>2, <1>5, ColumnFound
  <2>2. w + 1 <= i
    BY <1>3, <1>4, <2>1
  <2> HIDE DEF i
  <2>3. i = w + 1
    BY <1>1, <2>1, <2>2 DEF w
  <2> QED BY <2>3 DEF i
<1>7. ASSUME NEW c \in ColumnNames(t), c # column.name
      PROVE  ColumnIndex(u, c) = ColumnIndex(t, c)
  <2> DEFINE i == ColumnIndex(u, c)
             j == ColumnIndex(t, c)
  <2>1. i \in 1 .. w + 1 /\ u.columns[i].name = c
        /\ \A k \in 1 .. w + 1 : u.columns[k].name = c => k <= i
    BY <1>2, <1>5, ColumnFound
  <2>2. j \in 1 .. w /\ t.columns[j].name = c
        /\ \A k \in 1 .. w : t.columns[k].name = c => k <= j
    BY ColumnFound DEF w
  <2> HIDE DEF i, j
  <2>3. j <= i
    BY <1>3, <1>4, <2>1, <2>2
  <2>4. i \in 1 .. w
    BY <1>3, <1>4, <1>7, <2>1
  <2>5. i <= j
    BY <1>4, <2>1, <2>2, <2>4
  <2>6. i = j
    BY <1>1, <2>2, <2>3, <2>4, <2>5 DEF w
  <2> QED BY <2>6 DEF i, j
<1> QED BY <1>5, <1>6, <1>7 DEF w

\* A row of the wider table.
LEMMA AlterRelation ==
  ASSUME NEW t, TableInv(t), NEW column \in Columns
  PROVE  LET r == AsRelation(t)
             names == r.columns \cup {column.name}
         IN  AsRelation(WithColumn(t, column)) =
               Abstract!Relation(names,
                 [id \in DOMAIN r.rows |-> Abstract!Over([c \in names |-> Null],
                    [c \in r.columns \ {column.name} |-> r.rows[id][c]])],
                 r.next)
<1> DEFINE u == WithColumn(t, column)
           r == AsRelation(t)
           w == Width(t)
           names == r.columns \cup {column.name}
           Row(id) == Abstract!Over([c \in names |-> Null],
                                    [c \in r.columns \ {column.name} |-> r.rows[id][c]])
           rows == [id \in DOMAIN r.rows |-> Row(id)]
<1>1. /\ TableInv(u) /\ u.ids = t.ids /\ u.nextId = t.nextId
      /\ u.columns = Append(t.columns, column)
      /\ \A p \in Rows(t), i \in 1 .. w + 1 :
           Cell(u, p, i) = IF i = w + 1 THEN Null ELSE Cell(t, p, i)
  BY WithColumnInv
<1> HIDE DEF u, r
<1>2. /\ r.columns = ColumnNames(t) /\ r.next = t.nextId
      /\ DOMAIN r.rows = {t.ids[p] : p \in Rows(t)}
      /\ \A p \in Rows(t) : r.rows[t.ids[p]] = RowMap(t, p)
  BY RelationParts DEF r
<1>3. IsTable(t) /\ IsTable(u)
  BY <1>1 DEF TableInv
<1>4. /\ ColumnNames(u) = names
      /\ ColumnIndex(u, column.name) = w + 1
      /\ \A c \in ColumnNames(t) : c # column.name => ColumnIndex(u, c) = ColumnIndex(t, c)
  BY <1>1, <1>2, <1>3, WiderColumns
<1>5. Rows(u) = Rows(t)
  BY <1>1 DEF Rows
<1>6. w \in Nat
  BY <1>3, Fields
<1>7. ASSUME NEW p \in Rows(t)
      PROVE  rows[t.ids[p]] = RowMap(u, p)
  <2>1. rows[t.ids[p]] = Row(t.ids[p])
    BY <1>2
  <2>2. Row(t.ids[p]) = [c \in names |-> IF c # column.name THEN RowMap(t, p)[c] ELSE Null]
    BY <1>2 DEF Abstract!Over
  <2>3. ASSUME NEW c \in names
        PROVE  Cell(u, p, ColumnIndex(u, c)) = IF c # column.name THEN RowMap(t, p)[c] ELSE Null
    <3>1. CASE c = column.name
      BY <1>1, <1>4, <1>6, <3>1
    <3>2. CASE c # column.name
      <4>1. c \in ColumnNames(t)
        BY <1>2, <3>2
      <4>2. ColumnIndex(t, c) \in 1 .. w
        BY <1>3, <4>1, ColumnFound
      <4>3. ColumnIndex(t, c) \in 1 .. w + 1 /\ ColumnIndex(t, c) # w + 1
        BY <1>6, <4>2
      <4> QED BY <1>1, <1>4, <3>2, <4>1, <4>3 DEF RowMap
    <3> QED BY <3>1, <3>2
  <2> HIDE DEF names, rows, Row
  <2> QED BY <1>4, <2>1, <2>2, <2>3 DEF RowMap
<1>8. DOMAIN rows = DOMAIN r.rows /\ rows = [id \in DOMAIN rows |-> rows[id]]
  OBVIOUS
<1> HIDE DEF rows, names
<1>9. AsRelation(u) = Abstract!Relation(ColumnNames(u), rows, u.nextId)
  BY <1>1, <1>2, <1>5, <1>7, <1>8, RelationIs
<1> QED BY <1>1, <1>2, <1>4, <1>9 DEF u, r, rows, names

\* INSERT: rows with the cells of the maps, under the next ids.
LEMMA InsertRelation ==
  ASSUME NEW t, TableInv(t), NEW u, NEW rows, NEW maps, NEW k \in Nat, Len(maps) = k,
         AppendedTo(t, u, rows, k),
         \A r \in 1 .. k : \A c \in ColumnNames(t) :
           rows[r][ColumnIndex(t, c)] = IF c \in DOMAIN maps[r] THEN maps[r][c] ELSE Null
  PROVE  AsRelation(u) = Abstract!Extended(AsRelation(t), maps)
<1> DEFINE a == AsRelation(t)
           n == Len(t.ids)
           w == Width(t)
           next == t.nextId
           fresh == next .. next + k - 1
           Fresh1(id) == Abstract!Over(Abstract!Blank(a), maps[id - next + 1])
           rs == [id \in DOMAIN a.rows \cup fresh |->
                    IF id \in fresh THEN Fresh1(id) ELSE a.rows[id]]
<1>1. IsTable(t) /\ n \in Nat /\ Rows(t) = 1 .. n /\ next \in Nat
      /\ \A p \in 1 .. n : t.ids[p] \in Nat /\ t.ids[p] < next
  <2>1. IsTable(t)
    BY DEF TableInv
  <2>2. n \in Nat /\ Rows(t) = 1 .. n /\ MaxIds \in Nat /\ \A p \in 1 .. n : t.ids[p] \in Automatic
    BY <2>1, Fields
  <2>3. next \in 0 .. MaxIds
    BY <2>1 DEF IsTable
  <2>4. \A p \in Rows(t) : t.ids[p] < next
    BY DEF TableInv, IdsDiffer
  <2> QED BY <2>1, <2>2, <2>3, <2>4 DEF Automatic
<1>2. /\ a.columns = ColumnNames(t) /\ a.next = next
      /\ DOMAIN a.rows = {t.ids[p] : p \in Rows(t)}
      /\ \A p \in Rows(t) : a.rows[t.ids[p]] = RowMap(t, p)
  BY RelationParts
<1>3. Abstract!Extended(a, maps) = Abstract!Relation(a.columns, rs, next + k)
  BY <1>2 DEF Abstract!Extended
<1> HIDE DEF a, n, w, next
<1>4. /\ TableInv(u) /\ u.columns = t.columns
      /\ u.nextId = next + k /\ Len(u.ids) = n + k
      /\ \A p \in Rows(t) : u.ids[p] = t.ids[p]
      /\ \A p \in Rows(t), i \in 1 .. w : Cell(u, p, i) = Cell(t, p, i)
      /\ \A r \in 1 .. k : u.ids[n + r] = next + r - 1
      /\ \A r \in 1 .. k, i \in 1 .. w : Cell(u, n + r, i) = rows[r][i]
  BY DEF AppendedTo, next, n, w
<1>5. /\ ColumnNames(u) = ColumnNames(t)
      /\ \A c : ColumnIndex(u, c) = ColumnIndex(t, c)
  BY <1>4, SameColumns
<1>6. Rows(u) = 1 .. n + k
  BY <1>4 DEF Rows
<1>7. \A p \in 1 .. n + k : p \in 1 .. n \/ (p - n \in 1 .. k /\ p = n + (p - n))
  BY <1>1
<1>8. \A r \in 1 .. k : n + r \in 1 .. n + k
  BY <1>1
<1>9. \A c \in ColumnNames(t) : ColumnIndex(t, c) \in 1 .. w
  BY <1>1, ColumnFound DEF w
<1>10. DOMAIN rs = {u.ids[p] : p \in Rows(u)}
  <2>1. \A id \in fresh : id - next + 1 \in 1 .. k /\ id = next + (id - next + 1) - 1
    BY <1>1
  <2>2. \A r \in 1 .. k : next + r - 1 \in fresh
    BY <1>1
  <2>3. \A p \in 1 .. n : p \in 1 .. n + k
    BY <1>1
  <2> DEFINE ids == {u.ids[p] : p \in Rows(u)}
             old == {t.ids[p] : p \in Rows(t)}
  <2> HIDE DEF fresh
  <2>4. \A id \in fresh : id \in ids
    <3>1. ASSUME NEW id \in fresh  PROVE \E p \in Rows(u) : u.ids[p] = id
      <4> DEFINE r == id - next + 1
      <4>1. r \in 1 .. k /\ id = next + r - 1
        BY <2>1
      <4> HIDE DEF r
      <4> QED BY <1>4, <1>6, <1>8, <4>1
    <3> QED BY <3>1
  <2>5. \A id \in old : id \in ids
    BY <1>1, <1>4, <1>6, <2>3
  <2>6. ASSUME NEW p \in Rows(u)
        PROVE  u.ids[p] \in old \cup fresh
    <3>1. CASE p \in 1 .. n
      BY <1>1, <1>4, <3>1
    <3>2. CASE p \notin 1 .. n
      <4> DEFINE r == p - n
      <4>1. r \in 1 .. k /\ p = n + r
        BY <1>6, <1>7, <3>2
      <4> HIDE DEF r
      <4> QED BY <1>4, <2>2, <4>1
    <3> QED BY <3>1, <3>2
  <2>7. DOMAIN rs = old \cup fresh
    BY <1>2
  <2> HIDE DEF old, rs
  <2> QED BY <2>4, <2>5, <2>6, <2>7
<1>11. ASSUME NEW p \in Rows(u)
       PROVE  rs[u.ids[p]] = RowMap(u, p)
  <2>1. rs[u.ids[p]] = IF u.ids[p] \in fresh THEN Fresh1(u.ids[p]) ELSE a.rows[u.ids[p]]
    BY <1>10
  <2>2. CASE p \in 1 .. n
    <3>1. u.ids[p] = t.ids[p] /\ u.ids[p] \notin fresh
      <4>1. u.ids[p] = t.ids[p] /\ t.ids[p] \in Nat /\ t.ids[p] < next
        BY <1>1, <1>4, <2>2
      <4>2. \A id \in fresh : next <= id
        BY <1>1
      <4> HIDE DEF fresh
      <4> QED BY <1>1, <4>1, <4>2
    <3>2. rs[u.ids[p]] = RowMap(t, p)
      BY <1>1, <1>2, <2>1, <2>2, <3>1
    <3>3. \A c \in ColumnNames(t) : Cell(u, p, ColumnIndex(u, c)) = Cell(t, p, ColumnIndex(t, c))
      BY <1>1, <1>4, <1>5, <1>9, <2>2
    <3> HIDE DEF rs
    <3> QED BY <1>5, <3>2, <3>3 DEF RowMap
  <2>3. CASE p \notin 1 .. n
    <3> DEFINE r == p - n
    <3>1. r \in 1 .. k /\ p = n + r
      BY <1>6, <1>7, <2>3
    <3> HIDE DEF r
    <3>2. u.ids[p] \in fresh /\ u.ids[p] - next + 1 = r
      <4> DEFINE x == next + r - 1
      <4>1. u.ids[p] = x
        BY <1>4, <3>1
      <4>2. x \in fresh /\ x - next + 1 = r
        BY <1>1, <3>1
      <4> HIDE DEF x, fresh
      <4> QED BY <4>1, <4>2
    <3>3. rs[u.ids[p]] = Abstract!Over(Abstract!Blank(a), maps[r])
      BY <2>1, <3>2
    <3>4. Abstract!Over(Abstract!Blank(a), maps[r])
            = [c \in ColumnNames(t) |-> IF c \in DOMAIN maps[r] THEN maps[r][c] ELSE Null]
      BY <1>2 DEF Abstract!Over, Abstract!Blank
    <3>5. \A c \in ColumnNames(t) : Cell(u, p, ColumnIndex(u, c)) = rows[r][ColumnIndex(t, c)]
      BY <1>4, <1>5, <1>9, <3>1
    <3> HIDE DEF rs
    <3> QED BY <1>5, <3>1, <3>3, <3>4, <3>5 DEF RowMap
  <2> QED BY <2>2, <2>3
<1>12. rs = [id \in DOMAIN rs |-> rs[id]]
  OBVIOUS
<1> HIDE DEF rs
<1>13. AsRelation(u) = Abstract!Relation(ColumnNames(u), rs, u.nextId)
  BY <1>4, <1>10, <1>11, <1>12, RelationIs
<1> QED BY <1>2, <1>3, <1>4, <1>5, <1>13 DEF a

\* The ids a condition holds for are those of the rows found.
LEMMA MatchingFound ==
  ASSUME NEW t, TableInv(t), NEW clause
  PROVE  Abstract!Matching(AsRelation(t), clause) = {t.ids[p] : p \in Found(t, clause)}
<1> DEFINE a == AsRelation(t)
           F == Found(t, clause)
<1>1. /\ a.columns = ColumnNames(t)
      /\ DOMAIN a.rows = {t.ids[p] : p \in Rows(t)}
      /\ \A p \in Rows(t) : a.rows[t.ids[p]] = RowMap(t, p)
  BY RelationParts
<1>2. F \subseteq Rows(t)
  BY FoundRows
<1>3. DeclaresId(t) <=> "id" \in a.columns
  BY <1>1 DEF DeclaresId
<1> HIDE DEF a
<1>4. ASSUME NEW p \in Rows(t)
      PROVE  Abstract!Holds(a, t.ids[p], clause) <=> p \in F
  <2>1. CASE clause = NoClause
    BY <2>1 DEF Abstract!Holds, Found
  <2>2. CASE clause # NoClause /\ clause.column = "id" /\ ~DeclaresId(t)
    <3>1. Abstract!Holds(a, t.ids[p], clause) <=> clause.value = t.ids[p]
      BY <1>1, <1>3, <2>2 DEF Abstract!Holds
    <3>2. F = {Get(t, clause.value)} \ {0}
      BY <2>2 DEF Found
    <3>3. Get(t, t.ids[p]) = p /\ p # 0
      <4>1. IsTable(t)
        BY DEF TableInv
      <4>2. Rows(t) = 1 .. Len(t.ids) /\ Len(t.ids) \in Nat
        BY <4>1, Fields
      <4> QED BY <4>2, GetFinds
    <3>4. Get(t, clause.value) = p => t.ids[p] = clause.value
      BY <3>3, GetFinds
    <3> HIDE DEF F
    <3> QED BY <3>1, <3>2, <3>3, <3>4
  <2>3. CASE clause # NoClause /\ ~(clause.column = "id" /\ ~DeclaresId(t))
    <3>1. Abstract!Holds(a, t.ids[p], clause)
            <=> clause.column \in ColumnNames(t) /\ RowMap(t, p)[clause.column] = clause.value
      BY <1>1, <1>3, <2>3 DEF Abstract!Holds
    <3>2. p \in F <=> /\ clause.column \in ColumnNames(t)
                      /\ Cell(t, p, ColumnIndex(t, clause.column)) = clause.value
      BY <2>3 DEF Found
    <3> HIDE DEF F
    <3> QED BY <3>1, <3>2 DEF RowMap
  <2> QED BY <2>1, <2>2, <2>3
<1> HIDE DEF F
<1>5. Abstract!Matching(a, clause) = {id \in DOMAIN a.rows : Abstract!Holds(a, id, clause)}
  BY DEF Abstract!Matching
<1>6. \A id : id \in Abstract!Matching(a, clause) <=> \E p \in F : id = t.ids[p]
  BY <1>1, <1>2, <1>4, <1>5
<1> QED BY <1>6 DEF a, F

\* Only the rows of a relation change.
LEMMA OtherRows ==
  ASSUME NEW columns, NEW old, NEW next, NEW r, r = Abstract!Relation(columns, old, next)
  PROVE  /\ \A ids, cells : Abstract!Assigned(r, ids, cells) =
              Abstract!Relation(columns,
                [id \in DOMAIN old |->
                   IF id \in ids THEN Abstract!Over(old[id], cells) ELSE old[id]],
                next)
         /\ \A ids : Abstract!Without(r, ids) =
              Abstract!Relation(columns, [id \in DOMAIN old \ ids |-> old[id]], next)
<1>1. ASSUME NEW rows
      PROVE  [r EXCEPT !.rows = rows] = Abstract!Relation(columns, rows, next)
  <2> DEFINE f == [r EXCEPT !.rows = rows]
             g == Abstract!Relation(columns, rows, next)
  <2>1. f \in [exists : {TRUE}, columns : {columns}, rows : {rows}, next : {next}]
    BY DEF Abstract!Relation
  <2> HIDE DEF f
  <2>2. f = g
    BY <2>1 DEF Abstract!Relation
  <2> QED BY <2>2 DEF f
<1>2. r.rows = old
  BY DEF Abstract!Relation
<1>3. ASSUME NEW ids, NEW cells
      PROVE  Abstract!Assigned(r, ids, cells) =
               Abstract!Relation(columns,
                 [id \in DOMAIN old |->
                    IF id \in ids THEN Abstract!Over(old[id], cells) ELSE old[id]],
                 next)
  BY <1>1, <1>2 DEF Abstract!Assigned
<1>4. ASSUME NEW ids
      PROVE  Abstract!Without(r, ids) =
               Abstract!Relation(columns, [id \in DOMAIN old \ ids |-> old[id]], next)
  BY <1>1, <1>2 DEF Abstract!Without
<1> QED BY <1>3, <1>4

\* UPDATE: the cells are assigned to the rows at some positions.
LEMMA UpdateRelation ==
  ASSUME NEW t, TableInv(t), NEW u, NEW P, P \subseteq Rows(t), NEW cells, Written(t, u, P, cells)
  PROVE  AsRelation(u) = Abstract!Assigned(AsRelation(t), {t.ids[p] : p \in P}, cells)
<1> DEFINE a == AsRelation(t)
           old == a.rows
           ids == {t.ids[p] : p \in P}
           rs == [id \in DOMAIN old |->
                    IF id \in ids THEN Abstract!Over(old[id], cells) ELSE old[id]]
<1>1. /\ a = Abstract!Relation(ColumnNames(t), old, t.nextId)
      /\ DOMAIN old = {t.ids[p] : p \in Rows(t)}
      /\ \A p \in Rows(t) : old[t.ids[p]] = RowMap(t, p)
  BY RelationParts
<1> HIDE DEF a, old
<1>2. Abstract!Assigned(a, ids, cells) = Abstract!Relation(ColumnNames(t), rs, t.nextId)
  BY <1>1, OtherRows
<1>3. /\ TableInv(u) /\ u.columns = t.columns /\ u.ids = t.ids /\ u.nextId = t.nextId
      /\ \A q \in Rows(t), j \in 1 .. Width(t) :
           Cell(u, q, j) = IF q \in P THEN Converted(t, NewCells(t, q, cells))[j] ELSE Cell(t, q, j)
  BY DEF Written
<1>4. ColumnNames(u) = ColumnNames(t) /\ Rows(u) = Rows(t)
      /\ \A c : ColumnIndex(u, c) = ColumnIndex(t, c)
  BY <1>3, SameColumns DEF Rows
<1>5. IsTable(t) /\ IdsDiffer(t)
  BY DEF TableInv
<1>6. \A c \in ColumnNames(t) : ColumnIndex(t, c) \in 1 .. Width(t)
  BY <1>5, ColumnFound
<1>7. ASSUME NEW p \in Rows(t)
      PROVE  rs[t.ids[p]] = RowMap(u, p)
  <2>1. t.ids[p] \in ids <=> p \in P
    BY <1>5 DEF IdsDiffer
  <2>2. rs[t.ids[p]] = IF p \in P THEN Abstract!Over(RowMap(t, p), cells) ELSE RowMap(t, p)
    BY <1>1, <2>1
  <2> HIDE DEF rs, ids
  <2>3. CASE p \in P
    <3> DEFINE map == NewCells(t, p, cells)
    <3>1. Abstract!Over(RowMap(t, p), cells)
            = [c \in ColumnNames(t) |-> IF c \in DOMAIN cells THEN cells[c] ELSE RowMap(t, p)[c]]
      BY DEF Abstract!Over, RowMap
    <3>2. ASSUME NEW c \in ColumnNames(t)
          PROVE  Cell(u, p, ColumnIndex(u, c))
                   = IF c \in DOMAIN cells THEN cells[c] ELSE RowMap(t, p)[c]
      <4>1. Cell(u, p, ColumnIndex(u, c)) = Converted(t, map)[ColumnIndex(t, c)]
        BY <1>3, <1>4, <1>6, <2>3
      <4>2. DOMAIN RowMap(t, p) = ColumnNames(t)
        BY DEF RowMap
      <4>3. c \in DOMAIN map /\ map[c] = IF c \in DOMAIN cells THEN cells[c] ELSE RowMap(t, p)[c]
        BY <4>2 DEF NewCells, Merged
      <4> HIDE DEF map
      <4>4. Converted(t, map)[ColumnIndex(t, c)] = map[c]
        BY <1>5, <4>3, ConvertedAt
      <4> QED BY <4>1, <4>3, <4>4
    <3>3. RowMap(u, p) = [c \in ColumnNames(t) |-> Cell(u, p, ColumnIndex(u, c))]
      BY <1>4 DEF RowMap
    <3> QED BY <2>2, <2>3, <3>1, <3>2, <3>3
  <2>4. CASE p \notin P
    <3>1. \A c \in ColumnNames(t) : Cell(u, p, ColumnIndex(u, c)) = Cell(t, p, ColumnIndex(t, c))
      BY <1>3, <1>4, <1>6, <2>4
    <3> QED BY <1>4, <2>2, <2>4, <3>1 DEF RowMap
  <2> QED BY <2>3, <2>4
<1>8. DOMAIN rs = DOMAIN old /\ rs = [id \in DOMAIN rs |-> rs[id]]
  OBVIOUS
<1> HIDE DEF rs, ids
<1>9. AsRelation(u) = Abstract!Relation(ColumnNames(u), rs, u.nextId)
  BY <1>1, <1>3, <1>4, <1>7, <1>8, RelationIs
<1> QED BY <1>2, <1>3, <1>4, <1>9 DEF a, ids

\* DELETE: the rows go, the others stay under their ids.
LEMMA DeleteRelation ==
  ASSUME NEW t, TableInv(t), NEW u, NEW D, D \subseteq Rows(t), Deleted(t, u, D)
  PROVE  AsRelation(u) = Abstract!Without(AsRelation(t), {t.ids[p] : p \in D})
<1> DEFINE a == AsRelation(t)
           old == a.rows
           ids == {t.ids[p] : p \in D}
           rs == [id \in DOMAIN old \ ids |-> old[id]]
<1>1. /\ a = Abstract!Relation(ColumnNames(t), old, t.nextId)
      /\ DOMAIN old = {t.ids[p] : p \in Rows(t)}
      /\ \A p \in Rows(t) : old[t.ids[p]] = RowMap(t, p)
  BY RelationParts
<1> HIDE DEF a, old
<1>2. Abstract!Without(a, ids) = Abstract!Relation(ColumnNames(t), rs, t.nextId)
  <2> HIDE DEF ids
  <2>1. Abstract!Without(a, ids) =
          Abstract!Relation(ColumnNames(t), [id \in DOMAIN old \ ids |-> old[id]], t.nextId)
    BY <1>1, OtherRows
  <2> QED BY <2>1
<1>3. /\ TableInv(u) /\ u.columns = t.columns /\ u.nextId = t.nextId
      /\ \A q \in Rows(u) : \E p \in Rows(t) \ D :
           u.ids[q] = t.ids[p] /\ \A i \in 1 .. Width(t) : Cell(u, q, i) = Cell(t, p, i)
      /\ \A p \in Rows(t) \ D : \E q \in Rows(u) : u.ids[q] = t.ids[p]
  BY DEF Deleted
<1>4. ColumnNames(u) = ColumnNames(t) /\ \A c : ColumnIndex(u, c) = ColumnIndex(t, c)
  BY <1>3, SameColumns
<1>5. IsTable(t) /\ IdsDiffer(t)
  BY DEF TableInv
<1>6. \A c \in ColumnNames(t) : ColumnIndex(t, c) \in 1 .. Width(t)
  BY <1>5, ColumnFound
<1>7. \A p \in Rows(t) : t.ids[p] \in ids <=> p \in D
  BY <1>5 DEF IdsDiffer
<1>8. DOMAIN rs = DOMAIN old \ ids /\ rs = [id \in DOMAIN rs |-> rs[id]]
      /\ \A id \in DOMAIN old \ ids : rs[id] = old[id]
  OBVIOUS
<1> HIDE DEF rs, ids
<1>9. DOMAIN rs = {u.ids[q] : q \in Rows(u)}
  <2>1. \A id : id \in DOMAIN old \ ids <=> \E p \in Rows(t) \ D : id = t.ids[p]
    BY <1>1, <1>7
  <2>2. \A id : (\E p \in Rows(t) \ D : id = t.ids[p]) <=> \E q \in Rows(u) : id = u.ids[q]
    BY <1>3
  <2> QED BY <1>8, <2>1, <2>2
<1>10. ASSUME NEW q \in Rows(u)
       PROVE  rs[u.ids[q]] = RowMap(u, q)
  <2>1. PICK p \in Rows(t) \ D :
          u.ids[q] = t.ids[p] /\ \A i \in 1 .. Width(t) : Cell(u, q, i) = Cell(t, p, i)
    BY <1>3
  <2>2. rs[u.ids[q]] = RowMap(t, p)
    BY <1>1, <1>7, <1>8, <2>1
  <2>3. \A c \in ColumnNames(t) : Cell(u, q, ColumnIndex(u, c)) = Cell(t, p, ColumnIndex(t, c))
    BY <1>4, <1>6, <2>1
  <2> QED BY <1>4, <2>2, <2>3 DEF RowMap
<1>11. AsRelation(u) = Abstract!Relation(ColumnNames(u), rs, u.nextId)
  BY <1>3, <1>8, <1>9, <1>10, RelationIs
<1> QED BY <1>2, <1>3, <1>4, <1>11 DEF a, ids

\* SELECT: the rows returned are those the condition holds for.
LEMMA ReturnedRelation ==
  ASSUME NEW t, TableInv(t), NEW clause
  PROVE  Returned(t, clause) = {[id |-> id, row |-> AsRelation(t).rows[id]] :
                                  id \in Abstract!Matching(AsRelation(t), clause)}
<1> DEFINE a == AsRelation(t)
           M == Abstract!Matching(a, clause)
           F == Found(t, clause)
<1>1. \A p \in Rows(t) : a.rows[t.ids[p]] = RowMap(t, p)
  BY RelationParts
<1>2. M = {t.ids[p] : p \in F}
  BY MatchingFound
<1>3. F \subseteq Rows(t) /\ t.exists = TRUE
  BY FoundRows, Fields DEF TableInv
<1>4. Returned(t, clause) = {[id |-> t.ids[p], row |-> RowMap(t, p)] : p \in F}
  BY <1>3 DEF Returned
<1> HIDE DEF a, M, F
<1> DEFINE Pair(id) == [id |-> id, row |-> a.rows[id]]
<1>5. \A p \in F : [id |-> t.ids[p], row |-> RowMap(t, p)] = Pair(t.ids[p])
  BY <1>1, <1>3
<1> HIDE DEF Pair
<1>6. {[id |-> t.ids[p], row |-> RowMap(t, p)] : p \in F} = {Pair(id) : id \in M}
  BY <1>2, <1>5
<1> QED BY <1>4, <1>6 DEF Pair, a, M

\* The one cell that a change writes.
OneCell(change) == [c \in {change.column} |-> change.value]

\* update_batch_by_indices: one change is one row assigned to.
LEMMA WriteOneRelation ==
  ASSUME NEW t, TableInv(t), NEW change, change.column \in ColumnNames(t)
  PROVE  AsRelation(WriteOne(t, change)) =
           Abstract!Assigned(AsRelation(t), {change.id}, OneCell(change))
<1> DEFINE u == WriteOne(t, change)
           cells == OneCell(change)
           a == AsRelation(t)
           old == a.rows
           rs == [id \in DOMAIN old |->
                    IF id \in {change.id} THEN Abstract!Over(old[id], cells) ELSE old[id]]
<1>1. /\ a = Abstract!Relation(ColumnNames(t), old, t.nextId)
      /\ DOMAIN old = {t.ids[p] : p \in Rows(t)}
      /\ \A p \in Rows(t) : old[t.ids[p]] = RowMap(t, p)
  BY RelationParts
<1> HIDE DEF a, old
<1>2. Abstract!Assigned(a, {change.id}, cells) = Abstract!Relation(ColumnNames(t), rs, t.nextId)
  BY <1>1, OtherRows
<1>3. /\ Rewritten(t, u)
      /\ \A q \in Rows(t), j \in 1 .. Width(t) :
           Cell(u, q, j) = IF t.ids[q] = change.id /\ j = ColumnIndex(t, change.column)
                           THEN change.value ELSE Cell(t, q, j)
  BY WriteOneInv
<1> HIDE DEF u
<1>4. TableInv(u) /\ u.columns = t.columns /\ u.ids = t.ids /\ u.nextId = t.nextId
  BY <1>3 DEF Rewritten
<1>5. ColumnNames(u) = ColumnNames(t) /\ Rows(u) = Rows(t)
      /\ \A c : ColumnIndex(u, c) = ColumnIndex(t, c)
  BY <1>4, SameColumns DEF Rows
<1>6. IsTable(t)
  BY DEF TableInv
<1>7. \A c \in ColumnNames(t) : ColumnIndex(t, c) \in 1 .. Width(t)
                                /\ t.columns[ColumnIndex(t, c)].name = c
  BY <1>6, ColumnFound
<1>8. ASSUME NEW p \in Rows(t)
      PROVE  rs[t.ids[p]] = RowMap(u, p)
  <2>1. rs[t.ids[p]] = IF t.ids[p] = change.id THEN Abstract!Over(RowMap(t, p), cells)
                                               ELSE RowMap(t, p)
    BY <1>1
  <2>2. Abstract!Over(RowMap(t, p), cells)
          = [c \in ColumnNames(t) |-> IF c = change.column THEN change.value ELSE RowMap(t, p)[c]]
    BY DEF Abstract!Over, RowMap, OneCell
  <2>3. RowMap(u, p) = [c \in ColumnNames(t) |-> Cell(u, p, ColumnIndex(t, c))]
    BY <1>5 DEF RowMap
  <2>4. RowMap(t, p) = [c \in ColumnNames(t) |-> RowMap(t, p)[c]]
        /\ \A c \in ColumnNames(t) : RowMap(t, p)[c] = Cell(t, p, ColumnIndex(t, c))
    BY DEF RowMap
  <2>5. \A c \in ColumnNames(t) :
          ColumnIndex(t, c) = ColumnIndex(t, change.column) <=> c = change.column
    BY <1>7
  <2>6. \A c \in ColumnNames(t) :
          Cell(u, p, ColumnIndex(t, c)) =
            IF t.ids[p] = change.id /\ c = change.column THEN change.value ELSE RowMap(t, p)[c]
    BY <1>3, <1>7, <2>4, <2>5
  <2> HIDE DEF rs, cells
  <2>7. CASE t.ids[p] = change.id
    BY <2>1, <2>2, <2>3, <2>6, <2>7
  <2>8. CASE t.ids[p] # change.id
    BY <2>1, <2>3, <2>4, <2>6, <2>8
  <2> QED BY <2>7, <2>8
<1>9. DOMAIN rs = DOMAIN old /\ rs = [id \in DOMAIN rs |-> rs[id]]
  OBVIOUS
<1> HIDE DEF rs, cells
<1>10. AsRelation(u) = Abstract!Relation(ColumnNames(u), rs, u.nextId)
  BY <1>1, <1>4, <1>5, <1>8, <1>9, RelationIs
<1> QED BY <1>2, <1>4, <1>5, <1>10 DEF a, u, cells

\* The changes make u of the table under n, which is what is asked of it.
IndicesMake(e, n, changes, asked, u) ==
  /\ UpdateByIndices(e, n, changes) = Put(e, n, u) /\ Rewritten(e.tables[n], u)
  /\ AsRelation(u) = Abstract!AssignedEach(AsRelation(e.tables[n]), asked)

\* update_batch_by_indices: one row after the other is assigned to.
LEMMA IndicesRelation ==
  ASSUME NEW e, NEW n, TableInv(e.tables[n]), NEW changes, Len(changes) \in Nat,
         \A k \in 1 .. Len(changes) : changes[k].column \in ColumnNames(e.tables[n]),
         NEW asked, Len(asked) = Len(changes),
         \A k \in 1 .. Len(changes) :
           /\ asked[k].id = changes[k].id
           /\ asked[k].cells = OneCell(changes[k])
  PROVE  \E u : IndicesMake(e, n, changes, asked, u)
<1> DEFINE m == Len(changes)
           t == e.tables[n]
           start == AsRelation(t)
           Next1(r, k) == Abstract!Assigned(r, {asked[k].id}, asked[k].cells)
           Solves(f) == f = [k \in 0 .. m |-> IF k = 0 THEN start ELSE Next1(f[k - 1], k)]
           f == CHOOSE f : Solves(f)
<1>1. PICK done : /\ UpdateByIndices(e, n, changes) = Put(e, n, done[m])
                  /\ done[0] = t
                  /\ \A k \in 1 .. m : done[k] = WriteOne(done[k - 1], changes[k])
                  /\ \A k \in 0 .. m : Rewritten(t, done[k])
  BY IndicesReached
<1>2. Abstract!AssignedEach(start, asked) = f[m]
  BY DEF Abstract!AssignedEach
<1> DEFINE g == [k \in 0 .. m |-> AsRelation(done[k])]
<1>3. ASSUME NEW k \in 1 .. m
      PROVE  AsRelation(done[k]) = Next1(AsRelation(done[k - 1]), k)
  <2> DEFINE u == done[k - 1]
             change == changes[k]
  <2>1. Rewritten(t, u) /\ done[k] = WriteOne(u, change)
    <3>1. k - 1 \in 0 .. m
      OBVIOUS
    <3> QED BY <1>1, <3>1
  <2>2. TableInv(u) /\ change.column \in ColumnNames(u)
    <3>1. change.column \in ColumnNames(t)
      OBVIOUS
    <3> HIDE DEF t, u, change
    <3> QED BY <2>1, <3>1, SameColumns DEF Rewritten
  <2>3. asked[k].id = change.id /\ asked[k].cells = OneCell(change)
    OBVIOUS
  <2> HIDE DEF u, change
  <2>4. AsRelation(WriteOne(u, change)) =
          Abstract!Assigned(AsRelation(u), {change.id}, OneCell(change))
    BY <2>2, WriteOneRelation
  <2> QED BY <2>1, <2>3, <2>4 DEF u
<1> HIDE DEF Next1, start
<1>4. Solves(g)
  <2>1. ASSUME NEW k \in 0 .. m
        PROVE  AsRelation(done[k]) = IF k = 0 THEN start ELSE Next1(g[k - 1], k)
    <3>1. CASE k = 0
      BY <1>1, <3>1 DEF start
    <3>2. CASE k # 0
      <4>1. k \in 1 .. m /\ k - 1 \in 0 .. m
        BY <3>2
      <4>2. g[k - 1] = AsRelation(done[k - 1])
        BY <4>1
      <4> HIDE DEF g
      <4> QED BY <1>3, <3>2, <4>1, <4>2
    <3> QED BY <3>1, <3>2
  <2> QED BY <2>1
<1>5. Solves(f)
  <2> HIDE DEF Solves, g
  <2> QED BY <1>4
<1> HIDE DEF f, g
<1> DEFINE S == {k \in Nat : k <= m => f[k] = AsRelation(done[k])}
<1>6. f[0] = AsRelation(done[0])
  <2>1. 0 \in 0 .. m
    OBVIOUS
  <2>2. f[0] = start
    BY <1>5, <2>1
  <2> QED BY <1>1, <2>2 DEF start
<1>7. ASSUME NEW k \in Nat, k \in S
      PROVE  k + 1 \in S
  <2>1. CASE k + 1 <= m
    <3>1. f[k] = AsRelation(done[k]) /\ k + 1 \in 1 .. m /\ k + 1 - 1 = k
      BY <1>7, <2>1
    <3>2. f[k + 1] = Next1(f[k], k + 1)
      BY <1>5, <3>1
    <3>3. AsRelation(done[k + 1]) = Next1(AsRelation(done[k]), k + 1)
      BY <1>3, <3>1
    <3> QED BY <3>1, <3>2, <3>3
  <2>2. CASE ~(k + 1 <= m)
    BY <2>2
  <2> QED BY <2>1, <2>2
<1>8. f[m] = AsRelation(done[m])
  <2>1. 0 \in S
    BY <1>6
  <2>2. \A k \in Nat : k \in S
    <3> HIDE DEF S
    <3> QED BY <1>7, <2>1, Counting
  <2> QED BY <2>2
<1>9. Rewritten(t, done[m])
  BY <1>1
<1> QED BY <1>1, <1>2, <1>8, <1>9 DEF start, IndicesMake

-----------------------------------------------------------------------------
(* Batches *)

\* A statement of a batch has one placeholder at least.
LEMMA SomePlaceholders ==
  ASSUME NEW stmt \in Prepared
  PROVE  Placeholders(stmt) \in Nat \ {0} /\ stmt.table \in Names
         /\ (stmt.op = "insert" => stmt.columns \in Seq(Range(stmt.columns)))
         /\ (stmt.op # "insert" => stmt.op = "update" /\ Placeholders(stmt) = 2)
<1>1. /\ stmt.table \in Names
      /\ \/ stmt.op = "insert" /\ stmt.columns \in Seq(Range(stmt.columns)) \ {<<>>}
         \/ stmt.op = "update"
  BY PreparedAssumption
<1>2. CASE stmt.op = "insert"
  BY <1>1, <1>2 DEF Placeholders
<1>3. CASE stmt.op # "insert"
  BY <1>1, <1>3 DEF Placeholders
<1> QED BY <1>1, <1>2, <1>3

\* The rows a flat array is cut into.
LEMMA ChunksList ==
  ASSUME NEW flat \in FlatParams, NEW size \in Nat \ {0}
  PROVE  LET rows == Chunks(flat, size)
         IN  /\ Len(rows) \in Nat /\ DOMAIN rows = 1 .. Len(rows) /\ IsList(rows)
             /\ Len(rows) = (Len(flat) + size - 1) \div size
             /\ Len(flat) \in Nat
<1> DEFINE rows == Chunks(flat, size)
           m == (Len(flat) + size - 1) \div size
<1>1. Len(flat) \in Nat
  BY ParamsAssumption
<1>2. m \in Nat
  BY <1>1
<1>3. rows \in [1 .. m -> Range(rows)]
  BY DEF Chunks, Range
<1> HIDE DEF rows, m
<1>4. IsList(rows) /\ Len(rows) = m
  BY <1>2, <1>3, Listed
<1> QED BY <1>1, <1>2, <1>3, <1>4 DEF rows, m

\* What the changes of an effect make of its three parts.
LEMMA EffectParts ==
  ASSUME NEW ts, NEW seen, NEW answer
  PROVE  LET e == Effect(ts, seen, answer)
         IN  /\ e.tables = ts /\ e.populated = seen /\ e.answer = answer
             /\ Refuse(e) = Effect(ts, seen, "error")
             /\ \A n, t : Put(e, n, t) = Effect([ts EXCEPT ![n] = t], seen, "ok")
             /\ \A other : [e EXCEPT !.populated = other] = Effect(ts, other, answer)
<1> DEFINE e == Effect(ts, seen, answer)
           Alone(xs, ys, z) == [tables : {xs}, populated : {ys}, answer : {z}]
<1>1. ASSUME NEW xs, NEW ys, NEW z, NEW f \in Alone(xs, ys, z)
      PROVE  f = Effect(xs, ys, z)
  <2> DEFINE g == Effect(xs, ys, z)
  <2>1. g \in [tables : {xs}, populated : {ys}, answer : {z}]
    BY DEF Effect
  <2> HIDE DEF g
  <2> QED BY <2>1 DEF g
<1>2. e.tables = ts /\ e.populated = seen /\ e.answer = answer
  BY DEF Effect
<1>3. Refuse(e) \in Alone(ts, seen, "error")
  BY DEF Effect, Refuse
<1>4. ASSUME NEW n, NEW t
      PROVE  Put(e, n, t) = Effect([ts EXCEPT ![n] = t], seen, "ok")
  <2> DEFINE us == [ts EXCEPT ![n] = t]
  <2>1. Put(e, n, t) \in Alone(us, seen, "ok")
    BY DEF Effect, Put
  <2> HIDE DEF us, e, Alone
  <2> QED BY <1>1, <2>1 DEF us
<1>5. ASSUME NEW other
      PROVE  [e EXCEPT !.populated = other] = Effect(ts, other, answer)
  <2>1. [e EXCEPT !.populated = other] \in Alone(ts, other, answer)
    BY DEF Effect
  <2> HIDE DEF e, Alone
  <2> QED BY <1>1, <2>1
<1>6. Refuse(e) = Effect(ts, seen, "error")
  <2> HIDE DEF e, Alone
  <2> QED BY <1>1, <1>3
<1> HIDE DEF e
<1> QED BY <1>2, <1>4, <1>5, <1>6 DEF e

\* The same of one table put down.
LEMMA PutParts ==
  ASSUME NEW ts, NEW seen, NEW answer, NEW n, NEW t
  PROVE  Put(Effect(ts, seen, answer), n, t) = Effect([ts EXCEPT ![n] = t], seen, "ok")
BY EffectParts

\* The same of the effect a batch starts from.
LEMMA PutFresh ==
  ASSUME NEW n, NEW t
  PROVE  Put(Fresh, n, t) = Effect([tables EXCEPT ![n] = t], {}, "ok")
BY PutParts DEF Fresh

\* The changes of a batch of UPDATE, in the order of its rows.
LEMMA ChangesList ==
  ASSUME NEW stmt, NEW rows, Len(rows) \in Nat, DOMAIN rows = 1 .. Len(rows)
  PROVE  LET changes == Changes(stmt, rows)
         IN  /\ Len(changes) = Len(rows) /\ DOMAIN changes = 1 .. Len(rows)
             /\ \A k \in 1 .. Len(rows) :
                  /\ changes[k].column = stmt.column
                  /\ changes[k].id = rows[k][2] /\ changes[k].value = rows[k][1]
<1> DEFINE changes == Changes(stmt, rows)
<1>1. changes \in [1 .. Len(rows) -> Range(changes)]
  BY DEF Changes, Range
<1>2. \A k \in 1 .. Len(rows) : /\ changes[k].column = stmt.column
                                /\ changes[k].id = rows[k][2] /\ changes[k].value = rows[k][1]
  BY DEF Changes
<1> HIDE DEF changes
<1>3. Len(changes) = Len(rows)
  BY <1>1, Listed
<1> QED BY <1>1, <1>2, <1>3 DEF changes

\* The smaller of two numbers.
LEMMA MinOfTwo ==
  ASSUME NEW a \in Int, NEW b \in Int
  PROVE  Min({a, b}) = IF a <= b THEN a ELSE b
<1> DEFINE m == IF a <= b THEN a ELSE b
<1>1. m \in {a, b} /\ \A y \in {a, b} : m <= y
  OBVIOUS
<1>2. \A x \in {a, b} : (\A y \in {a, b} : x <= y) => x = m
  OBVIOUS
<1> HIDE DEF m
<1>3. (CHOOSE x \in {a, b} : \A y \in {a, b} : x <= y) = m
  BY <1>1, <1>2
<1> QED BY <1>3 DEF Min, m

\* A row of a batch has a length.
LEMMA ChunkLength ==
  ASSUME NEW flat \in FlatParams, NEW size \in Nat \ {0}, NEW rows, rows = Chunks(flat, size),
         NEW i \in 1 .. Len(rows)
  PROVE  Len(rows[i]) \in Nat
<1> DEFINE S == Range(flat)
           a == (i - 1) * size + 1
           b == Min({i * size, Len(flat)})
<1>1. Len(rows) \in Nat /\ DOMAIN rows = 1 .. Len(rows) /\ Len(flat) \in Nat
      /\ Len(rows) = (Len(flat) + size - 1) \div size
  BY ChunksList
<1>2. rows[i] = SubSeq(flat, a, b)
  <2>1. i \in 1 .. (Len(flat) + size - 1) \div size
    BY <1>1
  <2> HIDE DEF a, b
  <2> QED BY <2>1 DEF Chunks, a, b
<1>3. i - 1 \in Nat /\ i \in Nat
  BY <1>1
<1>4. a \in Nat /\ 1 <= a /\ i * size \in Nat
  <2>1. (i - 1) * size \in Nat /\ i * size \in Nat
    BY <1>3, Product
  <2> DEFINE c == (i - 1) * size
  <2> HIDE DEF c
  <2>2. c + 1 \in Nat /\ 1 <= c + 1
    BY <2>1 DEF c
  <2> QED BY <2>1, <2>2 DEF c
<1>5. b \in Int /\ b <= Len(flat)
  <2>1. b = IF i * size <= Len(flat) THEN i * size ELSE Len(flat)
    BY <1>1, <1>4, MinOfTwo
  <2> HIDE DEF b
  <2> QED BY <1>1, <1>4, <2>1
<1>6. flat \in Seq(S)
  BY ParamsAssumption
<1> HIDE DEF S, a, b
<1>7. \A k \in a .. b : flat[k] \in S
  <2>1. \A k \in a .. b : k \in 1 .. Len(flat)
    BY <1>1, <1>4, <1>5
  <2> QED BY <1>6, <2>1, ElementOfSeq
<1>8. SubSeq(flat, a, b) \in Seq(S)
  BY <1>4, <1>5, <1>6, <1>7, SubSeqProperties
<1> QED BY <1>2, <1>8

\* A row that is put down by position has the cells that are asked for by name.
LEMMA PlacedAt ==
  ASSUME NEW t, IsTable(t), NEW columns, columns \in Seq(Range(columns)),
         \A i \in DOMAIN columns : ColumnIndex(t, columns[i]) # 0,
         NEW row, Len(row) \in Nat, NEW c \in ColumnNames(t)
  PROVE  Placed(t, columns, row)[ColumnIndex(t, c)]
           = IF c \in DOMAIN Cells(columns, row) THEN Cells(columns, row)[c] ELSE Null
<1> DEFINE m == Min({Len(columns), Len(row)})
           j == ColumnIndex(t, c)
           I == {i \in 1 .. m : columns[i] = c}
           J == {i \in 1 .. m : ColumnIndex(t, columns[i]) = j}
           k == IF I # {} THEN Max(I) ELSE 0
<1>1. j \in 1 .. Width(t) /\ t.columns[j].name = c
  BY ColumnFound
<1>2. Len(columns) \in Nat /\ DOMAIN columns = 1 .. Len(columns)
  OBVIOUS
<1>3. m \in Nat /\ m <= Len(columns)
  <2>1. m = IF Len(columns) <= Len(row) THEN Len(columns) ELSE Len(row)
    BY <1>2, MinOfTwo
  <2> HIDE DEF m
  <2> QED BY <1>2, <2>1
<1> HIDE DEF m
<1>4. \A i \in 1 .. m : ColumnIndex(t, columns[i]) = j <=> columns[i] = c
  <2> SUFFICES ASSUME NEW i \in 1 .. m, ColumnIndex(t, columns[i]) = j
               PROVE  columns[i] = c
    OBVIOUS
  <2>1. i \in DOMAIN columns
    BY <1>2, <1>3
  <2>2. columns[i] \in ColumnNames(t)
    BY <2>1, ColumnFound
  <2>3. t.columns[ColumnIndex(t, columns[i])].name = columns[i]
    BY <2>2, ColumnFound
  <2> QED BY <1>1, <2>3
<1> HIDE DEF j
<1>5. I = J
  BY <1>4
<1>6. Placed(t, columns, row)[j] = IF k = 0 THEN Null ELSE row[k]
  <2>1. Placed(t, columns, row)[j] =
          LET h == IF J # {} THEN Max(J) ELSE 0
          IN  IF h = 0 THEN Null ELSE row[h]
    BY <1>1 DEF Placed, SelectLastInSubSeq, m
  <2> HIDE DEF I, J
  <2> QED BY <1>5, <2>1
<1>7. DOMAIN Cells(columns, row) = {columns[i] : i \in 1 .. m}
  BY DEF Cells, m
<1>8. c \in DOMAIN Cells(columns, row) <=> I # {}
  BY <1>7
<1>9. c \in DOMAIN Cells(columns, row) => Cells(columns, row)[c] = row[k]
  <2>1. \A d \in {columns[i] : i \in 1 .. m} :
          Cells(columns, row)[d] = row[LET H == {i \in 1 .. m : columns[i] = d}
                                       IN  IF H # {} THEN Max(H) ELSE 0]
    BY DEF Cells, SelectLastInSubSeq, m
  <2> QED BY <1>7, <2>1
<1>10. I # {} => k # 0
  <2> SUFFICES ASSUME I # {}  PROVE k # 0
    OBVIOUS
  <2>1. I \subseteq 1 .. m
    OBVIOUS
  <2> HIDE DEF I
  <2>2. Max(I) \in I
    BY <1>3, <2>1, MaxProperties
  <2> QED BY <1>3, <2>1, <2>2
<1> HIDE DEF I, k
<1>11. I = {} => k = 0
  BY DEF k
<1> QED BY <1>6, <1>8, <1>9, <1>10, <1>11 DEF j

\* The rows that are asked for, and those that are put down.
LEMMA ManyRelation ==
  ASSUME NEW t, TableInv(t), NEW stmt \in Prepared, stmt.op = "insert",
         NEW flat \in FlatParams, NEW rows, rows = Chunks(flat, Placeholders(stmt)),
         \A i \in DOMAIN stmt.columns : ColumnIndex(t, stmt.columns[i]) # 0,
         NEW u,
         AppendedTo(t, u, [r \in DOMAIN rows |-> Placed(t, stmt.columns, rows[r])], Len(rows))
  PROVE  AsRelation(u) = Abstract!Extended(AsRelation(t), Asked(stmt, rows).rows)
<1> DEFINE columns == stmt.columns
           maps == Asked(stmt, rows).rows
           placed == [r \in DOMAIN rows |-> Placed(t, columns, rows[r])]
           k == Len(rows)
           size == Placeholders(stmt)
<1>1. size \in Nat \ {0} /\ columns \in Seq(Range(columns))
  BY SomePlaceholders
<1>2. k \in Nat /\ DOMAIN rows = 1 .. k
  BY <1>1, ChunksList
<1>3. maps = [r \in 1 .. k |-> Cells(columns, rows[r])]
  BY <1>2 DEF Asked
<1>4. Len(maps) = k
  <2>1. maps \in [1 .. k -> Range(maps)]
    <3> HIDE DEF maps
    <3> QED BY <1>3 DEF Range
  <2> HIDE DEF maps
  <2> QED BY <1>2, <2>1, Listed
<1>5. \A r \in 1 .. k : maps[r] = Cells(columns, rows[r]) /\ placed[r] = Placed(t, columns, rows[r])
  <2> HIDE DEF maps
  <2> QED BY <1>2, <1>3
<1>6. \A r \in 1 .. k : Len(rows[r]) \in Nat
  <2> HIDE DEF size
  <2> QED BY <1>1, ChunkLength DEF size
<1>7. AppendedTo(t, u, placed, k)
  OBVIOUS
<1>8. IsTable(t) /\ \A i \in DOMAIN columns : ColumnIndex(t, columns[i]) # 0
  BY DEF TableInv
<1> HIDE DEF columns, maps, placed, k
<1>9. \A r \in 1 .. k : \A c \in ColumnNames(t) :
        placed[r][ColumnIndex(t, c)] = IF c \in DOMAIN maps[r] THEN maps[r][c] ELSE Null
  BY <1>1, <1>5, <1>6, <1>8, PlacedAt
<1>10. AsRelation(u) = Abstract!Extended(AsRelation(t), maps)
  BY <1>2, <1>4, <1>7, <1>9, InsertRelation
<1> QED BY <1>10 DEF maps

\* The changes of a batch of UPDATE, as what is asked of the relation.
LEMMA AskedChanges ==
  ASSUME NEW stmt, stmt.op # "insert",
         NEW rows, Len(rows) \in Nat, DOMAIN rows = 1 .. Len(rows)
  PROVE  LET changes == Changes(stmt, rows)
             asked == Asked(stmt, rows).changes
         IN  /\ Len(asked) = Len(changes)
             /\ \A k \in 1 .. Len(changes) :
                  /\ asked[k].id = changes[k].id
                  /\ asked[k].cells = OneCell(changes[k])
<1> DEFINE changes == Changes(stmt, rows)
           asked == Asked(stmt, rows).changes
           One(change) == [id |-> change.id, cells |-> OneCell(change)]
<1>1. Len(changes) = Len(rows) /\ DOMAIN changes = 1 .. Len(rows)
  BY ChangesList
<1>2. asked = [k \in DOMAIN changes |-> One(changes[k])]
  BY DEF Asked, OneCell
<1> HIDE DEF changes, asked
<1>3. asked = [k \in 1 .. Len(rows) |-> One(changes[k])]
  BY <1>1, <1>2
<1>4. \A k \in 1 .. Len(rows) :
        /\ asked[k].id = changes[k].id
        /\ asked[k].cells = OneCell(changes[k])
  BY <1>3
<1>5. asked \in [1 .. Len(rows) -> Range(asked)]
  BY <1>3 DEF Range
<1>6. Len(asked) = Len(rows)
  BY <1>5, Listed
<1> QED BY <1>1, <1>4, <1>6 DEF changes, asked

\* The table u is t after what a batch asks of it.
BatchDone(t, u, stmt, rows) ==
  /\ TableInv(u) /\ u.sequential = t.sequential
  /\ stmt.op = "insert" =>
       AsRelation(u) = Abstract!Extended(AsRelation(t), Asked(stmt, rows).rows)
  /\ stmt.op # "insert" =>
       AsRelation(u) = Abstract!AssignedEach(AsRelation(t), Asked(stmt, rows).changes)

\* A batch does what it asks to its table, or is refused; the executor it has
\* for itself leaves no trace.
LEMMA RunRowsInv ==
  ASSUME IInv, NEW stmt \in Prepared, NEW flat \in FlatParams,
         NEW rows, rows = Chunks(flat, Placeholders(stmt)),
         stmt.op = "insert" => Room(stmt.table, Len(rows)),
         stmt.op = "update" /\ Lives(stmt.table) => stmt.column \in ColumnNames(tables[stmt.table])
  PROVE  LET n == stmt.table
             t == tables[n]
             f == [RunRows(Fresh, stmt, rows) EXCEPT !.populated = populated]
         IN  \/ f = Refuse(Now)
             \/ \E u : /\ Lives(n) /\ TableInv(t) /\ f = Put(Now, n, u)
                       /\ BatchDone(t, u, stmt, rows)
<1> DEFINE n == stmt.table
           t == tables[n]
           g == RunRows(Fresh, stmt, rows)
           f == [g EXCEPT !.populated = populated]
<1>1. EffectInv(Fresh) /\ EffectInv(Now)
  <2>1. Fresh.tables = tables /\ Fresh.populated = {} /\ Fresh.answer = "ok"
    BY DEF Fresh, Effect
  <2>2. Now.tables = tables /\ Now.populated = populated /\ Now.answer = "ok"
    BY DEF Now, Effect
  <2> QED BY <2>1, <2>2 DEF EffectInv, IInv, Fresh, Now, Effect, Exists, Lives
<1>2. n \in Names /\ Len(rows) \in Nat /\ DOMAIN rows = 1 .. Len(rows)
  BY SomePlaceholders, ChunksList
<1>3. Exists(Fresh, n) <=> Lives(n)
  BY DEF Exists, Lives, Fresh, Effect
<1>4. ASSUME NEW u  PROVE [Put(Fresh, n, u) EXCEPT !.populated = populated] = Put(Now, n, u)
  <2> DEFINE ts == [tables EXCEPT ![n] = u]
  <2>1. Put(Fresh, n, u) = Effect(ts, {}, "ok") /\ Put(Now, n, u) = Effect(ts, populated, "ok")
    BY EffectParts DEF Fresh, Now
  <2>2. [Effect(ts, {}, "ok") EXCEPT !.populated = populated] = Effect(ts, populated, "ok")
    <3> HIDE DEF ts
    <3> QED BY EffectParts
  <2> HIDE DEF ts
  <2> QED BY <2>1, <2>2
<1>5. [Refuse(Fresh) EXCEPT !.populated = populated] = Refuse(Now)
  BY EffectParts DEF Fresh, Now
<1>6. Fresh.tables[n] = t
  BY DEF Fresh, Effect
<1>7. CASE ~Lives(n)
  <2>1. g = Refuse(Fresh)
    BY <1>3, <1>7 DEF RunRows
  <2> QED BY <1>5, <2>1
<1>8. CASE Lives(n) /\ stmt.op = "insert"
  <2>1. g = InsertMany(Fresh, n, stmt.columns, rows)
    BY <1>3, <1>8 DEF RunRows
  <2>2. t.nextId + Len(rows) <= MaxIds
    BY <1>8 DEF Room
  <2> DEFINE columns == stmt.columns
             placed == [r \in DOMAIN rows |-> Placed(t, columns, rows[r])]
             u == AppendAll(t, placed)
  <2>3. \/ g = Refuse(Fresh)
        \/ /\ g = Put(Fresh, n, u) /\ TableInv(t) /\ AppendedTo(t, u, placed, Len(rows))
           /\ \A i \in DOMAIN columns : ColumnIndex(t, columns[i]) # 0
    <3> HIDE DEF n, columns
    <3>1. Exists(Fresh, n) => Fresh.tables[n].nextId + Len(rows) <= MaxIds
      BY <1>6, <2>2
    <3> QED BY <1>1, <1>2, <1>6, <2>1, <3>1, InsertManyInv DEF columns
  <2> HIDE DEF n, u, t, g
  <2>4. CASE g = Refuse(Fresh)
    BY <1>5, <2>4 DEF g
  <2>5. CASE /\ g = Put(Fresh, n, u) /\ TableInv(t) /\ AppendedTo(t, u, placed, Len(rows))
             /\ \A i \in DOMAIN columns : ColumnIndex(t, columns[i]) # 0
    <3>1. f = Put(Now, n, u)
      BY <1>4, <2>5
    <3>2. TableInv(u) /\ u.sequential = t.sequential
      BY <2>5 DEF AppendedTo
    <3>3. AsRelation(u) = Abstract!Extended(AsRelation(t), Asked(stmt, rows).rows)
      BY <1>8, <2>5, ManyRelation
    <3>4. BatchDone(t, u, stmt, rows)
      BY <1>8, <3>2, <3>3 DEF BatchDone
    <3> HIDE DEF placed
    <3> QED BY <1>8, <2>5, <3>1, <3>4 DEF n, t, g
  <2> QED BY <2>3, <2>4, <2>5
<1>9. CASE Lives(n) /\ stmt.op # "insert"
  <2> DEFINE changes == Changes(stmt, rows)
  <2>1. g = UpdateByIndices(Fresh, n, changes)
    BY <1>3, <1>9 DEF RunRows
  <2>2. TableInv(t)
    BY <1>1, <1>2, <1>3, <1>6, <1>9, ExistingInv
  <2>3. stmt.op = "update" /\ stmt.column \in ColumnNames(t)
    BY <1>9, SomePlaceholders
  <2>4. Len(changes) \in Nat /\ \A k \in 1 .. Len(changes) : changes[k].column \in ColumnNames(t)
    <3> HIDE DEF t
    <3> QED BY <1>2, <2>3, ChangesList
  <2> DEFINE asked == Asked(stmt, rows).changes
  <2>5. /\ Len(asked) = Len(changes)
        /\ \A k \in 1 .. Len(changes) :
             /\ asked[k].id = changes[k].id
             /\ asked[k].cells = OneCell(changes[k])
    <3>1. stmt.op # "insert"
      BY <1>9
    <3> HIDE DEF t, n
    <3> QED BY <1>2, <3>1, AskedChanges
  <2>6. PICK u : /\ UpdateByIndices(Fresh, n, changes) = Put(Fresh, n, u) /\ Rewritten(t, u)
                 /\ AsRelation(u) = Abstract!AssignedEach(AsRelation(t), asked)
    <3> HIDE DEF n, t, changes, asked
    <3>1. TableInv(Fresh.tables[n])
      BY <1>6, <2>2
    <3>2. \A k \in 1 .. Len(changes) : changes[k].column \in ColumnNames(Fresh.tables[n])
      BY <1>6, <2>4
    <3>3. PICK u : IndicesMake(Fresh, n, changes, asked, u)
      BY <2>4, <2>5, <3>1, <3>2, IndicesRelation
    <3> QED BY <1>6, <3>3 DEF IndicesMake
  <2>7. f = Put(Now, n, u)
    <3>1. g = Put(Fresh, n, u)
      BY <2>1, <2>6
    <3> HIDE DEF g, n
    <3> QED BY <1>4, <3>1
  <2>8. BatchDone(t, u, stmt, rows)
    BY <1>9, <2>6 DEF Rewritten, BatchDone
  <2> HIDE DEF f, t, n
  <2> QED BY <1>9, <2>2, <2>7, <2>8 DEF f, t, n
<1> QED BY <1>7, <1>8, <1>9

-----------------------------------------------------------------------------
(* The invariant *)

\* What a call starts from.
LEMMA NowInv ==
  ASSUME IInv
  PROVE  /\ EffectInv(Now) /\ Now.tables = tables /\ Now.populated = populated /\ Now.answer = "ok"
         /\ \A n : Exists(Now, n) <=> Lives(n)
<1>1. Now.tables = tables /\ Now.populated = populated /\ Now.answer = "ok"
  BY DEF Now, Effect
<1> QED BY <1>1 DEF EffectInv, IInv, Now, Effect, Exists, Lives

\* A call whose effect satisfies the invariant.
LEMMA DidInv ==
  ASSUME IInv, NEW e, EffectInv(e), NEW args, Did(e, args),
         saved' = saved, replaced \subseteq replaced'
  PROVE  IInv'
<1>1. tables' = e.tables /\ populated' = e.populated
  BY DEF Did
<1>2. populated' \subseteq Names
  BY <1>1 DEF EffectInv
<1>3. TablesInv(tables')
  BY <1>1 DEF EffectInv
<1>4. \A n \in populated' \ replaced' : tables'[n].exists => ~tables'[n].sequential
  BY <1>1 DEF EffectInv, Exists
<1>5. saved' = NoTransaction \/ (saved' = Snapshot(saved'.tables) /\ TablesInv(saved'.tables))
  BY DEF IInv
<1> QED BY <1>2, <1>3, <1>4, <1>5 DEF IInv, Lives, NoTransaction, Snapshot, TablesInv, TableInv,
  IsTable, IdsDiffer, Dense, Exact, NoTable

\* CREATE TABLE: the new table is sequential, under a name that counts as
\* replaced if the executor had noted it.
LEMMA CreateInv ==
  ASSUME IInv, NEW n \in Names, NEW columns \in Schemas, Create(n, columns)
  PROVE  IInv'
<1> DEFINE t == NewTable(columns)
<1>1. TableInv(t)
  BY ColumnsAssumption, NewInv
<1>2. tables' = [tables EXCEPT ![n] = t] /\ populated' = populated
  <2>1. Put(Now, n, t) = Effect([tables EXCEPT ![n] = t], populated, "ok")
    <3> HIDE DEF t
    <3> QED BY EffectParts DEF Now
  <2> HIDE DEF t
  <2>2. tables' = Put(Now, n, t).tables /\ populated' = Put(Now, n, t).populated
    BY DEF Create, Did, t
  <2> QED BY <2>1, <2>2 DEF Effect
<1>3. replaced' = replaced \cup (populated \cap {n}) /\ saved' = saved
  BY DEF Create
<1> HIDE DEF t
<1>4. DOMAIN tables = Names
  BY DEF IInv, TablesInv
<1>5. /\ tables' \in [Names -> Range(tables')] /\ tables'[n] = t
      /\ \A o \in Names : o # n => tables'[o] = tables[o]
  <2>1. tables' = [o \in Names |-> IF o = n THEN t ELSE tables[o]]
    BY <1>2, <1>4
  <2> QED BY <2>1 DEF Range
<1>6. TablesInv(tables')
  BY <1>1, <1>5 DEF IInv, TablesInv
<1>7. \A o \in populated' \ replaced' : tables'[o].exists => ~tables'[o].sequential
  BY <1>2, <1>3, <1>5 DEF IInv, Lives
<1> QED BY <1>2, <1>3, <1>6, <1>7 DEF IInv, Lives

\* The rows of a statement without a row left over, or a batch.
LEMMA InsertRowsInv ==
  ASSUME IInv, NEW stmt \in Prepared, NEW flat \in FlatParams, InsertRows(stmt, flat)
  PROVE  IInv'
<1> DEFINE n == stmt.table
           rows == Chunks(flat, Placeholders(stmt))
           e == InsertMany(Now, n, stmt.columns, rows)
<1>1. EffectInv(Now) /\ Now.tables = tables /\ (Exists(Now, n) <=> Lives(n))
  BY NowInv
<1>2. n \in Names /\ Len(rows) \in Nat /\ DOMAIN rows = 1 .. Len(rows)
  BY SomePlaceholders, ChunksList
<1>3. Did(e, Asked(stmt, rows)) /\ saved' = saved /\ replaced' = replaced /\ Room(n, Len(rows))
  BY DEF InsertRows
<1>4. Exists(Now, n) => Now.tables[n].nextId + Len(rows) <= MaxIds
  BY <1>1, <1>3 DEF Room
<1>5. EffectInv(e)
  <2> DEFINE columns == stmt.columns
  <2> HIDE DEF n, columns, rows
  <2> QED BY <1>1, <1>2, <1>4, InsertManyInv DEF columns
<1> HIDE DEF e, rows
<1> QED BY <1>3, <1>5, DidInv

\* runBatch.
LEMMA RunBatchInv ==
  ASSUME IInv, NEW stmt \in Prepared, NEW flat \in FlatParams, RunBatch(stmt, flat)
  PROVE  IInv'
<1> DEFINE n == stmt.table
           t == tables[n]
           rows == Chunks(flat, Placeholders(stmt))
           e == [RunRows(Fresh, stmt, rows) EXCEPT !.populated = populated]
<1>1. EffectInv(Now) /\ Now.tables = tables /\ Now.populated = populated
  BY NowInv
<1>2. n \in Names
  BY SomePlaceholders
<1>3. /\ Did(e, Asked(stmt, rows)) /\ saved' = saved /\ replaced' = replaced
      /\ stmt.op = "insert" => Room(n, Len(rows))
      /\ stmt.op = "update" /\ Lives(n) => stmt.column \in ColumnNames(t)
  BY DEF RunBatch
<1>4. \/ e = Refuse(Now)
      \/ \E u : /\ Lives(n) /\ TableInv(t) /\ e = Put(Now, n, u)
                /\ TableInv(u) /\ u.sequential = t.sequential
  <2> HIDE DEF rows
  <2> QED BY <1>3, RunRowsInv DEF rows, BatchDone
<1>5. EffectInv(e)
  <2> HIDE DEF e, n, t
  <2>1. CASE e = Refuse(Now)
    BY <1>1, <2>1, RefuseInv
  <2>2. ASSUME NEW u, Lives(n), e = Put(Now, n, u), TableInv(u), u.sequential = t.sequential
        PROVE  EffectInv(e)
    <3>1. n \in Now.populated \ replaced => ~u.sequential
      BY <1>1, <2>2 DEF IInv, t
    <3> QED BY <1>1, <1>2, <2>2, <3>1, PutInv
  <2> QED BY <1>4, <2>1, <2>2
<1> HIDE DEF e, rows
<1> QED BY <1>3, <1>5, DidInv

\* rollback: what it puts back counts as replaced.
LEMMA RollbackInv ==
  ASSUME IInv, Rollback
  PROVE  IInv'
<1> DEFINE back == saved.tables
<1>1. saved = Snapshot(back) /\ TablesInv(back)
  BY DEF IInv, Rollback
<1>2. /\ tables' = [n \in Names |-> IF back[n].exists THEN back[n] ELSE tables[n]]
      /\ replaced' = replaced \cup {n \in populated : back[n].exists}
      /\ populated' = populated /\ saved' = saved
  BY DEF Rollback, Restored
<1> HIDE DEF back
<1>3. TablesInv(tables')
  <2>1. tables' \in [Names -> Range(tables')]
    BY <1>2 DEF Range
  <2>2. \A n \in Names : tables'[n] = NoTable \/ TableInv(tables'[n])
    BY <1>1, <1>2 DEF IInv, TablesInv
  <2> QED BY <2>1, <2>2 DEF TablesInv
<1>4. \A n \in populated' \ replaced' : tables'[n].exists => ~tables'[n].sequential
  BY <1>2 DEF IInv, Lives
<1> QED BY <1>2, <1>3, <1>4 DEF IInv, Lives

\* There is no table in the beginning.
LEMMA InitInv ==
  Init => IInv
<1> SUFFICES ASSUME Init  PROVE IInv
  OBVIOUS
<1>1. tables \in [Names -> Range(tables)] /\ \A n \in Names : tables[n] = NoTable
  BY DEF Init, Range
<1>2. saved = NoTransaction /\ populated = {}
  BY DEF Init
<1> QED BY <1>1, <1>2 DEF IInv, TablesInv

\* Every call keeps the invariant.
LEMMA NextInv ==
  IInv /\ [Next]_vars => IInv'
<1> SUFFICES ASSUME IInv, [Next]_vars
             PROVE  IInv'
  OBVIOUS
<1>1. EffectInv(Now) /\ Now.tables = tables /\ Now.populated = populated
      /\ \A n : Exists(Now, n) <=> Lives(n)
  BY NowInv
<1>2. ASSUME NEW n \in Names, NEW columns \in Schemas, Create(n, columns)
      PROVE  IInv'
  BY <1>2, CreateInv
<1>3. ASSUME NEW n \in Names, DropTable(n)
      PROVE  IInv'
  <2> DEFINE e == IF Lives(n) THEN Put(Now, n, NoTable) ELSE Refuse(Now)
             args == [op |-> "drop", table |-> n]
  <2>1. Did(e, args) /\ saved' = saved /\ replaced' = replaced
    BY <1>3 DEF DropTable
  <2>2. EffectInv(e)
    BY <1>1, PutInv, RefuseInv
  <2> HIDE DEF e, args
  <2> QED BY <2>1, <2>2, DidInv
<1>4. ASSUME NEW n \in Names, NEW column \in Extras, AddColumn(n, column)
      PROVE  IInv'
  <2> DEFINE u == WithColumn(tables[n], column)
             e == IF Lives(n) THEN Put(Now, n, u) ELSE Refuse(Now)
             args == [op |-> "alter", table |-> n, column |-> column.name]
  <2>1. Did(e, args) /\ saved' = saved /\ replaced' = replaced
    BY <1>4 DEF AddColumn
  <2>2. ASSUME Lives(n)  PROVE EffectInv(Put(Now, n, u))
    <3>1. TableInv(tables[n])
      BY <1>1, <2>2, ExistingInv
    <3>2. column \in Columns
      BY DEF Columns
    <3>3. TableInv(u) /\ ~u.sequential
      BY <3>1, <3>2, WithColumnInv
    <3> HIDE DEF u
    <3> QED BY <1>1, <3>3, PutInv
  <2>3. EffectInv(e)
    <3> HIDE DEF u
    <3> QED BY <1>1, <2>2, RefuseInv
  <2> HIDE DEF e, args
  <2> QED BY <2>1, <2>3, DidInv
<1>5. ASSUME NEW n \in Names, NEW map \in Inserted, InsertRow(n, map)
      PROVE  IInv'
  <2> DEFINE e == InsertOne(Now, n, map)
             args == [op |-> "insert", table |-> n, rows |-> <<map>>]
  <2>1. Did(e, args) /\ saved' = saved /\ replaced' = replaced /\ Room(n, 1)
    BY <1>5 DEF InsertRow
  <2>2. Exists(Now, n) => Now.tables[n].nextId < MaxIds
    <3> SUFFICES ASSUME Lives(n)  PROVE tables[n].nextId < MaxIds
      BY <1>1
    <3>1. tables[n].nextId + 1 <= MaxIds
      BY <2>1 DEF Room
    <3>2. TableInv(tables[n])
      BY <1>1, ExistingInv
    <3>3. tables[n].nextId \in 0 .. MaxIds
      BY <3>2 DEF TableInv, IsTable
    <3> QED BY <3>1, <3>3, MaxIdsAssumption
  <2>3. EffectInv(e)
    BY <1>1, <2>2, InsertOneInv
  <2> HIDE DEF e, args
  <2> QED BY <2>1, <2>3, DidInv
<1>6. ASSUME NEW n \in Names, NEW clause, DeleteRows(n, clause)
      PROVE  IInv'
  <2> DEFINE e == DeleteWhere(Now, n, clause)
             args == [op |-> "delete", table |-> n, clause |-> clause]
  <2>1. Did(e, args) /\ saved' = saved /\ replaced' = replaced
    BY <1>6 DEF DeleteRows
  <2>2. EffectInv(e)
    BY <1>1, DeleteWhereInv
  <2> HIDE DEF e, args
  <2> QED BY <2>1, <2>2, DidInv
<1>7. ASSUME NEW n \in Names, NEW clause, Select(n, clause)
      PROVE  IInv'
  <2> DEFINE e == SelectWhere(Now, n, clause)
             args == [op |-> "select", table |-> n, clause |-> clause,
                      found |-> Returned(e.tables[n], clause)]
  <2>1. Did(e, args) /\ saved' = saved /\ replaced' = replaced
    BY <1>7 DEF Select
  <2>2. EffectInv(e)
    BY <1>1, SelectWhereInv
  <2> HIDE DEF e, args
  <2> QED BY <2>1, <2>2, DidInv
<1>8. ASSUME NEW n \in Names, NEW clause, NEW cells, Update(n, clause, cells)
      PROVE  IInv'
  <2> DEFINE e == UpdateWhere(Now, n, clause, cells)
             args == [op |-> "update", table |-> n, clause |-> clause, cells |-> cells]
  <2>1. Did(e, args) /\ saved' = saved /\ replaced' = replaced
    BY <1>8 DEF Update
  <2>2. EffectInv(e)
    BY <1>1, UpdateWhereInv
  <2> HIDE DEF e, args
  <2> QED BY <2>1, <2>2, DidInv
<1>9. ASSUME NEW stmt \in Prepared, NEW flat \in FlatParams,
             InsertRows(stmt, flat) \/ RunBatch(stmt, flat)
      PROVE  IInv'
  BY <1>9, InsertRowsInv, RunBatchInv
<1>10. CASE NewExecutor
  BY <1>10 DEF NewExecutor, IInv, Lives
<1>11. CASE BeginTransaction
  <2>1. tables' = tables /\ populated' = populated /\ replaced' = replaced
        /\ saved' = Snapshot(tables)
    BY <1>11 DEF BeginTransaction
  <2>2. Snapshot(tables).tables = tables
    BY DEF Snapshot
  <2> QED BY <2>1, <2>2 DEF IInv, Lives
<1>12. CASE Commit
  BY <1>12 DEF Commit, state, IInv, Lives
<1>13. CASE Rollback
  BY <1>13, RollbackInv
<1>14. CASE UNCHANGED vars
  BY <1>14 DEF vars, IInv, Lives
<1> QED
  BY <1>2, <1>3, <1>4, <1>5, <1>6, <1>7, <1>8, <1>9, <1>10, <1>11, <1>12, <1>13, <1>14 DEF Next

\* The invariant holds of every call: the id_map, the vector and the ids of
\* every table agree after any sequence of statements and transactions.
THEOREM SessionsKeepTables ==
  Spec => []IInv
<1> QED BY InitInv, NextInv, PTL DEF Spec

-----------------------------------------------------------------------------
(* Cells that their columns admit *)

\* What a call is said to be.
LEMMA Called ==
  ASSUME NEW e, NEW args, "answer" \notin DOMAIN args, Did(e, args)
  PROVE  /\ call'.answer = e.answer
         /\ \A field \in DOMAIN args : call'[field] = args[field]
<1>1. call' = Merged(args, [answer |-> e.answer])
  BY DEF Did
<1> DEFINE last == [answer |-> e.answer]
<1>2. DOMAIN last = {"answer"} /\ last["answer"] = e.answer
  OBVIOUS
<1>3. call' = [x \in DOMAIN args \cup DOMAIN last |->
                 IF x \in DOMAIN args THEN args[x] ELSE last[x]]
  BY <1>1 DEF Merged
<1> HIDE DEF last
<1> QED BY <1>2, <1>3

\* All cells of a table are admitted.
TableAdmitted(t) == \A p \in Rows(t), i \in 1 .. Width(t) : CellAdmitted(t, p, i)

\* One table of a database whose cells are all admitted changes.
LEMMA OneTableAdmitted ==
  ASSUME NEW e, EffectInv(e), NEW n \in Names, NEW u, AllAdmitted(e.tables),
         TableAdmitted(u), NEW f, f.tables = Holding(e, n, u)
  PROVE  AllAdmitted(f.tables)
<1>1. DOMAIN e.tables = Names
  BY DEF EffectInv, TablesInv
<1>2. f.tables[n] = u /\ \A o \in Names : o # n => f.tables[o] = e.tables[o]
  BY <1>1 DEF Holding
<1> QED BY <1>2 DEF AllAdmitted, TableAdmitted

\* The cells that INSERT converts and admits.
LEMMA InsertAdmits ==
  ASSUME IInv, NEW n \in Names, NEW map, InsertRow(n, map), AllAdmitted(tables)
  PROVE  AllAdmitted(tables')
<1> DEFINE t == tables[n]
           f == InsertOne(Now, n, map)
           cells == Converted(t, map)
           u == Append1(t, cells)
<1>1. EffectInv(Now) /\ Now.tables = tables /\ (Exists(Now, n) <=> Lives(n))
  BY NowInv
<1>2. tables' = f.tables /\ Room(n, 1)
  BY DEF InsertRow, Did
<1>3. Exists(Now, n) => Now.tables[n].nextId < MaxIds
  <2> SUFFICES ASSUME Lives(n)  PROVE t.nextId < MaxIds
    BY <1>1
  <2>1. t.nextId + 1 <= MaxIds
    BY <1>2 DEF Room
  <2>2. TableInv(t)
    BY <1>1, ExistingInv
  <2>3. t.nextId \in 0 .. MaxIds
    BY <2>2 DEF TableInv, IsTable
  <2> QED BY <2>1, <2>3, MaxIdsAssumption
<1>4. \/ f = Refuse(Now)
      \/ /\ Exists(Now, n) /\ Admitted(t, map) /\ f = Put(Now, n, u)
         /\ TableInv(t) /\ AppendedTo(t, u, <<cells>>, 1)
  <2> HIDE DEF f
  <2> QED BY <1>1, <1>3, InsertOneInv DEF f
<1>5. CASE f = Refuse(Now)
  <2> HIDE DEF f
  <2> QED BY <1>1, <1>2, <1>5, RefuseInv
<1>6. CASE /\ Exists(Now, n) /\ Admitted(t, map) /\ f = Put(Now, n, u)
           /\ TableInv(t) /\ AppendedTo(t, u, <<cells>>, 1)
  <2>1. TableAdmitted(t) /\ Len(t.ids) \in Nat /\ Rows(t) = 1 .. Len(t.ids)
    <3>1. TableAdmitted(t)
      BY <1>1, <1>6 DEF AllAdmitted, TableAdmitted, Lives
    <3>2. IsTable(t)
      BY <1>6 DEF TableInv
    <3> HIDE DEF t
    <3> QED BY <3>1, <3>2, Fields
  <2>2. \A i \in 1 .. Width(t) : cells[i] \in t.columns[i].admits
    BY <1>6 DEF Admitted
  <2> HIDE DEF t, u, cells, f
  <2>3. TableInv(u) /\ u.columns = t.columns /\ Width(u) = Width(t)
        /\ Len(u.ids) = Len(t.ids) + 1
    BY <1>6 DEF AppendedTo, Width
  <2>4. Rows(u) = Rows(t) \cup {Len(t.ids) + 1}
    BY <2>1, <2>3 DEF Rows
  <2>5. \A p \in Rows(t), i \in 1 .. Width(t) : Cell(u, p, i) = Cell(t, p, i)
    BY <1>6 DEF AppendedTo
  <2>6. \A i \in 1 .. Width(t) : Cell(u, Len(t.ids) + 1, i) = cells[i]
    <3>1. \A r \in 1 .. 1, i \in 1 .. Width(t) : Cell(u, Len(t.ids) + r, i) = <<cells>>[r][i]
      BY <1>6 DEF AppendedTo
    <3>2. 1 \in 1 .. 1 /\ <<cells>>[1] = cells
      OBVIOUS
    <3> QED BY <3>1, <3>2
  <2>7. TableAdmitted(u)
    BY <2>1, <2>2, <2>3, <2>4, <2>5, <2>6 DEF TableAdmitted, CellAdmitted
  <2>8. f.tables = Holding(Now, n, u)
    <3>1. u.sequential = t.sequential
      BY <1>6 DEF AppendedTo
    <3>2. n \in Now.populated \ replaced => ~t.sequential
      BY <1>1, <1>6 DEF EffectInv, t
    <3> QED BY <1>1, <1>6, <2>3, <3>1, <3>2, PutInv
  <2> QED BY <1>1, <1>2, <2>7, <2>8, OneTableAdmitted
<1> QED BY <1>4, <1>5, <1>6

\* UPDATE writes rows whose cells are all admitted, and no others.
LEMMA UpdateAdmits ==
  ASSUME IInv, NEW n \in Names, NEW clause, NEW cells, Update(n, clause, cells),
         AllAdmitted(tables)
  PROVE  AllAdmitted(tables')
<1> DEFINE f == UpdateWhere(Now, n, clause, cells)
           d == PopulateOnce(Now, n)
           t == d.tables[n]
<1>1. EffectInv(Now) /\ Now.tables = tables /\ (Exists(Now, n) <=> Lives(n))
  BY NowInv
<1>2. tables' = f.tables
  BY DEF Update, Did
<1>3. CASE ~Lives(n)
  <2>1. f = Refuse(Now)
    BY <1>1, <1>3 DEF UpdateWhere
  <2> HIDE DEF f
  <2> QED BY <1>1, <1>2, <2>1, RefuseInv
<1>4. CASE Lives(n)
  <2>1. EffectInv(d) /\ d.tables = Holding(Now, n, t) /\ TableInv(t) /\ SameRows(tables[n], t)
    <3>1. Now.tables[n] = tables[n]
      BY <1>1
    <3> HIDE DEF d
    <3> QED BY <1>1, <1>4, <3>1, PopulateInv DEF d
  <2>2. UpdateReached(f, d, n, t, clause, cells, Len(t.ids))
    BY <1>1, <1>4, UpdateInv
  <2> HIDE DEF f, d, t
  <2>3. PICK u, P : Written(t, u, P, cells) /\ f.tables = Holding(d, n, u)
    BY <2>2 DEF UpdateReached
  <2>4. TableAdmitted(t)
    BY <1>4, <2>1 DEF SameRows, AllAdmitted, TableAdmitted, CellAdmitted, Cell, Rows, Width, Lives
  <2>5. TableAdmitted(u)
    <3>1. u.columns = t.columns /\ Width(u) = Width(t) /\ Rows(u) = Rows(t)
      BY <2>3 DEF Written, Width, Rows
    <3>2. ASSUME NEW p \in Rows(t), NEW i \in 1 .. Width(t)
          PROVE  Cell(u, p, i) \in t.columns[i].admits
      <4>1. CASE p \in P
        BY <2>3, <4>1 DEF Written, Admitted
      <4>2. CASE p \notin P
        BY <2>3, <2>4, <4>2 DEF Written, TableAdmitted, CellAdmitted
      <4> QED BY <4>1, <4>2
    <3> QED BY <3>1, <3>2 DEF TableAdmitted, CellAdmitted
  <2>6. f.tables = Holding(Now, n, u)
    BY <1>1, <2>1, <2>3, HoldingTwice
  <2> QED BY <1>1, <1>2, <2>5, <2>6, OneTableAdmitted
<1> QED BY <1>3, <1>4

\* ALTER TABLE puts Null into a column that admits it.
LEMMA AlterAdmits ==
  ASSUME IInv, NEW n \in Names, NEW column \in Extras, AddColumn(n, column),
         AllAdmitted(tables)
  PROVE  AllAdmitted(tables')
<1> DEFINE t == tables[n]
           u == WithColumn(t, column)
<1>1. EffectInv(Now) /\ Now.tables = tables /\ (Exists(Now, n) <=> Lives(n))
  BY NowInv
<1>2. tables' = IF Lives(n) THEN Put(Now, n, u).tables ELSE Refuse(Now).tables
  BY DEF AddColumn, Did
<1>3. CASE ~Lives(n)
  BY <1>1, <1>2, <1>3, RefuseInv
<1>4. CASE Lives(n)
  <2>1. TableInv(t) /\ TableAdmitted(t)
    BY <1>1, <1>4, ExistingInv DEF AllAdmitted, TableAdmitted, Lives
  <2>2. IsTable(t) /\ column \in Columns /\ Null \in column.admits
    BY <2>1, ExtrasAssumption DEF TableInv, Columns
  <2>3. Width(t) \in Nat /\ t.columns \in Seq(Columns) /\ Width(t) = Len(t.columns)
    <3> HIDE DEF t
    <3>1. Width(t) \in Nat
      BY <2>2, Fields
    <3>2. t.columns \in Seq(Columns)
      BY <2>2 DEF IsTable
    <3> QED BY <3>1, <3>2 DEF Width
  <2> HIDE DEF t
  <2> DEFINE w == Width(t)
  <2>4. /\ TableInv(u) /\ u.ids = t.ids /\ ~u.sequential
        /\ u.columns = Append(t.columns, column) /\ Width(u) = w + 1
        /\ \A p \in Rows(t), i \in 1 .. w + 1 :
             Cell(u, p, i) = IF i = w + 1 THEN Null ELSE Cell(t, p, i)
    BY <2>1, <2>2, WithColumnInv
  <2> HIDE DEF u
  <2>5. \A i \in 1 .. w + 1 : u.columns[i] = IF i = w + 1 THEN column ELSE t.columns[i]
    BY <2>2, <2>3, <2>4
  <2>6. Rows(u) = Rows(t)
    BY <2>4 DEF Rows
  <2>7. TableAdmitted(u)
    <3> SUFFICES ASSUME NEW p \in Rows(t), NEW i \in 1 .. w + 1
                 PROVE  Cell(u, p, i) \in u.columns[i].admits
      BY <2>4, <2>6 DEF TableAdmitted, CellAdmitted
    <3>1. CASE i = w + 1
      BY <2>2, <2>4, <2>5, <3>1
    <3>2. CASE i # w + 1
      <4>1. i \in 1 .. w
        BY <2>3, <3>2
      <4> QED BY <2>1, <2>4, <2>5, <3>2, <4>1 DEF TableAdmitted, CellAdmitted
    <3> QED BY <3>1, <3>2
  <2>8. Put(Now, n, u).tables = Holding(Now, n, u)
    BY <1>1, <2>4, PutInv
  <2>9. tables' = Put(Now, n, u).tables
    BY <1>2, <1>4
  <2> DEFINE f == Put(Now, n, u)
  <2>10. f.tables = Holding(Now, n, u)
    BY <2>8
  <2> HIDE DEF f
  <2> QED BY <1>1, <2>7, <2>9, <2>10, OneTableAdmitted DEF f
<1> QED BY <1>3, <1>4

\* INSERT of one row, UPDATE and ALTER TABLE put no cell into a column that
\* does not admit it.
THEOREM StatementsAdmitHolds ==
  Spec => StatementsAdmit
<1> DEFINE P == AllAdmitted(tables) /\ call'.op \in {"insert", "update", "alter"}
                  => AllAdmitted(tables')
<1>1. IInv /\ [Next]_vars => [P]_vars
  <2> SUFFICES ASSUME IInv, Next, AllAdmitted(tables),
                      call'.op \in {"insert", "update", "alter"}
               PROVE  AllAdmitted(tables')
    BY DEF vars
  <2>1. ASSUME NEW n \in Names, NEW map \in Inserted, InsertRow(n, map)
        PROVE  AllAdmitted(tables')
    BY <2>1, InsertAdmits
  <2>2. ASSUME NEW n \in Names, NEW clause, NEW cells, Update(n, clause, cells)
        PROVE  AllAdmitted(tables')
    BY <2>2, UpdateAdmits
  <2>3. ASSUME NEW n \in Names, NEW column \in Extras, AddColumn(n, column)
        PROVE  AllAdmitted(tables')
    BY <2>3, AlterAdmits
  <2>4. ASSUME NEW e, NEW args, Did(e, args),
               "answer" \notin DOMAIN args, "op" \in DOMAIN args,
               args.op \notin {"insert", "update", "alter"}
        PROVE  FALSE
    BY <2>4, Called
  <2>5. ASSUME NEW n \in Names, NEW columns \in Schemas
        PROVE  ~Create(n, columns)
    <3> DEFINE args == [op |-> "create", table |-> n,
                        columns |-> {columns[i].name : i \in DOMAIN columns}]
    <3>1. "answer" \notin DOMAIN args /\ "op" \in DOMAIN args
          /\ args.op \notin {"insert", "update", "alter"}
      OBVIOUS
    <3>2. Create(n, columns) => Did(Put(Now, n, NewTable(columns)), args)
      BY DEF Create
    <3> HIDE DEF args
    <3> QED BY <2>4, <3>1, <3>2
  <2>6. ASSUME NEW n \in Names
        PROVE  ~DropTable(n)
    <3> DEFINE args == [op |-> "drop", table |-> n]
    <3>1. "answer" \notin DOMAIN args /\ "op" \in DOMAIN args
          /\ args.op \notin {"insert", "update", "alter"}
      OBVIOUS
    <3>2. DropTable(n) => \E e : Did(e, args)
      BY DEF DropTable
    <3> HIDE DEF args
    <3> QED BY <2>4, <3>1, <3>2
  <2>7. ASSUME NEW n \in Names, NEW clause
        PROVE  ~DeleteRows(n, clause) /\ ~Select(n, clause)
    <3> DEFINE args == [op |-> "delete", table |-> n, clause |-> clause]
               args2(found) == [op |-> "select", table |-> n, clause |-> clause, found |-> found]
    <3>1. "answer" \notin DOMAIN args /\ "op" \in DOMAIN args
          /\ args.op \notin {"insert", "update", "alter"}
      OBVIOUS
    <3>2. ASSUME NEW found
          PROVE  /\ "answer" \notin DOMAIN args2(found)
                 /\ "op" \in DOMAIN args2(found)
                 /\ args2(found).op \notin {"insert", "update", "alter"}
      OBVIOUS
    <3>3. DeleteRows(n, clause) => \E e : Did(e, args)
      BY DEF DeleteRows
    <3>4. Select(n, clause) => \E e, found : Did(e, args2(found))
      BY DEF Select
    <3> HIDE DEF args, args2
    <3> QED BY <2>4, <3>1, <3>2, <3>3, <3>4
  <2>8. ASSUME NEW stmt \in Prepared, NEW rows
        PROVE  /\ "answer" \notin DOMAIN Asked(stmt, rows)
               /\ "op" \in DOMAIN Asked(stmt, rows)
               /\ Asked(stmt, rows).op \notin {"insert", "update", "alter"}
    BY DEF Asked
  <2>9. ASSUME NEW stmt \in Prepared, NEW flat \in FlatParams
        PROVE  ~InsertRows(stmt, flat) /\ ~RunBatch(stmt, flat)
    <3>1. InsertRows(stmt, flat) \/ RunBatch(stmt, flat)
            => \E e, rows : Did(e, Asked(stmt, rows))
      BY DEF InsertRows, RunBatch
    <3> QED BY <2>4, <2>8, <3>1
  <2>10. ~BeginTransaction /\ ~Commit /\ ~Rollback
    BY DEF BeginTransaction, Commit, Rollback
  <2>11. NewExecutor => AllAdmitted(tables')
    BY DEF NewExecutor, AllAdmitted
  <2> QED BY <2>1, <2>2, <2>3, <2>5, <2>6, <2>7, <2>9, <2>10, <2>11 DEF Next
<1> QED BY <1>1, SessionsKeepTables, PTL DEF Spec, StatementsAdmit

-----------------------------------------------------------------------------
(* UPDATE reaches every row it finds *)

\* One UPDATE of a table that was not replaced.
LEMMA UpdateReachesAll ==
  ASSUME IInv, NEW n \in Names, NEW clause, NEW cells, Update(n, clause, cells),
         Lives(n), n \notin replaced,
         \A p \in Found(tables[n], clause) :
           Admitted(tables[n], Merged(cells, RowMap(tables[n], p)))
  PROVE  call'.answer = "ok"
<1> DEFINE o == tables[n]
           f == UpdateWhere(Now, n, clause, cells)
           d == PopulateOnce(Now, n)
           t == d.tables[n]
           args == [op |-> "update", table |-> n, clause |-> clause, cells |-> cells]
<1>1. EffectInv(Now) /\ Now.tables = tables /\ Exists(Now, n) /\ Now.tables[n] = o
  BY NowInv
<1>2. call'.answer = f.answer
  <2>1. "answer" \notin DOMAIN args /\ Did(f, args)
    BY DEF Update
  <2> HIDE DEF f, args
  <2> QED BY <2>1, Called
<1>3. TableInv(o) /\ TableInv(t) /\ SameRows(o, t) /\ ~t.sequential
  <2> HIDE DEF o
  <2> QED BY <1>1, PopulateInv, ExistingInv
<1>4. UpdateReached(f, d, n, t, clause, cells, Len(t.ids))
  BY <1>1, UpdateInv
<1>5. \A p \in Found(o, clause) : Admitted(o, Merged(cells, RowMap(o, p)))
  OBVIOUS
<1> HIDE DEF o, f, d, t
<1>6. \A p \in Found(t, clause) : Admitted(t, NewCells(t, p, cells))
  BY <1>3, <1>5, SameFound DEF NewCells
<1>7. f.answer = "ok"
  BY <1>3, <1>4, <1>6 DEF UpdateReached
<1> QED BY <1>2, <1>7

\* An UPDATE whose rows all admit their new cells is carried out in full, unless
\* the table was replaced behind the executor's list of names.
THEOREM UpdateReachesHolds ==
  Spec => UpdateReaches
<1> DEFINE P == \A n \in Names, clause \in Clauses \cup {NoClause}, cells \in Assignments :
                  /\ call'.op = "update" /\ Lives(n) /\ n \notin replaced
                  /\ \A p \in Found(tables[n], clause) :
                       Admitted(tables[n], Merged(cells, RowMap(tables[n], p)))
                  /\ Update(n, clause, cells)
                  => call'.answer = "ok"
<1>1. IInv /\ [Next]_vars => [P]_vars
  BY UpdateReachesAll
<1> QED BY <1>1, SessionsKeepTables, PTL DEF Spec, UpdateReaches

-----------------------------------------------------------------------------
(* Every call is a call of Relations *)

\* What Relations remembers of the transaction.
Remembered ==
  IF saved.taken THEN [taken |-> TRUE, relations |-> AsRelations(saved.tables)] ELSE saved

\* A table that is put under a name.
LEMMA Becoming ==
  ASSUME IInv, NEW n \in Names, NEW u, tables' = Holding(Now, n, u)
  PROVE  Abstract!Becomes(n, AsRelation(u))
<1>1. EffectInv(Now) /\ Now.tables = tables
  BY NowInv
<1>2. AsRelations(Holding(Now, n, u)) = [AsRelations(Now.tables) EXCEPT ![n] = AsRelation(u)]
  BY <1>1, BecomesOne
<1>3. AsRelations(tables)' = AsRelations(tables')
  BY DEF AsRelations
<1> QED BY <1>1, <1>2, <1>3 DEF Abstract!Becomes

\* A call that puts a table under a name.
LEMMA PutDid ==
  ASSUME IInv, NEW n \in Names, NEW u, NEW args, "answer" \notin DOMAIN args,
         Did(Put(Now, n, u), args)
  PROVE  /\ Abstract!Becomes(n, AsRelation(u)) /\ Abstract!Answered("ok")
         /\ \A field \in DOMAIN args : call'[field] = args[field]
<1> DEFINE e == Put(Now, n, u)
           ts == [tables EXCEPT ![n] = u]
<1>1. e = Effect(ts, populated, "ok")
  <2>1. Now = Effect(tables, populated, "ok")
    BY DEF Now
  <2>2. Put(Effect(tables, populated, "ok"), n, u) = Effect(ts, populated, "ok")
    BY PutParts
  <2> HIDE DEF ts
  <2> QED BY <2>1, <2>2
<1>2. Now.tables = tables
  BY NowInv
<1>3. Did(e, args)
  OBVIOUS
<1> HIDE DEF e, ts
<1>4. e.tables = ts /\ e.answer = "ok"
  BY <1>1 DEF Effect
<1>5. tables' = Holding(Now, n, u)
  BY <1>2, <1>3, <1>4 DEF Did, Holding, ts
<1>6. call'.answer = "ok" /\ \A field \in DOMAIN args : call'[field] = args[field]
  BY <1>3, <1>4, Called
<1> QED BY <1>5, <1>6, Becoming DEF Abstract!Answered

\* A call that is refused changes no relation.
LEMMA RefusedDid ==
  ASSUME IInv, NEW args, "answer" \notin DOMAIN args, Did(Refuse(Now), args), saved' = saved
  PROVE  Abstract!Refused
<1> DEFINE e == Refuse(Now)
<1>1. EffectInv(Now) /\ Now.tables = tables
  BY NowInv
<1>2. e.tables = tables /\ e.answer = "error" /\ Did(e, args)
  BY <1>1, RefuseInv
<1> HIDE DEF e
<1>3. tables' = tables /\ call'.answer = "error"
  BY <1>2, Called DEF Did
<1>4. AsRelations(tables)' = AsRelations(tables) /\ Remembered' = Remembered
  BY <1>3 DEF AsRelations, Remembered
<1> QED BY <1>3, <1>4 DEF Abstract!Refused, Abstract!Answered, Remembered

\* A name is that of a relation when it is that of a table.
LEMMA RelationThere ==
  ASSUME IInv, NEW n \in Names
  PROVE  /\ Abstract!Exists(n) <=> Lives(n)
         /\ AsRelations(tables)[n] = AsRelation(tables[n])
         /\ Lives(n) => TableInv(tables[n])
         /\ Exists(Now, n) <=> Lives(n)
<1>1. TablesInv(tables)
  BY DEF IInv
<1>2. /\ AsRelations(tables)[n] = AsRelation(tables[n])
      /\ AsRelations(tables)[n].exists = tables[n].exists
      /\ tables[n].exists => TableInv(tables[n])
  BY <1>1, AsManyRelations
<1> QED BY <1>2, NowInv DEF Abstract!Exists, Lives

\* The transaction is as it was.
LEMMA SavedSame ==
  ASSUME saved' = saved
  PROVE  Remembered' = Remembered
<1> QED BY DEF Remembered, AsRelations

\* CREATE TABLE.
LEMMA CreateRefines ==
  ASSUME IInv, NEW n \in Names, NEW columns \in Schemas, Create(n, columns)
  PROVE  Abstract!Create
<1> DEFINE t == NewTable(columns)
           names == {columns[i].name : i \in DOMAIN columns}
           args == [op |-> "create", table |-> n, columns |-> names]
<1>1. Did(Put(Now, n, t), args) /\ saved' = saved
  BY DEF Create
<1>2. "answer" \notin DOMAIN args /\ DOMAIN args = {"op", "table", "columns"}
      /\ args["op"] = "create" /\ args["table"] = n /\ args["columns"] = names
  OBVIOUS
<1>3. AsRelation(t) = Abstract!Relation(names, <<>>, 0)
  BY ColumnsAssumption, NewRelation
<1> HIDE DEF t, args, names
<1>4. Abstract!Becomes(n, AsRelation(t)) /\ Abstract!Answered("ok")
      /\ \A field \in DOMAIN args : call'[field] = args[field]
  BY <1>1, <1>2, PutDid
<1>5. call'.op = "create" /\ call'.table = n /\ call'.columns = names
  BY <1>2, <1>4
<1>6. Remembered' = Remembered
  BY <1>1, SavedSame
<1> QED BY <1>3, <1>4, <1>5, <1>6 DEF Abstract!Create, Abstract!Asks, Remembered

\* DROP TABLE.
LEMMA DropRefines ==
  ASSUME IInv, NEW n \in Names, DropTable(n)
  PROVE  Abstract!Drop \/ Abstract!Refused
<1> DEFINE args == [op |-> "drop", table |-> n]
<1>1. Did(IF Lives(n) THEN Put(Now, n, NoTable) ELSE Refuse(Now), args) /\ saved' = saved
  BY DEF DropTable
<1>2. "answer" \notin DOMAIN args /\ DOMAIN args = {"op", "table"}
      /\ args["op"] = "drop" /\ args["table"] = n
  OBVIOUS
<1> HIDE DEF args
<1>3. CASE ~Lives(n)
  BY <1>1, <1>2, <1>3, RefusedDid
<1>4. CASE Lives(n)
  <2>1. Abstract!Becomes(n, AsRelation(NoTable)) /\ Abstract!Answered("ok")
        /\ \A field \in DOMAIN args : call'[field] = args[field]
    BY <1>1, <1>2, <1>4, PutDid
  <2>2. AsRelation(NoTable) = Abstract!Missing
    BY DEF AsRelation, NoTable, Abstract!Missing
  <2>3. call'.op = "drop" /\ call'.table = n
    BY <1>2, <2>1
  <2>4. Abstract!Exists(n) /\ Remembered' = Remembered
    BY <1>1, <1>4, RelationThere, SavedSame
  <2> QED BY <2>1, <2>2, <2>3, <2>4 DEF Abstract!Drop, Abstract!Asks, Remembered
<1> QED BY <1>3, <1>4

\* ALTER TABLE ADD COLUMN.
LEMMA AlterRefines ==
  ASSUME IInv, NEW n \in Names, NEW column \in Extras, AddColumn(n, column)
  PROVE  Abstract!AddColumn \/ Abstract!Refused
<1> DEFINE t == tables[n]
           u == WithColumn(t, column)
           name == column.name
           args == [op |-> "alter", table |-> n, column |-> name]
<1>1. Did(IF Lives(n) THEN Put(Now, n, u) ELSE Refuse(Now), args) /\ saved' = saved
  BY DEF AddColumn
<1>2. "answer" \notin DOMAIN args /\ DOMAIN args = {"op", "table", "column"}
      /\ args["op"] = "alter" /\ args["table"] = n /\ args["column"] = name
  OBVIOUS
<1> HIDE DEF args
<1>3. CASE ~Lives(n)
  BY <1>1, <1>2, <1>3, RefusedDid
<1>4. CASE Lives(n)
  <2> DEFINE r == AsRelation(t)
             names == r.columns \cup {name}
             v == Abstract!Relation(names,
                    [id \in DOMAIN r.rows |-> Abstract!Over([c \in names |-> Null],
                       [c \in r.columns \ {name} |-> r.rows[id][c]])],
                    r.next)
  <2>1. AsRelation(u) = v
    <3>1. TableInv(t) /\ column \in Columns
      BY <1>4, RelationThere DEF Columns
    <3> HIDE DEF t
    <3> QED BY <3>1, AlterRelation
  <2> HIDE DEF u, t
  <2>2. Abstract!Becomes(n, AsRelation(u)) /\ Abstract!Answered("ok")
        /\ \A field \in DOMAIN args : call'[field] = args[field]
    BY <1>1, <1>2, <1>4, PutDid
  <2>3. call'.op = "alter" /\ call'.table = n /\ call'.column = name
    BY <1>2, <2>2
  <2>4. Abstract!Exists(n) /\ Remembered' = Remembered /\ AsRelations(tables)[n] = r
    BY <1>1, <1>4, RelationThere, SavedSame DEF t
  <2>5. Abstract!Becomes(n, v)
    BY <2>1, <2>2
  <2> HIDE DEF name
  <2> QED BY <2>2, <2>3, <2>4, <2>5 DEF Abstract!AddColumn, Abstract!Asks, Remembered
<1> QED BY <1>3, <1>4

\* INSERT of one row.
LEMMA InsertRefines ==
  ASSUME IInv, NEW n \in Names, NEW map, InsertRow(n, map)
  PROVE  Abstract!Insert \/ Abstract!Refused
<1> DEFINE t == tables[n]
           f == InsertOne(Now, n, map)
           cells == Converted(t, map)
           u == Append1(t, cells)
           maps == <<map>>
           args == [op |-> "insert", table |-> n, rows |-> maps]
<1>1. EffectInv(Now) /\ Now.tables = tables /\ (Exists(Now, n) <=> Lives(n))
  BY NowInv
<1>2. Did(f, args) /\ saved' = saved /\ Room(n, 1)
  BY DEF InsertRow
<1>3. "answer" \notin DOMAIN args /\ DOMAIN args = {"op", "table", "rows"}
      /\ args["op"] = "insert" /\ args["table"] = n /\ args["rows"] = maps
  OBVIOUS
<1>4. Exists(Now, n) => Now.tables[n].nextId < MaxIds
  <2> SUFFICES ASSUME Lives(n)  PROVE t.nextId < MaxIds
    BY <1>1
  <2>1. t.nextId + 1 <= MaxIds
    BY <1>2 DEF Room
  <2>2. TableInv(t)
    BY <1>1, ExistingInv
  <2>3. t.nextId \in 0 .. MaxIds
    BY <2>2 DEF TableInv, IsTable
  <2> QED BY <2>1, <2>3, MaxIdsAssumption
<1>5. \/ f = Refuse(Now)
      \/ /\ Exists(Now, n) /\ f = Put(Now, n, u)
         /\ TableInv(t) /\ AppendedTo(t, u, <<cells>>, 1)
  <2> HIDE DEF f
  <2> QED BY <1>1, <1>4, InsertOneInv DEF f
<1> HIDE DEF f, args, maps
<1>6. CASE f = Refuse(Now)
  BY <1>2, <1>3, <1>6, RefusedDid
<1>7. CASE /\ Exists(Now, n) /\ f = Put(Now, n, u)
           /\ TableInv(t) /\ AppendedTo(t, u, <<cells>>, 1)
  <2> HIDE DEF u
  <2>1. Abstract!Becomes(n, AsRelation(u)) /\ Abstract!Answered("ok")
        /\ \A field \in DOMAIN args : call'[field] = args[field]
    BY <1>2, <1>3, <1>7, PutDid
  <2>2. call'.op = "insert" /\ call'.table = n /\ call'.rows = maps
    BY <1>3, <2>1
  <2>3. Abstract!Exists(n) /\ Remembered' = Remembered /\ AsRelations(tables)[n] = AsRelation(t)
    BY <1>1, <1>2, <1>7, RelationThere, SavedSame
  <2>4. AsRelation(u) = Abstract!Extended(AsRelation(t), maps)
    <3>1. IsTable(t)
      BY <1>7 DEF TableInv
    <3> HIDE DEF t
    <3>2. \A c \in ColumnNames(t) :
            cells[ColumnIndex(t, c)] = IF c \in DOMAIN map THEN map[c] ELSE Null
      BY <3>1, ConvertedAt
    <3> HIDE DEF cells
    <3> DEFINE rows == <<cells>>
               k == 1
    <3>3. k \in Nat /\ Len(maps) = k
      BY DEF maps
    <3>4. \A r \in 1 .. k : \A c \in ColumnNames(t) :
            rows[r][ColumnIndex(t, c)] = IF c \in DOMAIN maps[r] THEN maps[r][c] ELSE Null
      <4>1. 1 .. k = {1} /\ rows[1] = cells /\ maps[1] = map
        BY DEF maps
      <4> HIDE DEF rows, maps, k
      <4> QED BY <3>2, <4>1
    <3>5. AppendedTo(t, u, rows, k) /\ TableInv(t)
      BY <1>7
    <3> HIDE DEF rows, maps, k
    <3> QED BY <3>3, <3>4, <3>5, InsertRelation
  <2>5. Abstract!Becomes(n, Abstract!Extended(AsRelations(tables)[n], maps))
    BY <2>1, <2>3, <2>4
  <2> QED BY <2>1, <2>2, <2>3, <2>5 DEF Abstract!Insert, Abstract!Asks, Remembered
<1> QED BY <1>5, <1>6, <1>7

\* What a batch is said to have asked.
LEMMA AskedParts ==
  ASSUME NEW stmt, NEW rows
  PROVE  LET args == Asked(stmt, rows)
         IN  /\ "answer" \notin DOMAIN args /\ {"op", "table"} \subseteq DOMAIN args
             /\ args["table"] = stmt.table
             /\ stmt.op = "insert" => /\ args["op"] = "insert many" /\ "rows" \in DOMAIN args
                                      /\ args["rows"] = args.rows
             /\ stmt.op # "insert" => /\ args["op"] = "update each" /\ "changes" \in DOMAIN args
                                      /\ args["changes"] = args.changes
<1>1. CASE stmt.op = "insert"
  BY <1>1 DEF Asked
<1>2. CASE stmt.op # "insert"
  BY <1>2 DEF Asked
<1> QED BY <1>1, <1>2

\* A table that is what a batch asks for.
LEMMA BatchRefines ==
  ASSUME IInv, NEW stmt, stmt.table \in Names, NEW rows, NEW u, Lives(stmt.table),
         BatchDone(tables[stmt.table], u, stmt, rows),
         Did(Put(Now, stmt.table, u), Asked(stmt, rows)), saved' = saved
  PROVE  Abstract!Insert \/ Abstract!UpdateEach
<1> DEFINE n == stmt.table
           t == tables[n]
           args == Asked(stmt, rows)
           inserted == args.rows
           changes == args.changes
<1>1. /\ "answer" \notin DOMAIN args /\ {"op", "table"} \subseteq DOMAIN args
      /\ args["table"] = n
      /\ stmt.op = "insert" => /\ args["op"] = "insert many" /\ "rows" \in DOMAIN args
                               /\ args["rows"] = inserted
      /\ stmt.op # "insert" => /\ args["op"] = "update each" /\ "changes" \in DOMAIN args
                               /\ args["changes"] = changes
  BY AskedParts
<1>2. Did(Put(Now, n, u), args) /\ n \in Names
  OBVIOUS
<1>3. /\ stmt.op = "insert" => AsRelation(u) = Abstract!Extended(AsRelation(t), inserted)
      /\ stmt.op # "insert" => AsRelation(u) = Abstract!AssignedEach(AsRelation(t), changes)
  BY DEF BatchDone
<1>4. Abstract!Exists(n) /\ Remembered' = Remembered /\ AsRelations(tables)[n] = AsRelation(t)
  BY RelationThere, SavedSame
<1> HIDE DEF n, t, args, inserted, changes
<1>5. Abstract!Becomes(n, AsRelation(u)) /\ Abstract!Answered("ok")
      /\ \A field \in DOMAIN args : call'[field] = args[field]
  <2>1. "answer" \notin DOMAIN args
    BY <1>1
  <2> QED BY <1>2, <2>1, PutDid
<1>6. CASE stmt.op = "insert"
  <2>1. call'.op = "insert many" /\ call'.table = n /\ call'.rows = inserted
    BY <1>1, <1>5, <1>6
  <2>2. Abstract!Becomes(n, Abstract!Extended(AsRelations(tables)[n], inserted))
    BY <1>3, <1>4, <1>5, <1>6
  <2> QED BY <1>4, <1>5, <2>1, <2>2 DEF Abstract!Insert, Abstract!Asks, Remembered
<1>7. CASE stmt.op # "insert"
  <2>1. call'.op = "update each" /\ call'.table = n /\ call'.changes = changes
    BY <1>1, <1>5, <1>7
  <2>2. Abstract!Becomes(n, Abstract!AssignedEach(AsRelations(tables)[n], changes))
    BY <1>3, <1>4, <1>5, <1>7
  <2> QED BY <1>4, <1>5, <2>1, <2>2 DEF Abstract!UpdateEach, Abstract!Asks, Remembered
<1> QED BY <1>6, <1>7

\* runBatch.
LEMMA RunBatchRefines ==
  ASSUME IInv, NEW stmt \in Prepared, NEW flat \in FlatParams, RunBatch(stmt, flat)
  PROVE  Abstract!Insert \/ Abstract!UpdateEach \/ Abstract!Refused
<1> DEFINE n == stmt.table
           t == tables[n]
           rows == Chunks(flat, Placeholders(stmt))
           e == [RunRows(Fresh, stmt, rows) EXCEPT !.populated = populated]
           args == Asked(stmt, rows)
<1>1. n \in Names
  BY SomePlaceholders
<1>2. /\ Did(e, args) /\ saved' = saved
      /\ stmt.op = "insert" => Room(n, Len(rows))
      /\ stmt.op = "update" /\ Lives(n) => stmt.column \in ColumnNames(t)
  BY DEF RunBatch
<1>3. \/ e = Refuse(Now)
      \/ \E u : /\ Lives(n) /\ TableInv(t) /\ e = Put(Now, n, u)
                /\ BatchDone(t, u, stmt, rows)
  <2> HIDE DEF rows
  <2> QED BY <1>2, RunRowsInv DEF rows
<1>4. "answer" \notin DOMAIN args
  BY AskedParts
<1> HIDE DEF e, rows
<1>5. CASE e = Refuse(Now)
  <2> HIDE DEF args
  <2> QED BY <1>2, <1>4, <1>5, RefusedDid
<1>6. ASSUME NEW u, Lives(n), e = Put(Now, n, u), BatchDone(t, u, stmt, rows)
      PROVE  Abstract!Insert \/ Abstract!UpdateEach
  BY <1>1, <1>2, <1>6, BatchRefines
<1> QED BY <1>3, <1>5, <1>6

\* INSERT of several rows.
LEMMA InsertRowsRefines ==
  ASSUME IInv, NEW stmt \in Prepared, NEW flat \in FlatParams, InsertRows(stmt, flat)
  PROVE  Abstract!Insert \/ Abstract!UpdateEach \/ Abstract!Refused
<1> DEFINE n == stmt.table
           t == tables[n]
           columns == stmt.columns
           rows == Chunks(flat, Placeholders(stmt))
           e == InsertMany(Now, n, columns, rows)
           args == Asked(stmt, rows)
           placed == [r \in DOMAIN rows |-> Placed(t, columns, rows[r])]
           u == AppendAll(t, placed)
<1>1. EffectInv(Now) /\ Now.tables[n] = t /\ (Exists(Now, n) <=> Lives(n))
  BY NowInv
<1>2. n \in Names /\ Len(rows) \in Nat /\ DOMAIN rows = 1 .. Len(rows)
  BY SomePlaceholders, ChunksList
<1>3. Did(e, args) /\ saved' = saved /\ stmt.op = "insert" /\ Room(n, Len(rows))
  BY DEF InsertRows
<1>4. Exists(Now, n) => Now.tables[n].nextId + Len(rows) <= MaxIds
  BY <1>1, <1>3 DEF Room
<1>5. \/ e = Refuse(Now)
      \/ /\ e = Put(Now, n, u) /\ TableInv(t) /\ AppendedTo(t, u, placed, Len(rows))
         /\ Lives(n) /\ \A i \in DOMAIN columns : ColumnIndex(t, columns[i]) # 0
  <2> HIDE DEF n, columns, rows
  <2> QED BY <1>1, <1>2, <1>4, InsertManyInv
<1>6. "answer" \notin DOMAIN args
  BY AskedParts
<1> HIDE DEF e, u
<1>7. CASE e = Refuse(Now)
  <2> HIDE DEF args
  <2> QED BY <1>3, <1>6, <1>7, RefusedDid
<1>8. CASE /\ e = Put(Now, n, u) /\ TableInv(t) /\ AppendedTo(t, u, placed, Len(rows))
           /\ Lives(n) /\ \A i \in DOMAIN columns : ColumnIndex(t, columns[i]) # 0
  <2>1. AsRelation(u) = Abstract!Extended(AsRelation(t), Asked(stmt, rows).rows)
    <3> HIDE DEF t, rows
    <3> QED BY <1>3, <1>8, ManyRelation DEF rows
  <2>2. TableInv(u) /\ u.sequential = t.sequential
    BY <1>8 DEF AppendedTo
  <2>3. BatchDone(t, u, stmt, rows)
    <3> HIDE DEF t, rows
    <3> QED BY <1>3, <2>1, <2>2 DEF BatchDone
  <2> HIDE DEF rows
  <2> QED BY <1>2, <1>3, <1>8, <2>3, BatchRefines
<1> QED BY <1>5, <1>7, <1>8

\* UPDATE: the cells are assigned to some of the rows the condition holds for,
\* to all of them unless it is refused.
LEMMA UpdateRefines ==
  ASSUME IInv, NEW n \in Names, NEW clause, NEW cells, Update(n, clause, cells)
  PROVE  Abstract!Update \/ Abstract!Refused
<1> DEFINE o == tables[n]
           f == UpdateWhere(Now, n, clause, cells)
           d == PopulateOnce(Now, n)
           t == d.tables[n]
           args == [op |-> "update", table |-> n, clause |-> clause, cells |-> cells]
<1>1. EffectInv(Now) /\ Now.tables[n] = o /\ (Exists(Now, n) <=> Lives(n))
  BY NowInv
<1>2. Did(f, args) /\ saved' = saved
  BY DEF Update
<1>3. "answer" \notin DOMAIN args /\ DOMAIN args = {"op", "table", "clause", "cells"}
      /\ args["op"] = "update" /\ args["table"] = n
      /\ args["clause"] = clause /\ args["cells"] = cells
  OBVIOUS
<1> HIDE DEF args
<1>4. CASE ~Lives(n)
  <2>1. f = Refuse(Now)
    BY <1>1, <1>4 DEF UpdateWhere
  <2> HIDE DEF f
  <2> QED BY <1>2, <1>3, <2>1, RefusedDid
<1>5. CASE Lives(n)
  <2>1. d.tables = Holding(Now, n, t) /\ TableInv(t) /\ SameRows(o, t)
    BY <1>1, <1>5, PopulateInv
  <2>2. TableInv(o) /\ Abstract!Exists(n) /\ AsRelations(tables)[n] = AsRelation(o)
        /\ Remembered' = Remembered
    BY <1>2, <1>5, RelationThere, SavedSame
  <2>3. UpdateReached(f, d, n, t, clause, cells, Len(t.ids))
    BY <1>1, <1>5, UpdateInv
  <2> HIDE DEF f, d, t, o
  <2>4. PICK u, P : /\ P \subseteq Found(t, clause) \cap (1 .. Len(t.ids))
                    /\ f.answer = "ok" => P = Found(t, clause) \cap (1 .. Len(t.ids))
                    /\ Written(t, u, P, cells) /\ f.tables = Holding(d, n, u)
    BY <2>3 DEF UpdateReached
  <2>5. Found(t, clause) \subseteq Rows(t) /\ Rows(t) = 1 .. Len(t.ids)
    BY <2>1, FoundRows, Fields DEF TableInv
  <2>6. P \subseteq Found(t, clause) /\ P \subseteq Rows(t)
        /\ (f.answer = "ok" => P = Found(t, clause))
    BY <2>4, <2>5
  <2>7. Abstract!Becomes(n, AsRelation(u))
    <3>1. Holding(d, n, u) = Holding(Now, n, u)
      BY <1>1, <2>1, HoldingTwice
    <3>2. tables' = f.tables
      BY <1>2 DEF Did
    <3> QED BY <2>4, <3>1, <3>2, Becoming
  <2>8. AsRelation(t) = AsRelation(o)
    BY <2>1, <2>2, SameRelation
  <2> DEFINE ids == {t.ids[p] : p \in P}
             r == AsRelation(o)
  <2>9. AsRelation(u) = Abstract!Assigned(r, ids, cells)
    BY <2>1, <2>4, <2>6, <2>8, UpdateRelation
  <2>10. Abstract!Matching(r, clause) = {t.ids[p] : p \in Found(t, clause)}
    BY <2>1, <2>8, MatchingFound
  <2>11. ids \in SUBSET Abstract!Matching(r, clause)
         /\ (f.answer = "ok" => ids = Abstract!Matching(r, clause))
    BY <2>6, <2>10
  <2> HIDE DEF ids, r
  <2>12. call'.answer = f.answer /\ \A field \in DOMAIN args : call'[field] = args[field]
    BY <1>2, <1>3, Called
  <2>13. call'.op = "update" /\ call'.table = n /\ call'.clause = clause /\ call'.cells = cells
    BY <1>3, <2>12
  <2>14. AsRelations(tables)[n] = r /\ Abstract!Becomes(n, Abstract!Assigned(r, ids, cells))
    BY <2>2, <2>7, <2>9 DEF r
  <2> QED
    BY <2>2, <2>11, <2>12, <2>13, <2>14
    DEF Abstract!Update, Abstract!Asks, Abstract!Answered, Remembered
<1> QED BY <1>4, <1>5

\* DELETE.
LEMMA DeleteRefines ==
  ASSUME IInv, NEW n \in Names, NEW clause, DeleteRows(n, clause)
  PROVE  Abstract!Delete \/ Abstract!Refused
<1> DEFINE o == tables[n]
           f == DeleteWhere(Now, n, clause)
           d == PopulateOnce(Now, n)
           t == d.tables[n]
           args == [op |-> "delete", table |-> n, clause |-> clause]
<1>1. EffectInv(Now) /\ Now.tables[n] = o /\ (Exists(Now, n) <=> Lives(n))
  BY NowInv
<1>2. Did(f, args) /\ saved' = saved
  BY DEF DeleteRows
<1>3. "answer" \notin DOMAIN args /\ DOMAIN args = {"op", "table", "clause"}
      /\ args["op"] = "delete" /\ args["table"] = n /\ args["clause"] = clause
  OBVIOUS
<1> HIDE DEF args
<1>4. CASE ~Lives(n)
  <2>1. f = Refuse(Now)
    BY <1>1, <1>4 DEF DeleteWhere
  <2> HIDE DEF f
  <2> QED BY <1>2, <1>3, <2>1, RefusedDid
<1>5. CASE Lives(n)
  <2>1. EffectInv(d) /\ d.tables = Holding(Now, n, t) /\ TableInv(t) /\ SameRows(o, t)
    BY <1>1, <1>5, PopulateInv
  <2>2. TableInv(o) /\ Abstract!Exists(n) /\ AsRelations(tables)[n] = AsRelation(o)
        /\ Remembered' = Remembered
    BY <1>2, <1>5, RelationThere, SavedSame
  <2>3. PICK u : f = Put(d, n, u) /\ Deleted(t, u, Found(t, clause))
    BY <1>1, <1>5, DeletedAll
  <2>4. n \in d.populated \ replaced => ~t.sequential
    <3>1. t.exists = TRUE
      BY <2>1, Fields DEF TableInv
    <3> QED BY <2>1, <3>1 DEF EffectInv, Exists
  <2> HIDE DEF f, d, t, o
  <2>5. TableInv(u) /\ (~t.sequential => ~u.sequential)
    BY <2>3 DEF Deleted
  <2>6. f.tables = Holding(d, n, u) /\ f.answer = "ok"
    BY <2>1, <2>3, <2>4, <2>5, PutInv
  <2>7. Abstract!Becomes(n, AsRelation(u))
    <3>1. Holding(d, n, u) = Holding(Now, n, u)
      BY <1>1, <2>1, HoldingTwice
    <3>2. tables' = f.tables
      BY <1>2 DEF Did
    <3> QED BY <2>6, <3>1, <3>2, Becoming
  <2>8. AsRelation(t) = AsRelation(o)
    BY <2>1, <2>2, SameRelation
  <2> DEFINE r == AsRelation(o)
  <2>9. Found(t, clause) \subseteq Rows(t)
    BY <2>1, FoundRows
  <2>10. Abstract!Matching(r, clause) = {t.ids[p] : p \in Found(t, clause)}
    BY <2>1, <2>8, MatchingFound
  <2>11. AsRelation(u) = Abstract!Without(r, Abstract!Matching(r, clause))
    BY <2>1, <2>3, <2>8, <2>9, <2>10, DeleteRelation
  <2> HIDE DEF r
  <2>12. call'.answer = "ok" /\ \A field \in DOMAIN args : call'[field] = args[field]
    BY <1>2, <1>3, <2>6, Called
  <2>13. call'.op = "delete" /\ call'.table = n /\ call'.clause = clause
    BY <1>3, <2>12
  <2>14. /\ AsRelations(tables)[n] = r
         /\ Abstract!Becomes(n, Abstract!Without(r, Abstract!Matching(r, clause)))
    BY <2>2, <2>7, <2>11 DEF r
  <2> QED
    BY <2>2, <2>12, <2>13, <2>14
    DEF Abstract!Delete, Abstract!Asks, Abstract!Answered, Remembered
<1> QED BY <1>4, <1>5

\* SELECT.
LEMMA SelectRefines ==
  ASSUME IInv, NEW n \in Names, NEW clause, Select(n, clause)
  PROVE  Abstract!Select \/ Abstract!Refused
<1> DEFINE o == tables[n]
           f == SelectWhere(Now, n, clause)
           t == f.tables[n]
           found == Returned(t, clause)
           args == [op |-> "select", table |-> n, clause |-> clause, found |-> found]
<1>1. EffectInv(Now) /\ Now.tables[n] = o /\ Now.tables = tables /\ Now.answer = "ok"
      /\ (Exists(Now, n) <=> Lives(n))
  BY NowInv
<1>2. Did(f, args) /\ saved' = saved
  BY DEF Select
<1>3. "answer" \notin DOMAIN args /\ DOMAIN args = {"op", "table", "clause", "found"}
      /\ args["op"] = "select" /\ args["table"] = n
      /\ args["clause"] = clause /\ args["found"] = found
  OBVIOUS
<1> HIDE DEF args
<1>4. CASE ~Lives(n)
  <2>1. f = Refuse(Now)
    BY <1>1, <1>4, SelectWhereInv
  <2> HIDE DEF f
  <2> QED BY <1>2, <1>3, <2>1, RefusedDid
<1>5. CASE Lives(n)
  <2>1. f.answer = "ok" /\ f.tables = Holding(Now, n, t) /\ TableInv(t) /\ SameRows(o, t)
    BY <1>1, <1>5, SelectWhereInv
  <2>2. TableInv(o) /\ Abstract!Exists(n) /\ AsRelations(tables)[n] = AsRelation(o)
        /\ Remembered' = Remembered
    BY <1>2, <1>5, RelationThere, SavedSame
  <2> DEFINE r == AsRelation(o)
  <2>3. AsRelation(t) = r
    <3> HIDE DEF t, o
    <3> QED BY <2>1, <2>2, SameRelation
  <2>4. found = {[id |-> id, row |-> r.rows[id]] : id \in Abstract!Matching(r, clause)}
    <3>1. found = {[id |-> id, row |-> AsRelation(t).rows[id]] :
                     id \in Abstract!Matching(AsRelation(t), clause)}
      <4> HIDE DEF t
      <4> QED BY <2>1, ReturnedRelation
    <3> HIDE DEF found, r, t
    <3> QED BY <2>3, <3>1
  <2>5. Abstract!Becomes(n, r)
    <3>1. tables' = f.tables
      BY <1>2 DEF Did
    <3> HIDE DEF f, t, r
    <3> QED BY <2>1, <2>3, <3>1, Becoming
  <2> DEFINE rs == AsRelations(tables)
  <2>6. rs[n] = r /\ rs = [m \in Names |-> rs[m]]
    BY <2>2 DEF AsRelations
  <2>7. rs' = rs
    <3>1. rs' = [rs EXCEPT ![n] = r]
      BY <2>5 DEF Abstract!Becomes
    <3> DEFINE next == rs'
    <3> HIDE DEF rs, r, next
    <3> QED BY <2>6, <3>1
  <2> HIDE DEF found, f, r
  <2>8. call'.answer = "ok" /\ \A field \in DOMAIN args : call'[field] = args[field]
    BY <1>2, <1>3, <2>1, Called
  <2>9. call'.op = "select" /\ call'.table = n /\ call'.clause = clause /\ call'.found = found
    BY <1>3, <2>8
  <2> QED
    BY <2>2, <2>4, <2>6, <2>7, <2>8, <2>9
    DEF Abstract!Select, Abstract!Asks, Abstract!Answered, Remembered
<1> QED BY <1>4, <1>5

\* begin, commit and rollback.
LEMMA TransactionRefines ==
  ASSUME IInv, BeginTransaction \/ Commit \/ Rollback
  PROVE  Abstract!Begin \/ Abstract!Commit \/ Abstract!Rollback
<1> DEFINE rs == AsRelations(tables)
<1>1. TablesInv(tables)
  BY DEF IInv
<1>2. CASE BeginTransaction
  <2>1. call'.op = "begin" /\ call'.answer = "ok"
    BY <1>2 DEF BeginTransaction
  <2>2. tables' = tables /\ saved' = Snapshot(tables)
    BY <1>2 DEF BeginTransaction
  <2>3. rs' = rs
    BY <2>2 DEF AsRelations
  <2>4. Remembered' = [taken |-> TRUE, relations |-> rs]
    <3>1. saved'.taken = TRUE /\ saved'.tables = tables
      BY <2>2 DEF Snapshot
    <3>2. AsRelations(saved.tables)' = rs
      BY <3>1 DEF AsRelations
    <3> HIDE DEF rs
    <3> QED BY <3>1, <3>2 DEF Remembered
  <2> QED BY <2>1, <2>3, <2>4 DEF Abstract!Begin, Abstract!Asks, Abstract!Answered, Remembered
<1>3. CASE Commit
  <2>1. call'.op = "commit" /\ call'.answer = "ok"
    BY <1>3 DEF Commit
  <2>2. tables' = tables /\ saved' = saved
    BY <1>3 DEF Commit, state
  <2>3. rs' = rs /\ Remembered' = Remembered
    BY <2>2, SavedSame DEF AsRelations
  <2> QED BY <2>1, <2>3 DEF Abstract!Commit, Abstract!Asks, Abstract!Answered, Remembered
<1>4. CASE Rollback
  <2> DEFINE back == saved.tables
             olds == AsRelations(back)
  <2>1. call'.op = "rollback" /\ call'.answer = "ok"
    BY <1>4 DEF Rollback
  <2>2. saved = Snapshot(back) /\ TablesInv(back) /\ saved' = saved
    BY <1>4 DEF IInv, Rollback
  <2>3. tables' = [n \in Names |-> IF back[n].exists THEN back[n] ELSE tables[n]]
    BY <1>4 DEF Rollback, Restored
  <2>4. Remembered = [taken |-> TRUE, relations |-> olds] /\ Remembered' = Remembered
    <3>1. saved.taken = TRUE
      BY <2>2 DEF Snapshot
    <3> HIDE DEF olds
    <3> QED BY <2>2, <3>1, SavedSame DEF Remembered, olds
  <2>5. \A n \in Names : /\ olds[n] = AsRelation(back[n]) /\ olds[n].exists = back[n].exists
                         /\ rs[n] = AsRelation(tables[n])
    BY <1>1, <2>2, AsManyRelations
  <2>6. rs' = [n \in Names |-> IF olds[n].exists THEN olds[n] ELSE rs[n]]
    <3>1. rs' = [n \in Names |-> AsRelation(tables'[n])]
      BY DEF AsRelations
    <3>2. ASSUME NEW n \in Names
          PROVE  AsRelation(tables'[n]) = IF olds[n].exists THEN olds[n] ELSE rs[n]
      <4> HIDE DEF olds, rs, back
      <4>1. tables'[n] = IF back[n].exists THEN back[n] ELSE tables[n]
        BY <2>3
      <4> QED BY <2>5, <4>1
    <3> DEFINE next == rs'
    <3> HIDE DEF olds, rs, next
    <3> QED BY <3>1, <3>2 DEF next
  <2>7. Remembered.taken = TRUE /\ Remembered.relations = olds
    <3> HIDE DEF olds
    <3> QED BY <2>4
  <2> HIDE DEF olds
  <2> QED BY <2>1, <2>4, <2>6, <2>7
          DEF Abstract!Rollback, Abstract!Asks, Abstract!Answered, Remembered
<1> QED BY <1>2, <1>3, <1>4

\* Every step is one of Relations, or leaves its variables alone.
LEMMA NextRefines ==
  IInv /\ [Next]_vars => [Abstract!Next]_<<AsRelations(tables), Remembered, call>>
<1> SUFFICES ASSUME IInv, [Next]_vars
             PROVE  Abstract!Next \/ UNCHANGED <<AsRelations(tables), Remembered, call>>
  OBVIOUS
<1>1. ASSUME NEW n \in Names, NEW columns \in Schemas, Create(n, columns)
      PROVE  Abstract!Next
  BY <1>1, CreateRefines DEF Abstract!Next
<1>2. ASSUME NEW n \in Names, DropTable(n)
      PROVE  Abstract!Next
  BY <1>2, DropRefines DEF Abstract!Next
<1>3. ASSUME NEW n \in Names, NEW column \in Extras, AddColumn(n, column)
      PROVE  Abstract!Next
  BY <1>3, AlterRefines DEF Abstract!Next
<1>4. ASSUME NEW n \in Names, NEW map \in Inserted, InsertRow(n, map)
      PROVE  Abstract!Next
  BY <1>4, InsertRefines DEF Abstract!Next
<1>5. ASSUME NEW n \in Names, NEW clause, DeleteRows(n, clause) \/ Select(n, clause)
      PROVE  Abstract!Next
  BY <1>5, DeleteRefines, SelectRefines DEF Abstract!Next
<1>6. ASSUME NEW n \in Names, NEW clause, NEW cells, Update(n, clause, cells)
      PROVE  Abstract!Next
  BY <1>6, UpdateRefines DEF Abstract!Next
<1>7. ASSUME NEW stmt \in Prepared, NEW flat \in FlatParams,
             InsertRows(stmt, flat) \/ RunBatch(stmt, flat)
      PROVE  Abstract!Next
  BY <1>7, InsertRowsRefines, RunBatchRefines DEF Abstract!Next
<1>8. CASE BeginTransaction \/ Commit \/ Rollback
  BY <1>8, TransactionRefines DEF Abstract!Next
<1>9. CASE NewExecutor \/ UNCHANGED vars
  <2>1. tables' = tables /\ saved' = saved /\ call' = call
    BY <1>9 DEF NewExecutor, vars
  <2> QED BY <2>1, SavedSame DEF AsRelations
<1> QED BY <1>1, <1>2, <1>3, <1>4, <1>5, <1>6, <1>7, <1>8, <1>9 DEF Next

\* Every call does to the rows what Relations promises of it, and to no other
\* row: the blocks that ALTER copies and DELETE moves, the columns that are
\* found by name, the ids given away again after a rollback.
THEOREM SessionsImplementRelations ==
  Spec => Refinement
<1>1. Init => Abstract!Init
  <2> SUFFICES ASSUME Init  PROVE Abstract!Init
    OBVIOUS
  <2>1. AsRelations(tables) = [n \in Names |-> Abstract!Missing]
    <3>1. AsRelation(NoTable) = Abstract!Missing
      BY DEF AsRelation, NoTable, Abstract!Missing
    <3> QED BY <3>1 DEF Init, AsRelations
  <2>2. Remembered = Abstract!NoSnapshot
    BY DEF Init, Remembered, NoTransaction, Abstract!NoSnapshot
  <2> QED BY <2>1, <2>2 DEF Init, Abstract!Init, Remembered
<1>2. IInv /\ [Next]_vars => [Abstract!Next]_<<AsRelations(tables), Remembered, call>>
  BY NextRefines
<1> QED BY <1>1, <1>2, SessionsKeepTables, PTL DEF Spec, Refinement, Abstract!Spec, Remembered

-----------------------------------------------------------------------------
(* A batch is a sequence of statements *)

\* The statement run once for each row has an effect, the last of its steps.
LEMMA RunSteps ==
  ASSUME NEW e, NEW stmt, NEW rows, Len(rows) \in Nat
  PROVE  \E run : /\ RunEach(e, stmt, rows) = run[Len(rows)]
                  /\ run[0] = e
                  /\ \A k \in 1 .. Len(rows) : run[k] = RunOnce(run[k - 1], stmt, rows[k])
<1> DEFINE m0 == Len(rows)
           Solves(f, m) ==
             f = [k \in 0 .. m |-> IF k = 0 THEN e ELSE RunOnce(f[k - 1], stmt, rows[k])]
           Bad == {m \in Nat : ~\E f : Solves(f, m)}
<1>0. m0 \in Nat
  OBVIOUS
<1>1. Bad = {}
  <2> SUFFICES ASSUME Bad # {}  PROVE FALSE
    OBVIOUS
  <2>1. PICK m \in Bad : \A k \in Bad : m <= k
    BY LeastElement
  <2>2. Solves([k \in 0 .. 0 |-> e], 0)
    OBVIOUS
  <2>3. m # 0 /\ m \in Nat
    BY <2>2
  <2>4. PICK f : Solves(f, m - 1)
    <3>1. m - 1 \in Nat /\ ~(m <= m - 1)
      BY <2>3
    <3>2. m - 1 \notin Bad
      <4> HIDE DEF Bad
      <4> QED BY <2>1, <3>1
    <3> HIDE DEF Solves
    <3> QED BY <3>1, <3>2
  <2> DEFINE g == [k \in 0 .. m |-> IF k = m THEN RunOnce(f[m - 1], stmt, rows[m]) ELSE f[k]]
  <2>5. \A k \in 0 .. m : g[k] = IF k = 0 THEN e ELSE RunOnce(g[k - 1], stmt, rows[k])
    <3>1. ASSUME NEW k \in 0 .. m
          PROVE  g[k] = IF k = 0 THEN e ELSE RunOnce(g[k - 1], stmt, rows[k])
      <4>1. CASE k = m
        <5>1. g[k] = RunOnce(f[m - 1], stmt, rows[m]) /\ g[m - 1] = f[m - 1]
          BY <2>3, <4>1
        <5> HIDE DEF g
        <5> QED BY <2>3, <4>1, <5>1
      <4>2. CASE k # m
        <5>1. g[k] = f[k] /\ k \in 0 .. m - 1
          BY <2>3, <4>2
        <5>2. f[k] = IF k = 0 THEN e ELSE RunOnce(f[k - 1], stmt, rows[k])
          <6> HIDE DEF g
          <6> QED BY <2>4, <5>1
        <5>3. k # 0 => g[k - 1] = f[k - 1]
          BY <2>3, <4>2
        <5> HIDE DEF g
        <5> QED BY <5>1, <5>2, <5>3
      <4> QED BY <4>1, <4>2
    <3> QED BY <3>1
  <2>6. Solves(g, m)
    BY <2>5
  <2> QED BY <2>6
<1> DEFINE run == CHOOSE f : Solves(f, m0)
<1>2. Solves(run, m0)
  <2>1. m0 \notin Bad
    BY <1>0, <1>1
  <2>2. \E f : Solves(f, m0)
    <3> HIDE DEF Solves, m0
    <3> QED BY <1>0, <2>1
  <2> HIDE DEF Solves, m0
  <2> QED BY <2>2
<1>3. RunEach(e, stmt, rows) = run[m0]
  BY DEF RunEach
<1> QED
  <2> HIDE DEF run
  <2>1. \A k \in 0 .. m0 : run[k] = IF k = 0 THEN e ELSE RunOnce(run[k - 1], stmt, rows[k])
    <3> HIDE DEF m0
    <3> QED BY <1>2
  <2>2. run[0] = e
    BY <1>0, <2>1
  <2>3. \A k \in 1 .. m0 : run[k] = RunOnce(run[k - 1], stmt, rows[k])
    BY <1>0, <2>1
  <2> QED BY <1>3, <2>2, <2>3

\* An array with a value for every placeholder is cut into whole rows.
LEMMA WholeChunks ==
  ASSUME NEW flat \in FlatParams, NEW size \in Nat \ {0}, Len(flat) % size = 0
  PROVE  /\ Chunks(flat, size) = WholeRows(flat, size)
         /\ \A i \in 1 .. Len(Chunks(flat, size)) :
              /\ Len(Chunks(flat, size)[i]) = size
              /\ \A j \in 1 .. size : Chunks(flat, size)[i][j] \in Range(flat)
<1> DEFINE n == Len(flat)
           q == n \div size
           S == Range(flat)
<1>1. flat \in Seq(S) /\ n \in Nat
  BY ParamsAssumption
<1>2. q \in Nat /\ n = q * size + 0 /\ n = q * size
  BY <1>1
<1>3. n + size - 1 = q * size + (size - 1) /\ size - 1 \in 0 .. size - 1
  BY <1>2
<1> HIDE DEF q, n
<1>4. (n + size - 1) \div size = q
  <2> DEFINE r == size - 1
  <2>1. r \in 0 .. size - 1 /\ n + size - 1 = q * size + r
    BY <1>3
  <2> HIDE DEF r
  <2> QED BY <1>2, <2>1, Divided
<1>5. ASSUME NEW i \in 1 .. q
      PROVE  /\ Min({i * size, n}) = i * size
             /\ Len(SubSeq(flat, (i - 1) * size + 1, i * size)) = size
             /\ \A j \in 1 .. size :
                  SubSeq(flat, (i - 1) * size + 1, i * size)[j] \in Range(flat)
  <2>1. i \in Int /\ i <= q /\ i - 1 \in Nat /\ i \in Nat
    BY <1>2
  <2>2. i * size <= q * size /\ i * size \in Int
    BY <1>2, <2>1, Scaled
  <2>3. (i - 1) * size \in Nat
    BY <2>1, Product
  <2>4. (i - 1) * size = i * size - size
    BY <2>1, OneMore
  <2> DEFINE b == i * size
             a == (i - 1) * size + 1
  <2>5. b \in Int /\ b <= n /\ a \in Nat /\ 1 <= a /\ a <= b /\ b - a + 1 = size
    BY <1>2, <2>2, <2>3, <2>4
  <2> HIDE DEF a, b
  <2>6. Min({b, n}) = b
    BY <1>1, <2>5, MinOfTwo
  <2>7. \A k \in a .. b : flat[k] \in S
    <3>1. \A k \in a .. b : k \in 1 .. Len(flat)
      BY <2>5 DEF n
    <3> HIDE DEF S
    <3> QED BY <1>1, <3>1, ElementOfSeq
  <2>8. Len(SubSeq(flat, a, b)) = b - a + 1 /\ SubSeq(flat, a, b) \in Seq(S)
    <3> HIDE DEF S
    <3> QED BY <1>1, <2>5, <2>7, SubSeqProperties
  <2>9. \A j \in 1 .. size : SubSeq(flat, a, b)[j] \in S
    <3> HIDE DEF S
    <3> QED BY <2>5, <2>8, ElementOfSeq
  <2> QED BY <2>5, <2>6, <2>8, <2>9 DEF a, b
<1>6. Chunks(flat, size) = [i \in 1 .. q |-> SubSeq(flat, (i - 1) * size + 1, i * size)]
  <2>1. Chunks(flat, size)
          = [i \in 1 .. q |-> SubSeq(flat, (i - 1) * size + 1, Min({i * size, n}))]
    BY <1>4 DEF Chunks, n
  <2> QED BY <1>5, <2>1
<1>7. Chunks(flat, size) = WholeRows(flat, size)
  BY <1>6 DEF WholeRows, q, n
<1>8. Len(Chunks(flat, size)) = q
  BY <1>4, ChunksList DEF n
<1> QED BY <1>5, <1>6, <1>7, <1>8

\* When no two columns have one name, a column is found by its own.
LEMMA NamesApart ==
  ASSUME NEW t, IsTable(t), NamesDiffer(t), NEW i \in 1 .. Width(t)
  PROVE  t.columns[i].name \in ColumnNames(t) /\ ColumnIndex(t, t.columns[i].name) = i
<1> DEFINE S == 1 .. Width(t)
           T == ColumnNames(t)
           f == [j \in S |-> t.columns[j].name]
<1>1. Width(t) \in Nat
  BY Fields
<1>2. IsFiniteSet(S) /\ Cardinality(S) = Width(t)
  BY <1>1, FS_Interval
<1>3. f \in Surjection(S, T)
  BY DEF ColumnNames, Surjection
<1>4. Cardinality(T) = Cardinality(S)
  BY <1>2 DEF NamesDiffer
<1>5. T = {t.columns[j].name : j \in S}
  BY DEF ColumnNames
<1> HIDE DEF f
<1>6. f \in Injection(S, T)
  <2> HIDE DEF S, T
  <2> QED BY <1>2, <1>3, <1>4, FS_Surjection
<1>7. \A j, k \in S : f[j] = f[k] => j = k
  <2> HIDE DEF S, T
  <2> QED BY <1>6 DEF Injection, IsInjective
<1> DEFINE c == t.columns[i].name
           k == ColumnIndex(t, c)
<1>8. c \in T
  BY <1>5
<1>9. k \in S /\ t.columns[k].name = c
  BY <1>8, ColumnFound
<1> HIDE DEF k
<1>10. k = i
  BY <1>7, <1>9 DEF f
<1> QED BY <1>8, <1>10 DEF k

\* A row with a value for every column that is named is converted to the cells
\* it is put down with.
LEMMA PlacedConverted ==
  ASSUME NEW t, IsTable(t), NamesDiffer(t), NEW columns, columns \in Seq(Range(columns)),
         \A i \in DOMAIN columns : ColumnIndex(t, columns[i]) # 0,
         NEW row, Len(row) = Len(columns)
  PROVE  Converted(t, Cells(columns, row)) = Placed(t, columns, row)
<1> DEFINE map == Cells(columns, row)
           f == Converted(t, map)
           g == Placed(t, columns, row)
<1>1. f = [i \in 1 .. Width(t) |-> f[i]] /\ g = [i \in 1 .. Width(t) |-> g[i]]
  BY DEF Converted, Placed
<1>2. Len(row) \in Nat
  OBVIOUS
<1>3. ASSUME NEW i \in 1 .. Width(t)
      PROVE  f[i] = g[i]
  <2> DEFINE c == t.columns[i].name
             k == ColumnIndex(t, c)
  <2>1. c \in ColumnNames(t) /\ k = i
    BY NamesApart
  <2> HIDE DEF c
  <2>2. f[k] = IF c \in DOMAIN map THEN map[c] ELSE Null
    <3> HIDE DEF map
    <3> QED BY <2>1, ConvertedAt
  <2>3. g[k] = IF c \in DOMAIN map THEN map[c] ELSE Null
    BY <1>2, <2>1, PlacedAt
  <2> HIDE DEF f, g, k, map
  <2> QED BY <2>1, <2>2, <2>3
<1> HIDE DEF f, g
<1>4. f = g
  BY <1>1, <1>3
<1> QED BY <1>4 DEF f, g

\* INSERT of one row of a batch.
LEMMA RunOneInsert ==
  ASSUME NEW stmt \in Prepared, stmt.op = "insert", NEW e, e.answer = "ok",
         NEW row, Len(row) = Len(stmt.columns)
  PROVE  RunOnce(e, stmt, row) = InsertOne(e, stmt.table, Cells(stmt.columns, row))
<1> DEFINE columns == stmt.columns
           n == Len(columns)
<1>1. columns \in Seq(Range(columns))
  BY SomePlaceholders
<1>2. n \in Nat
  BY <1>1
<1>3. Min({n, Len(row)}) = n
  BY <1>2, MinOfTwo
<1>4. Range(columns) = {columns[i] : i \in 1 .. n}
  BY <1>1 DEF Range
<1> DEFINE I(c) == {i \in 1 .. n : columns[i] = c}
           LastAt(c) == IF I(c) # {} THEN Max(I(c)) ELSE 0
<1>5. RunOnce(e, stmt, row) =
        InsertOne(e, stmt.table, [c \in Range(columns) |-> row[LastAt(c)]])
  BY DEF RunOnce, Placeholders, SelectLastInSeq
<1>6. Cells(columns, row) = [c \in {columns[i] : i \in 1 .. n} |-> row[LastAt(c)]]
  BY <1>3 DEF Cells, SelectLastInSubSeq
<1> HIDE DEF columns, n, LastAt
<1> QED BY <1>4, <1>5, <1>6 DEF columns

\* Whole rows for a statement on the table t, which is under the name n and has
\* no two columns of one name; the executor has not noted n.
Comparable(e, n, t, stmt, rows) ==
  /\ EffectInv(e) /\ e.answer = "ok" /\ Exists(e, n) /\ n \notin e.populated
  /\ n = stmt.table /\ t = e.tables[n] /\ NamesDiffer(t)
  /\ Len(rows) \in Nat /\ DOMAIN rows = 1 .. Len(rows)
  /\ \A k \in 1 .. Len(rows) : Len(rows[k]) = Placeholders(stmt)

\* u is what an INSERT of the rows makes of t, with all its cells admitted.
InsertedAll(t, u, stmt, rows) ==
  /\ stmt.op = "insert" /\ t.nextId + Len(rows) <= MaxIds
  /\ \A i \in DOMAIN stmt.columns : ColumnIndex(t, stmt.columns[i]) # 0
  /\ u = AppendAll(t, [r \in DOMAIN rows |-> Placed(t, stmt.columns, rows[r])])
  /\ TableAdmitted(u)

\* u is what a batch of UPDATE with the rows makes of t: all cells of u and all
\* values that are written are admitted, and a column id has the ids the table gave.
UpdatedAll(e, n, t, u, stmt, rows) ==
  /\ stmt.op # "insert" /\ stmt.column \in ColumnNames(t) /\ IdsAsGiven(t, stmt.column)
  /\ \A k \in 1 .. Len(rows) :
       /\ NoClause # [column |-> "id", value |-> rows[k][2]]
       /\ rows[k][1] \in t.columns[ColumnIndex(t, stmt.column)].admits
  /\ UpdateByIndices(e, n, Changes(stmt, rows)) = Put(e, n, u)
  /\ TableAdmitted(u)

\* A batch of INSERT adds the rows that INSERT of one row adds one by one.
LEMMA InsertsSame ==
  ASSUME NEW stmt \in Prepared, NEW e, NEW n, NEW t, NEW rows, NEW u,
         Comparable(e, n, t, stmt, rows), InsertedAll(t, u, stmt, rows)
  PROVE  RunEach(e, stmt, rows).tables = Holding(e, n, u)
<1> DEFINE columns == stmt.columns
           placed == [r \in DOMAIN rows |-> Placed(t, columns, rows[r])]
           m == Len(rows)
           w == Width(t)
<1> /\ EffectInv(e) /\ e.answer = "ok" /\ Exists(e, n)
    /\ n = stmt.table /\ t = e.tables[n] /\ NamesDiffer(t)
    /\ m \in Nat /\ DOMAIN rows = 1 .. m
  BY DEF Comparable
<1> /\ stmt.op = "insert" /\ t.nextId + m <= MaxIds
    /\ \A i \in DOMAIN columns : ColumnIndex(t, columns[i]) # 0
    /\ u = AppendAll(t, placed) /\ TableAdmitted(u)
  BY DEF InsertedAll
<1> \A k \in 1 .. m : Len(rows[k]) = Len(columns)
  BY DEF Comparable, Placeholders
<1>1. n \in Names /\ TableInv(t) /\ IsTable(t) /\ columns \in Seq(Range(columns))
  <2>1. n \in Names /\ columns \in Seq(Range(columns))
    BY SomePlaceholders
  <2>2. TableInv(t)
    BY <2>1, ExistingInv
  <2> QED BY <2>1, <2>2 DEF TableInv
<1>2. Len(placed) = m /\ \A r \in 1 .. m : placed[r] = Placed(t, columns, rows[r])
  <2>1. \A r \in 1 .. m : placed[r] = Placed(t, columns, rows[r])
    OBVIOUS
  <2>2. placed \in [1 .. m -> Range(placed)]
    BY DEF Range
  <2> HIDE DEF placed
  <2> QED BY <2>1, <2>2, Listed
<1>3. \A r \in 1 .. m : IsList(placed[r]) /\ Len(placed[r]) = w
  <2> HIDE DEF placed
  <2> QED BY <1>1, <1>2, PlacedList
<1>4. u = AppendAll(t, placed)
  OBVIOUS
<1> HIDE DEF placed, w
<1>5. PICK done : /\ u = done[m] /\ done[0] = t
                  /\ \A k \in 1 .. m : done[k] = Append1(done[k - 1], placed[k])
                  /\ \A k \in 0 .. m : AppendedTo(t, done[k], placed, k)
  <2>1. Len(placed) = m /\ Len(placed) \in Nat /\ t.nextId + Len(placed) <= MaxIds
    BY <1>2
  <2>2. \A r \in 1 .. Len(placed) : IsList(placed[r]) /\ Len(placed[r]) = Width(t)
    BY <1>2, <1>3 DEF w
  <2> HIDE DEF m
  <2>3. Fits(t, placed)
    BY <2>1, <2>2 DEF Fits
  <2>4. PICK done : Appending(t, placed, done)
    BY <1>1, <2>3, AppendReached
  <2> QED BY <1>4, <2>1, <2>4 DEF Appending
<1>6. PICK run : /\ RunEach(e, stmt, rows) = run[m] /\ run[0] = e
                 /\ \A k \in 1 .. m : run[k] = RunOnce(run[k - 1], stmt, rows[k])
  BY RunSteps
<1> DEFINE Agree(k) == /\ EffectInv(run[k]) /\ run[k].answer = "ok"
                       /\ run[k].tables = Holding(e, n, done[k])
<1>7. Agree(0)
  <2>1. e.tables = Holding(e, n, t)
    BY DEF Holding, EffectInv, TablesInv
  <2> QED BY <1>5, <1>6, <2>1
\* Every row that is put down is admitted.
<1>8. ASSUME NEW k \in 1 .. m, NEW i \in 1 .. w
      PROVE  placed[k][i] \in t.columns[i].admits
  <2>1. AppendedTo(t, u, placed, m)
    <3>1. m \in 0 .. m
      OBVIOUS
    <3> QED BY <1>5, <3>1
  <2>2. /\ u.columns = t.columns /\ Len(u.ids) = Len(t.ids) + m
        /\ Cell(u, Len(t.ids) + k, i) = placed[k][i]
    BY <2>1 DEF AppendedTo, w
  <2>3. Len(t.ids) + k \in Rows(u)
    <3> DEFINE l == Len(t.ids)
    <3>1. l \in Nat /\ k \in 1 .. m /\ m \in Nat
      BY <1>1, Fields
    <3>2. Rows(u) = 1 .. Len(u.ids) /\ Len(u.ids) = l + m
      BY <2>2 DEF Rows
    <3> HIDE DEF l, m
    <3>3. l + k \in 1 .. l + m
      BY <3>1
    <3> QED BY <3>2, <3>3 DEF l
  <2>4. Width(u) = w
    BY <2>2 DEF Width, w
  <2>5. CellAdmitted(u, Len(t.ids) + k, i)
    BY <2>3, <2>4 DEF TableAdmitted
  <2> QED BY <2>2, <2>5 DEF CellAdmitted
<1>9. ASSUME NEW k \in 1 .. m, Agree(k - 1)
      PROVE  Agree(k)
  <2> DEFINE f == run[k - 1]
             v == done[k - 1]
             row == rows[k]
             map == Cells(columns, row)
             next == done[k]
  <2>1. EffectInv(f) /\ f.answer = "ok" /\ f.tables = Holding(e, n, v)
    BY <1>9
  <2>2. run[k] = RunOnce(f, stmt, row) /\ next = Append1(v, placed[k])
        /\ placed[k] = Placed(t, columns, row)
    BY <1>2, <1>5, <1>6
  <2>3. AppendedTo(t, v, placed, k - 1) /\ AppendedTo(t, next, placed, k)
    <3>1. k - 1 \in 0 .. m /\ k \in 0 .. m
      OBVIOUS
    <3> QED BY <1>5, <3>1
  <2>4. Len(row) = Len(columns)
    OBVIOUS
  <2>5. Converted(t, map) = Placed(t, columns, row)
    <3> HIDE DEF columns, row
    <3> QED BY <1>1, <2>4, PlacedConverted DEF columns
  <2> HIDE DEF f, v, next, map, row
  <2>6. RunOnce(f, stmt, row) = InsertOne(f, n, map)
    BY <2>1, <2>4, RunOneInsert DEF map, columns
  <2>7. TableInv(v) /\ v.columns = t.columns /\ v.sequential = t.sequential /\ v.exists = TRUE
        /\ TableInv(next) /\ next.sequential = t.sequential
    <3>1. TableInv(v) /\ v.columns = t.columns /\ v.sequential = t.sequential
          /\ TableInv(next) /\ next.sequential = t.sequential
      BY <2>3 DEF AppendedTo
    <3> QED BY <3>1, Fields DEF TableInv
  <2>8. f.tables[n] = v /\ Exists(f, n)
    <3> DEFINE h == Holding(f, n, v)
    <3>0. h = Holding(f, n, v) /\ f.tables = Holding(e, n, v) /\ n \in Names
      BY <1>1, <2>1
    <3> HIDE DEF h
    <3>1. f.tables[n] = v
      BY <3>0, HoldingTwice
    <3> QED BY <2>7, <3>1 DEF Exists
  <2>9. Converted(v, map) = placed[k] /\ Width(v) = w
    BY <2>2, <2>5, <2>7, SameColumns DEF w
  <2>10. Admitted(v, map)
    BY <1>8, <2>7, <2>9 DEF Admitted
  <2>11. InsertOne(f, n, map) = Put(f, n, next)
    BY <2>2, <2>8, <2>9, <2>10 DEF InsertOne
  <2>12. n \in f.populated \ replaced => ~next.sequential
    BY <2>1, <2>7, <2>8 DEF EffectInv
  <2>13. EffectInv(Put(f, n, next)) /\ Put(f, n, next).answer = "ok"
         /\ Put(f, n, next).tables = Holding(f, n, next)
    BY <1>1, <2>1, <2>7, <2>12, PutInv
  <2>14. Holding(f, n, next) = Holding(e, n, next)
    BY <1>1, <2>1, HoldingTwice
  <2> QED BY <2>2, <2>6, <2>11, <2>13, <2>14 DEF next
<1> DEFINE S == {k \in Nat : k <= m => Agree(k)}
<1>10. Agree(m)
  <2> HIDE DEF Agree
  <2>1. 0 \in S
    BY <1>7
  <2>2. ASSUME NEW k \in Nat, k \in S
        PROVE  k + 1 \in S
    <3>1. CASE k + 1 <= m
      <4>1. k + 1 \in 1 .. m /\ k + 1 - 1 = k /\ Agree(k)
        BY <2>2, <3>1
      <4> QED BY <1>9, <4>1
    <3>2. CASE ~(k + 1 <= m)
      BY <3>2
    <3> QED BY <3>1, <3>2
  <2>3. \A k \in Nat : k \in S
    <3> HIDE DEF S
    <3> QED BY <2>1, <2>2, Counting
  <2> QED BY <2>3
<1> QED BY <1>5, <1>6, <1>10

\* Tables with the same rows and the same cells.
SameCells(t, u) ==
  /\ u.columns = t.columns /\ u.ids = t.ids /\ u.nextId = t.nextId
  /\ \A q \in Rows(t), j \in 1 .. Width(t) : Cell(u, q, j) = Cell(t, q, j)

\* They stand for one relation.
LEMMA SameCellsRelation ==
  ASSUME NEW t, TableInv(t), NEW u, TableInv(u), SameCells(t, u)
  PROVE  AsRelation(u) = AsRelation(t)
<1> DEFINE r == AsRelation(t)
<1>1. /\ r = Abstract!Relation(ColumnNames(t), r.rows, t.nextId)
      /\ DOMAIN r.rows = {t.ids[p] : p \in Rows(t)}
      /\ r.rows = [id \in DOMAIN r.rows |-> r.rows[id]]
      /\ \A p \in Rows(t) : r.rows[t.ids[p]] = RowMap(t, p)
  BY RelationParts
<1>2. u.columns = t.columns /\ u.ids = t.ids /\ u.nextId = t.nextId
      /\ Rows(u) = Rows(t) /\ IsTable(t)
  BY DEF SameCells, Rows, TableInv
<1>3. ColumnNames(u) = ColumnNames(t) /\ \A c : ColumnIndex(u, c) = ColumnIndex(t, c)
  BY <1>2, SameColumns
<1>4. ASSUME NEW p \in Rows(t)
      PROVE  RowMap(u, p) = RowMap(t, p)
  <2>1. \A c \in ColumnNames(t) : Cell(u, p, ColumnIndex(t, c)) = Cell(t, p, ColumnIndex(t, c))
    BY <1>2, ColumnFound DEF SameCells
  <2> QED BY <1>3, <2>1 DEF RowMap
<1> HIDE DEF r
<1> DEFINE rows == r.rows
<1>5. /\ rows = [id \in DOMAIN rows |-> rows[id]]
      /\ DOMAIN rows = {u.ids[p] : p \in Rows(u)}
      /\ \A p \in Rows(u) : rows[u.ids[p]] = RowMap(u, p)
  BY <1>1, <1>2, <1>4
<1>6. AsRelation(u) = Abstract!Relation(ColumnNames(u), rows, u.nextId)
  <2> HIDE DEF rows
  <2> QED BY <1>5, RelationIs
<1> QED BY <1>1, <1>2, <1>3, <1>6 DEF r

\* A row with one cell of it changed, as UPDATE writes it back.
LEMMA OneConverted ==
  ASSUME NEW t, IsTable(t), NamesDiffer(t), NEW p \in Rows(t),
         NEW change, change.column \in ColumnNames(t), NEW i \in 1 .. Width(t)
  PROVE  Converted(t, NewCells(t, p, OneCell(change)))[i] =
           IF i = ColumnIndex(t, change.column) THEN change.value ELSE Cell(t, p, i)
<1> DEFINE c == t.columns[i].name
           k == ColumnIndex(t, change.column)
           map == NewCells(t, p, OneCell(change))
<1>1. c \in ColumnNames(t) /\ ColumnIndex(t, c) = i
  BY NamesApart
<1>2. k \in 1 .. Width(t) /\ t.columns[k].name = change.column
  BY ColumnFound
<1>3. i = k <=> c = change.column
  BY <1>1, <1>2
<1>4. /\ DOMAIN map = {change.column} \cup ColumnNames(t)
      /\ map[c] = IF c = change.column THEN change.value ELSE Cell(t, p, ColumnIndex(t, c))
  BY <1>1 DEF NewCells, Merged, OneCell, RowMap
<1> HIDE DEF map, k, c
<1>5. Converted(t, map)[ColumnIndex(t, c)] = IF c \in DOMAIN map THEN map[c] ELSE Null
  BY <1>1, ConvertedAt
<1> QED BY <1>1, <1>3, <1>4, <1>5 DEF map, k

\* UPDATE of one cell of the row of an id is the change of a batch, when the
\* value and the other cells are admitted and the id_map is known or filled.
LEMMA OneUpdate ==
  ASSUME NEW e, EffectInv(e), NEW n \in Names, Exists(e, n),
         n \notin e.populated \/ ~e.tables[n].sequential,
         NEW w, TableInv(w), NamesDiffer(w), SameCells(w, e.tables[n]),
         NEW change, change.column \in ColumnNames(w),
         change.value \in w.columns[ColumnIndex(w, change.column)].admits,
         \A q \in Rows(w), j \in 1 .. Width(w) :
           j # ColumnIndex(w, change.column) => CellAdmitted(w, q, j),
         IdsAsGiven(w, change.column),
         NEW clause, clause = [column |-> "id", value |-> change.id], clause # NoClause,
         NEW f, f = UpdateWhere(e, n, clause, OneCell(change))
  PROVE  \E v : /\ EffectInv(f) /\ f.answer = "ok" /\ f.tables = Holding(e, n, v)
                /\ TableInv(v) /\ ~v.sequential /\ SameCells(WriteOne(w, change), v)
<1> DEFINE o == e.tables[n]
           d == PopulateOnce(e, n)
           t == d.tables[n]
           cells == OneCell(change)
           i == ColumnIndex(t, change.column)
<1>1. /\ EffectInv(d) /\ d.tables = Holding(e, n, t)
      /\ TableInv(t) /\ SameRows(o, t) /\ ~t.sequential
  BY PopulateInv
<1>2. UpdateReached(f, d, n, t, clause, cells, Len(t.ids))
  BY UpdateInv
<1> HIDE DEF d, t, o, cells
<1>3. SameCells(w, t) /\ IsTable(t) /\ IsTable(w)
  <2>1. SameCells(w, o)
    BY DEF o
  <2>2. \A q, j : Cell(t, q, j) = Cell(o, q, j)
    BY <1>1 DEF SameRows, Cell, Width
  <2> QED BY <1>1, <2>1, <2>2 DEF SameCells, SameRows, TableInv
<1>4. t.columns = w.columns /\ t.ids = w.ids /\ t.nextId = w.nextId
      /\ Rows(t) = Rows(w) /\ Width(t) = Width(w) /\ ColumnNames(t) = ColumnNames(w)
      /\ i = ColumnIndex(w, change.column)
      /\ \A q \in Rows(w), j \in 1 .. Width(w) : Cell(t, q, j) = Cell(w, q, j)
  BY <1>3, SameColumns DEF SameCells, Rows
<1>5. NamesDiffer(t)
  BY <1>4 DEF NamesDiffer
<1> HIDE DEF i
<1>6. \A p \in Rows(t), j \in 1 .. Width(t) :
        Converted(t, NewCells(t, p, cells))[j] = IF j = i THEN change.value ELSE Cell(t, p, j)
  BY <1>3, <1>4, <1>5, OneConverted DEF cells, i
<1> DEFINE F == Found(t, clause)
<1>7. F \subseteq Rows(t) /\ \A p \in Rows(t) : p \in F <=> t.ids[p] = change.id
  <2>1. CASE ~DeclaresId(t)
    <3>1. F = {Get(t, change.id)} \ {0}
      BY <2>1 DEF Found
    <3>2. \A p \in Rows(t) : Get(t, t.ids[p]) = p /\ p # 0
      <4>1. Rows(t) = 1 .. Len(t.ids) /\ Len(t.ids) \in Nat
        BY <1>3, Fields
      <4>2. \A p \in Rows(t) : p # 0
        BY <4>1
      <4> QED BY <1>1, <4>2, GetFinds
    <3>3. Get(t, change.id) # 0 =>
            Get(t, change.id) \in Rows(t) /\ t.ids[Get(t, change.id)] = change.id
      BY <1>1, GetFinds
    <3> HIDE DEF F
    <3> QED BY <3>1, <3>2, <3>3
  <2>2. CASE DeclaresId(t)
    <3> DEFINE j == ColumnIndex(t, "id")
    <3>1. "id" \in ColumnNames(t)
      BY <2>2 DEF DeclaresId
    <3>2. F = {p \in Rows(t) : Cell(t, p, j) = change.id}
      BY <2>2, <3>1 DEF Found
    <3>3. j \in 1 .. Width(t) /\ j = ColumnIndex(w, "id")
      BY <1>3, <1>4, <3>1, ColumnFound, SameColumns
    <3>4. \A p \in Rows(t) : Cell(w, p, j) = t.ids[p]
      BY <1>4, <3>1, <3>3 DEF IdsAsGiven, DeclaresId
    <3> HIDE DEF F, j
    <3>5. \A p \in Rows(t) : Cell(t, p, j) = t.ids[p]
      BY <1>4, <3>3, <3>4
    <3> QED BY <3>2, <3>5
  <2> QED BY <2>1, <2>2
<1> HIDE DEF F
<1>8. \A p \in F : Admitted(t, NewCells(t, p, cells))
  <2> SUFFICES ASSUME NEW p \in F, NEW j \in 1 .. Width(t)
               PROVE  Converted(t, NewCells(t, p, cells))[j] \in t.columns[j].admits
    BY DEF Admitted
  <2>1. p \in Rows(t)
    BY <1>7
  <2>2. j # i => Cell(t, p, j) \in t.columns[j].admits
    BY <1>4, <2>1 DEF CellAdmitted
  <2>3. change.value \in t.columns[i].admits
    BY <1>4
  <2> QED BY <1>6, <2>1, <2>2, <2>3
<1>9. EffectInv(f) /\ f.answer = "ok"
  BY <1>1, <1>2, <1>8 DEF UpdateReached, F
<1>10. PICK v, P : /\ P = F \cap (1 .. Len(t.ids))
                   /\ Written(t, v, P, cells) /\ f.tables = Holding(d, n, v)
  BY <1>2, <1>9 DEF UpdateReached, F
<1>11. P = F
  <2>1. Rows(t) = 1 .. Len(t.ids)
    BY DEF Rows
  <2> QED BY <1>7, <1>10, <2>1
<1>12. f.tables = Holding(e, n, v)
  <2>1. Holding(d, n, v) = Holding(e, n, v)
    BY <1>1, HoldingTwice
  <2> QED BY <1>10, <2>1
<1>13. TableInv(v) /\ ~v.sequential /\ v.columns = t.columns /\ v.ids = t.ids
       /\ v.nextId = t.nextId
       /\ \A q \in Rows(t), j \in 1 .. Width(t) :
            Cell(v, q, j) = IF q \in F THEN Converted(t, NewCells(t, q, cells))[j]
                                       ELSE Cell(t, q, j)
  BY <1>1, <1>10, <1>11 DEF Written
<1> DEFINE x == WriteOne(w, change)
<1>14. /\ Rewritten(w, x)
       /\ \A q \in Rows(w), j \in 1 .. Width(w) :
            Cell(x, q, j) = IF w.ids[q] = change.id /\ j = ColumnIndex(w, change.column)
                            THEN change.value ELSE Cell(w, q, j)
  BY WriteOneInv
<1> HIDE DEF x
<1>15. SameCells(x, v)
  <2>1. v.columns = x.columns /\ v.ids = x.ids /\ v.nextId = x.nextId
        /\ Rows(x) = Rows(w) /\ Width(x) = Width(w)
    BY <1>4, <1>13, <1>14 DEF Rewritten, Rows, Width
  <2>2. ASSUME NEW q \in Rows(w), NEW j \in 1 .. Width(w)
        PROVE  Cell(v, q, j) = Cell(x, q, j)
    <3>1. q \in F <=> w.ids[q] = change.id
      BY <1>4, <1>7
    <3>2. Cell(t, q, j) = Cell(w, q, j)
      BY <1>4
    <3>3. Converted(t, NewCells(t, q, cells))[j] = IF j = i THEN change.value ELSE Cell(t, q, j)
      BY <1>4, <1>6
    <3>4. Cell(v, q, j) = IF q \in F THEN Converted(t, NewCells(t, q, cells))[j]
                                     ELSE Cell(t, q, j)
      BY <1>4, <1>13
    <3>5. Cell(x, q, j) = IF w.ids[q] = change.id /\ j = i THEN change.value ELSE Cell(w, q, j)
      BY <1>4, <1>14
    <3> QED BY <3>1, <3>2, <3>3, <3>4, <3>5
  <2> QED BY <2>1, <2>2 DEF SameCells
<1> QED BY <1>9, <1>12, <1>13, <1>15 DEF x

\* UPDATE of one row of a batch.
LEMMA RunOneUpdate ==
  ASSUME NEW stmt \in Prepared, stmt.op # "insert", NEW e, e.answer = "ok",
         NEW row, Len(row) = 2,
         NEW change, change = [id |-> row[2], column |-> stmt.column, value |-> row[1]]
  PROVE  RunOnce(e, stmt, row) =
           UpdateWhere(e, stmt.table, [column |-> "id", value |-> change.id], OneCell(change))
<1>1. Placeholders(stmt) = 2
  BY SomePlaceholders
<1>2. OneCell(change) = [c \in {stmt.column} |-> row[1]] /\ change.id = row[2]
  BY DEF OneCell
<1> QED BY <1>1, <1>2 DEF RunOnce

\* A batch of UPDATE writes the cells that UPDATE writes row by row.
LEMMA UpdatesSame ==
  ASSUME NEW stmt \in Prepared, NEW e, NEW n, NEW t, NEW rows, NEW u,
         Comparable(e, n, t, stmt, rows), UpdatedAll(e, n, t, u, stmt, rows)
  PROVE  \E v : /\ TableInv(u) /\ TableInv(v) /\ SameCells(u, v)
                /\ RunEach(e, stmt, rows).tables = Holding(e, n, v)
<1> DEFINE changes == Changes(stmt, rows)
           m == Len(rows)
           i == ColumnIndex(t, stmt.column)
<1> /\ EffectInv(e) /\ e.answer = "ok" /\ Exists(e, n) /\ n \notin e.populated
    /\ n = stmt.table /\ t = e.tables[n] /\ NamesDiffer(t)
    /\ m \in Nat /\ DOMAIN rows = 1 .. m
  BY DEF Comparable
<1> /\ stmt.op # "insert" /\ stmt.column \in ColumnNames(t) /\ IdsAsGiven(t, stmt.column)
    /\ UpdateByIndices(e, n, changes) = Put(e, n, u) /\ TableAdmitted(u)
  BY DEF UpdatedAll
<1> \A k \in 1 .. m : /\ NoClause # [column |-> "id", value |-> rows[k][2]]
                      /\ rows[k][1] \in t.columns[i].admits
  BY DEF UpdatedAll
<1> \A k \in 1 .. m : Len(rows[k]) = 2
  BY SomePlaceholders DEF Comparable
<1>1. n \in Names /\ TableInv(t) /\ IsTable(t)
  <2>1. n \in Names
    BY SomePlaceholders
  <2>2. TableInv(t)
    BY <2>1, ExistingInv
  <2> QED BY <2>1, <2>2 DEF TableInv
<1>2. Len(changes) = m /\ \A k \in 1 .. m :
        /\ changes[k] = [id |-> rows[k][2], column |-> stmt.column, value |-> rows[k][1]]
        /\ changes[k].id = rows[k][2] /\ changes[k].column = stmt.column
        /\ changes[k].value = rows[k][1]
  <2>1. Len(changes) = m
    BY ChangesList
  <2>2. \A k \in 1 .. m :
          changes[k] = [id |-> rows[k][2], column |-> stmt.column, value |-> rows[k][1]]
    BY DEF Changes
  <2> QED BY <2>1, <2>2
<1>3. UpdateByIndices(e, n, changes) = Put(e, n, u)
  OBVIOUS
<1> HIDE DEF changes
<1>4. PICK done : /\ Put(e, n, u) = Put(e, n, done[m]) /\ done[0] = t
                  /\ \A k \in 1 .. m : done[k] = WriteOne(done[k - 1], changes[k])
                  /\ \A k \in 0 .. m : Rewritten(t, done[k])
  <2>1. TableInv(e.tables[n]) /\ Len(changes) \in Nat
        /\ \A k \in 1 .. Len(changes) : changes[k].column \in ColumnNames(e.tables[n])
    BY <1>1, <1>2
  <2> HIDE DEF m
  <2>2. PICK done : /\ UpdateByIndices(e, n, changes) = Put(e, n, done[Len(changes)])
                    /\ done[0] = e.tables[n]
                    /\ \A k \in 1 .. Len(changes) : done[k] = WriteOne(done[k - 1], changes[k])
                    /\ \A k \in 0 .. Len(changes) : Rewritten(e.tables[n], done[k])
    BY <2>1, IndicesReached
  <2> QED BY <1>2, <1>3, <2>2
<1>5. m \in 0 .. m
  OBVIOUS
<1>6. u = done[m]
  <2>1. DOMAIN e.tables = Names
    BY DEF EffectInv, TablesInv
  <2>2. \A x : Put(e, n, x).tables[n] = x
    BY <1>1, <2>1 DEF Put, EffectInv
  <2> QED BY <1>4, <2>2
<1>7. PICK run : /\ RunEach(e, stmt, rows) = run[m] /\ run[0] = e
                 /\ \A k \in 1 .. m : run[k] = RunOnce(run[k - 1], stmt, rows[k])
  BY RunSteps
\* What is written to a table that was reached.
<1>8. ASSUME NEW k \in 1 .. m
      PROVE  /\ k - 1 \in 0 .. m /\ TableInv(done[k - 1])
             /\ done[k - 1].columns = t.columns /\ done[k - 1].ids = t.ids
             /\ Width(done[k - 1]) = Width(t) /\ Rows(done[k - 1]) = Rows(t)
             /\ NamesDiffer(done[k - 1])
             /\ changes[k].column \in ColumnNames(done[k - 1])
             /\ ColumnIndex(done[k - 1], changes[k].column) = i
             /\ \A q \in Rows(t), j \in 1 .. Width(t) :
                  j # i => Cell(done[k], q, j) = Cell(done[k - 1], q, j)
  <2> DEFINE w == done[k - 1]
             change == changes[k]
  <2>1. k - 1 \in 0 .. m
    OBVIOUS
  <2>2. Rewritten(t, w) /\ done[k] = WriteOne(w, change) /\ change.column = stmt.column
    BY <1>2, <1>4, <2>1
  <2> HIDE DEF w, change
  <2>3. TableInv(w) /\ w.columns = t.columns /\ w.ids = t.ids
        /\ Width(w) = Width(t) /\ ColumnNames(w) = ColumnNames(t) /\ Rows(w) = Rows(t)
        /\ ColumnIndex(w, change.column) = i
    BY <2>2, SameColumns DEF Rewritten, Rows
  <2>4. \A q \in Rows(w), j \in 1 .. Width(w) :
          Cell(WriteOne(w, change), q, j) =
            IF w.ids[q] = change.id /\ j = ColumnIndex(w, change.column)
            THEN change.value ELSE Cell(w, q, j)
    <3>1. TableInv(w) /\ change.column \in ColumnNames(w)
      BY <2>2, <2>3
    <3> HIDE DEF i, m
    <3> QED BY <3>1, WriteOneInv
  <2>5. ASSUME NEW q \in Rows(t), NEW j \in 1 .. Width(t), j # i
        PROVE  Cell(done[k], q, j) = Cell(w, q, j)
    <3> HIDE DEF i
    <3>1. Cell(WriteOne(w, change), q, j) =
            IF w.ids[q] = change.id /\ j = ColumnIndex(w, change.column)
            THEN change.value ELSE Cell(w, q, j)
      BY <2>3, <2>4
    <3> QED BY <2>2, <2>3, <2>5, <3>1
  <2>6. NamesDiffer(w)
    BY <2>3 DEF NamesDiffer
  <2> HIDE DEF i, m
  <2> QED BY <2>1, <2>2, <2>3, <2>5, <2>6 DEF w, change
<1> HIDE DEF i
\* The cells of the other columns stay, and so are admitted all the way.
<1> DEFINE Outside(k) ==
             \A q \in Rows(t), j \in 1 .. Width(t) : j # i => Cell(done[k], q, j) = Cell(t, q, j)
           R == {k \in Nat : k <= m => Outside(k)}
<1>9. \A k \in 0 .. m : Outside(k)
  <2>1. 0 \in R
    BY <1>4
  <2>2. ASSUME NEW k \in Nat, k \in R
        PROVE  k + 1 \in R
    <3>1. CASE k + 1 <= m
      <4>1. k + 1 \in 1 .. m /\ k + 1 - 1 = k /\ Outside(k)
        BY <2>2, <3>1
      <4>2. \A q \in Rows(t), j \in 1 .. Width(t) :
              j # i => Cell(done[k + 1], q, j) = Cell(done[k], q, j)
        BY <1>8, <4>1
      <4>3. Outside(k + 1)
        BY <4>1, <4>2
      <4> HIDE DEF Outside
      <4> QED BY <4>3
    <3>2. CASE ~(k + 1 <= m)
      <4> HIDE DEF Outside
      <4> QED BY <3>2
    <3> QED BY <3>1, <3>2
  <2>3. \A k \in Nat : k \in R
    <3> HIDE DEF R
    <3> QED BY <2>1, <2>2, Counting
  <2> HIDE DEF Outside
  <2> QED BY <2>3
<1>10. \A q \in Rows(t), j \in 1 .. Width(t) :
         j # i => Cell(t, q, j) \in t.columns[j].admits
  <2>1. u.columns = t.columns /\ Rows(u) = Rows(t) /\ Width(u) = Width(t)
    BY <1>4, <1>5, <1>6 DEF Rewritten, Rows, Width
  <2>2. \A q \in Rows(t), j \in 1 .. Width(t) : Cell(u, q, j) \in t.columns[j].admits
    BY <2>1 DEF TableAdmitted, CellAdmitted
  <2>3. Outside(m)
    <3> HIDE DEF Outside
    <3> QED BY <1>5, <1>9
  <2> QED BY <1>6, <2>2, <2>3
<1> DEFINE At(k) == run[k].tables[n]
           Agree(k) == /\ EffectInv(run[k]) /\ run[k].answer = "ok"
                       /\ n \notin run[k].populated \/ ~At(k).sequential
                       /\ TableInv(At(k)) /\ SameCells(done[k], At(k))
                       /\ run[k].tables = Holding(e, n, At(k))
<1>11. Agree(0)
  <2>1. e.tables = Holding(e, n, t)
    BY DEF Holding, EffectInv, TablesInv
  <2>2. SameCells(t, t)
    BY DEF SameCells
  <2> QED BY <1>1, <1>4, <1>7, <2>1, <2>2
<1>12. ASSUME NEW k \in 1 .. m, Agree(k - 1)
       PROVE  Agree(k)
  <2> DEFINE f == run[k - 1]
             w == done[k - 1]
             o == f.tables[n]
             row == rows[k]
             change == changes[k]
             clause == [column |-> "id", value |-> change.id]
             g == run[k]
  <2>1. /\ EffectInv(f) /\ f.answer = "ok" /\ (n \notin f.populated \/ ~o.sequential)
        /\ TableInv(o) /\ SameCells(w, o) /\ f.tables = Holding(e, n, o)
    BY <1>12
  <2>2. /\ change = [id |-> row[2], column |-> stmt.column, value |-> row[1]]
        /\ change.id = row[2] /\ change.value = row[1]
        /\ Len(row) = 2 /\ clause # NoClause
        /\ change.value \in t.columns[i].admits
    BY <1>2 DEF i
  <2>3. g = RunOnce(f, stmt, row) /\ done[k] = WriteOne(w, change)
    BY <1>4, <1>7
  <2>4. /\ TableInv(w) /\ w.columns = t.columns /\ Width(w) = Width(t) /\ Rows(w) = Rows(t)
        /\ NamesDiffer(w) /\ change.column \in ColumnNames(w)
        /\ ColumnIndex(w, change.column) = i
    BY <1>8
  <2>5. \A q \in Rows(t), j \in 1 .. Width(t) : j # i => Cell(w, q, j) = Cell(t, q, j)
    <3>1. k - 1 \in 0 .. m
      OBVIOUS
    <3> QED BY <1>9, <3>1
  <2> HIDE DEF f, w, row, change, g
  <2>6. g = UpdateWhere(f, n, clause, OneCell(change))
    <3> HIDE DEF o, clause
    <3> QED BY <2>1, <2>2, <2>3, RunOneUpdate DEF clause
  <2>7. Exists(f, n)
    BY <2>1, Fields DEF TableInv, Exists
  <2>8. \A q \in Rows(w), j \in 1 .. Width(w) : j # i => CellAdmitted(w, q, j)
    BY <1>10, <2>4, <2>5 DEF CellAdmitted
  <2>12. IdsAsGiven(w, change.column)
    <3> SUFFICES ASSUME DeclaresId(w)
                 PROVE  /\ change.column # "id"
                        /\ \A p \in Rows(w) : Cell(w, p, ColumnIndex(w, "id")) = w.ids[p]
      BY DEF IdsAsGiven
    <3> DEFINE j == ColumnIndex(t, "id")
    <3>1. "id" \in ColumnNames(t) /\ ColumnIndex(w, "id") = j /\ w.ids = t.ids
          /\ change.column = stmt.column
      <4>1. w.ids = t.ids
        BY <1>8 DEF w
      <4>2. change.column = stmt.column
        BY <1>2 DEF change
      <4>3. ColumnNames(w) = ColumnNames(t) /\ ColumnIndex(w, "id") = j
        BY <2>4, SameColumns
      <4> QED BY <4>1, <4>2, <4>3 DEF DeclaresId
    <3>2. stmt.column # "id" /\ \A p \in Rows(t) : Cell(t, p, j) = t.ids[p]
      BY <3>1 DEF IdsAsGiven, DeclaresId
    <3>3. j \in 1 .. Width(t) /\ t.columns[j].name = "id"
      BY <1>1, <3>1, ColumnFound
    <3>4. t.columns[i].name = stmt.column
      BY <1>1, ColumnFound DEF i
    <3> HIDE DEF j
    <3>5. \A p \in Rows(t) : Cell(w, p, j) = Cell(t, p, j)
      BY <2>5, <3>2, <3>3, <3>4
    <3> QED BY <2>4, <3>1, <3>2, <3>5
  <2>9. PICK v : /\ EffectInv(g) /\ g.answer = "ok" /\ g.tables = Holding(f, n, v)
                 /\ TableInv(v) /\ ~v.sequential /\ SameCells(done[k], v)
    <3>1. change.value \in w.columns[ColumnIndex(w, change.column)].admits
      BY <2>2, <2>4
    <3>2. \A q \in Rows(w), j \in 1 .. Width(w) :
            j # ColumnIndex(w, change.column) => CellAdmitted(w, q, j)
      BY <2>4, <2>8
    <3>3. SameCells(w, f.tables[n]) /\ (n \notin f.populated \/ ~f.tables[n].sequential)
      BY <2>1
    <3>4. clause = [column |-> "id", value |-> change.id] /\ clause # NoClause
      BY <2>2
    <3>5. /\ EffectInv(f) /\ TableInv(w) /\ NamesDiffer(w)
          /\ change.column \in ColumnNames(w) /\ IdsAsGiven(w, change.column)
      BY <2>1, <2>4, <2>12
    <3> HIDE DEF o, clause, Agree
    <3>6. PICK v : /\ EffectInv(g) /\ g.answer = "ok" /\ g.tables = Holding(f, n, v)
                   /\ TableInv(v) /\ ~v.sequential /\ SameCells(WriteOne(w, change), v)
      BY <1>1, <2>6, <2>7, <3>1, <3>2, <3>3, <3>4, <3>5, OneUpdate
    <3> QED BY <2>3, <3>6
  <2>10. Holding(f, n, v) = Holding(e, n, v)
    BY <1>1, <2>1, HoldingTwice
  <2>11. g.tables[n] = v
    <3> DEFINE h == Holding(g, n, v)
    <3>1. h = Holding(g, n, v) /\ g.tables = Holding(e, n, v) /\ n \in Names
      BY <1>1, <2>9, <2>10
    <3> HIDE DEF h
    <3> QED BY <3>1, HoldingTwice
  <2> QED BY <2>9, <2>10, <2>11 DEF g
<1>13. Agree(m)
  <2> HIDE DEF Agree
  <2> DEFINE S == {k \in Nat : k <= m => Agree(k)}
  <2>1. 0 \in S
    BY <1>11
  <2>2. ASSUME NEW k \in Nat, k \in S
        PROVE  k + 1 \in S
    <3>1. CASE k + 1 <= m
      <4>1. k + 1 \in 1 .. m /\ k + 1 - 1 = k /\ Agree(k)
        BY <2>2, <3>1
      <4> QED BY <1>12, <4>1
    <3>2. CASE ~(k + 1 <= m)
      BY <3>2
    <3> QED BY <3>1, <3>2
  <2>3. \A k \in Nat : k \in S
    <3> HIDE DEF S
    <3> QED BY <2>1, <2>2, Counting
  <2> QED BY <2>3
<1>14. TableInv(u)
  BY <1>4, <1>5, <1>6 DEF Rewritten
<1> QED BY <1>6, <1>7, <1>13, <1>14

\* What a batch leaves is what the statement leaves that is run for each row.
LEMMA BatchSame ==
  ASSUME IInv, NEW stmt \in Prepared, NEW flat \in FlatParams, RunBatch(stmt, flat),
         call'.answer = "ok",
         NEW size, size = Placeholders(stmt), Len(flat) % size = 0,
         AllAdmitted(tables'), NamesDiffer(tables[stmt.table]),
         NEW rows, rows = WholeRows(flat, size), AllWritten(stmt, tables[stmt.table], rows),
         stmt.op = "update" => IdsAsGiven(tables[stmt.table], stmt.column)
  PROVE  AsRelations(tables') = AsRelations(RunEach(Fresh, stmt, rows).tables)
<1> DEFINE n == stmt.table
           t == tables[n]
           g == RunRows(Fresh, stmt, rows)
           args == Asked(stmt, rows)
           d == [g EXCEPT !.populated = populated]
<1>1. /\ size \in Nat \ {0} /\ n \in Names
      /\ stmt.op = "insert" => stmt.columns \in Seq(Range(stmt.columns)) /\ size = Len(stmt.columns)
      /\ stmt.op # "insert" => stmt.op = "update" /\ size = 2
  BY SomePlaceholders DEF Placeholders
<1>2. /\ rows = Chunks(flat, size) /\ Len(rows) \in Nat /\ DOMAIN rows = 1 .. Len(rows)
      /\ \A i \in 1 .. Len(rows) :
           Len(rows[i]) = size /\ \A j \in 1 .. size : rows[i][j] \in Range(flat)
  BY <1>1, WholeChunks, ChunksList
<1>3. /\ Fresh.tables = tables /\ Fresh.populated = {} /\ Fresh.answer = "ok"
      /\ EffectInv(Fresh) /\ (Exists(Fresh, n) <=> Lives(n))
  <2>1. Fresh.tables = tables /\ Fresh.populated = {} /\ Fresh.answer = "ok"
    BY DEF Fresh, Effect
  <2> QED BY <2>1 DEF EffectInv, IInv, Fresh, Effect, Exists, Lives
<1>4. /\ Did(d, args) /\ "answer" \notin DOMAIN args
      /\ (stmt.op = "insert" => Room(n, Len(rows)))
      /\ (stmt.op = "update" /\ Lives(n) => stmt.column \in ColumnNames(t))
  <2>1. "answer" \notin DOMAIN args
    BY AskedParts
  <2>2. rows = Chunks(flat, Placeholders(stmt))
    BY <1>2
  <2> QED BY <2>1, <2>2 DEF RunBatch
<1> HIDE DEF args
<1>5. tables' = d.tables /\ call'.answer = d.answer
  <2> HIDE DEF d
  <2> QED BY <1>4, Called DEF Did
<1>6. g # Refuse(Fresh)
  <2> SUFFICES ASSUME g = Refuse(Fresh)  PROVE FALSE
    OBVIOUS
  <2> DEFINE r == Effect(tables, {}, "error")
  <2>1. g = r
    BY EffectParts DEF Fresh
  <2>2. [r EXCEPT !.populated = populated] = Effect(tables, populated, "error")
    BY EffectParts
  <2> HIDE DEF g, r
  <2>3. d.answer = "error"
    BY <2>1, <2>2 DEF Effect
  <2> QED BY <1>5, <2>3
<1>7. ASSUME NEW u, g = Put(Fresh, n, u)
      PROVE  /\ tables' = Holding(Fresh, n, u) /\ tables'[n] = u
             /\ u.exists = TRUE => TableAdmitted(u)
             /\ AsRelations(tables') = [AsRelations(tables) EXCEPT ![n] = AsRelation(u)]
  <2> DEFINE ts == [tables EXCEPT ![n] = u]
             r == Effect(ts, {}, "ok")
  <2>1. Put(Fresh, n, u) = r
    <3> HIDE DEF n
    <3> QED BY PutFresh
  <2>2. [r EXCEPT !.populated = populated] = Effect(ts, populated, "ok")
    <3> HIDE DEF ts
    <3> QED BY EffectParts
  <2>3. d = Effect(ts, populated, "ok")
    <3> HIDE DEF g, r, ts
    <3> QED BY <1>7, <2>1, <2>2
  <2>4. tables' = ts /\ ts = Holding(Fresh, n, u)
    <3> HIDE DEF d
    <3> QED BY <1>3, <1>5, <2>3 DEF Effect, Holding
  <2>5. DOMAIN tables = Names
    BY DEF IInv, TablesInv
  <2>6. tables'[n] = u
    BY <1>1, <2>4, <2>5
  <2>7. u.exists = TRUE => TableAdmitted(u)
    BY <1>1, <2>6 DEF AllAdmitted, TableAdmitted
  <2>8. AsRelations(Holding(Fresh, n, u)) = [AsRelations(Fresh.tables) EXCEPT ![n] = AsRelation(u)]
    <3> HIDE DEF n
    <3> QED BY <1>1, <1>3, BecomesOne
  <2> HIDE DEF ts
  <2> QED BY <1>3, <2>4, <2>6, <2>7, <2>8
<1>8. Exists(Fresh, n) /\ Lives(n)
  <2>1. Exists(Fresh, n)
    BY <1>6 DEF RunRows
  <2> QED BY <1>3, <2>1
\* The two tables are compared.
<1>9. ASSUME NEW u, g = Put(Fresh, n, u), NEW v, AsRelation(u) = AsRelation(v),
             RunEach(Fresh, stmt, rows).tables = Holding(Fresh, n, v)
      PROVE  AsRelations(tables') = AsRelations(RunEach(Fresh, stmt, rows).tables)
  <2>1. AsRelations(tables') = [AsRelations(tables) EXCEPT ![n] = AsRelation(u)]
    BY <1>7, <1>9
  <2>2. AsRelations(Holding(Fresh, n, v)) = [AsRelations(Fresh.tables) EXCEPT ![n] = AsRelation(v)]
    <3> HIDE DEF n
    <3> QED BY <1>1, <1>3, BecomesOne
  <2> HIDE DEF n
  <2> QED BY <1>3, <1>9, <2>1, <2>2
<1>10. Fresh.tables[n] = t
  BY <1>3
<1>11. Comparable(Fresh, n, t, stmt, rows)
  <2>1. \A k \in 1 .. Len(rows) : Len(rows[k]) = Placeholders(stmt)
    BY <1>2
  <2> QED BY <1>2, <1>3, <1>8, <2>1 DEF Comparable
<1>12. CASE stmt.op = "insert"
  <2> DEFINE columns == stmt.columns
             placed == [r \in DOMAIN rows |-> Placed(t, columns, rows[r])]
             u == AppendAll(t, placed)
  <2>1. g = InsertMany(Fresh, n, columns, rows)
    BY <1>8, <1>12 DEF RunRows
  <2>2. t.nextId + Len(rows) <= MaxIds
    BY <1>4, <1>8, <1>12 DEF Room
  <2>3. /\ g = Put(Fresh, n, u) /\ TableInv(t) /\ AppendedTo(t, u, placed, Len(rows))
        /\ \A i \in DOMAIN columns : ColumnIndex(t, columns[i]) # 0
    <3> HIDE DEF n, columns, g
    <3>1. Exists(Fresh, n) => Fresh.tables[n].nextId + Len(rows) <= MaxIds
      BY <1>10, <2>2
    <3> HIDE DEF t
    <3>2. /\ EffectInv(Fresh) /\ n \in Names
          /\ Len(rows) \in Nat /\ DOMAIN rows = 1 .. Len(rows)
      BY <1>1, <1>2, <1>3
    <3>3. LET o == Fresh.tables[n]
              f == InsertMany(Fresh, n, columns, rows)
              cells == [r \in DOMAIN rows |-> Placed(o, columns, rows[r])]
              all == AppendAll(o, cells)
          IN  \/ f = Refuse(Fresh)
              \/ /\ f = Put(Fresh, n, all)
                 /\ \A i \in DOMAIN columns : ColumnIndex(o, columns[i]) # 0
                 /\ TableInv(o) /\ AppendedTo(o, all, cells, Len(rows))
      BY <3>1, <3>2, InsertManyInv
    <3> QED BY <1>6, <1>10, <2>1, <3>3
  <2> HIDE DEF g, t, n, columns
  <2>4. u.exists = TRUE
    <3>1. TableInv(u)
      BY <2>3 DEF AppendedTo
    <3> HIDE DEF u
    <3> QED BY <3>1, Fields DEF TableInv
  <2>5. TableAdmitted(u)
    <3> HIDE DEF u
    <3> QED BY <1>7, <2>3, <2>4
  <2>6. RunEach(Fresh, stmt, rows).tables = Holding(Fresh, n, u)
    <3>1. InsertedAll(t, u, stmt, rows)
      <4>1. u = AppendAll(t, [r \in DOMAIN rows |-> Placed(t, stmt.columns, rows[r])])
        BY DEF columns
      <4>2. \A i \in DOMAIN stmt.columns : ColumnIndex(t, stmt.columns[i]) # 0
        BY <2>3 DEF columns
      <4> HIDE DEF u, placed
      <4> QED BY <1>12, <2>2, <2>5, <4>1, <4>2 DEF InsertedAll
    <3> HIDE DEF u, placed
    <3> QED BY <1>11, <3>1, InsertsSame
  <2> HIDE DEF u
  <2> QED BY <1>9, <2>3, <2>6
<1>13. CASE stmt.op # "insert"
  <2> DEFINE changes == Changes(stmt, rows)
  <2>1. g = UpdateByIndices(Fresh, n, changes) /\ stmt.op = "update" /\ size = 2
    BY <1>1, <1>8, <1>13 DEF RunRows
  <2>2. stmt.column \in ColumnNames(t) /\ IdsAsGiven(t, stmt.column)
        /\ \A k \in 1 .. Len(rows) : rows[k][1] \in t.columns[ColumnIndex(t, stmt.column)].admits
    BY <1>2, <1>4, <1>8, <2>1 DEF AllWritten
  <2>3. \A k \in 1 .. Len(rows) :
          NoClause # [column |-> "id", value |-> rows[k][2]]
    BY <1>2, <2>1, NoClauseAssumption
  <2>4. PICK u : UpdateByIndices(Fresh, n, changes) = Put(Fresh, n, u) /\ Rewritten(t, u)
    <3> HIDE DEF t, n
    <3>1. TableInv(t)
      BY <1>1, <1>3, <1>8, <1>10, ExistingInv
    <3>2. Len(changes) \in Nat /\ \A k \in 1 .. Len(changes) : changes[k].column \in ColumnNames(t)
      BY <1>2, <2>2, ChangesList
    <3> HIDE DEF changes
    <3> QED BY <1>10, <3>1, <3>2, IndicesInv
  <2> HIDE DEF g, changes
  <2>5. g = Put(Fresh, n, u)
    BY <2>1, <2>4
  <2>6. TableAdmitted(u)
    <3>1. u.exists = TRUE
      BY <2>4, Fields DEF Rewritten, TableInv
    <3> QED BY <1>7, <2>5, <3>1
  <2>7. PICK v : /\ TableInv(u) /\ TableInv(v) /\ SameCells(u, v)
                 /\ RunEach(Fresh, stmt, rows).tables = Holding(Fresh, n, v)
    <3>1. UpdatedAll(Fresh, n, t, u, stmt, rows)
      <4> HIDE DEF n, t
      <4> QED BY <1>13, <2>4, <2>2, <2>3, <2>6 DEF UpdatedAll, changes
    <3> HIDE DEF n, t
    <3> QED BY <1>11, <3>1, UpdatesSame
  <2>8. AsRelation(u) = AsRelation(v)
    BY <2>7, SameCellsRelation
  <2> QED BY <1>9, <2>5, <2>7, <2>8
<1> QED BY <1>12, <1>13

\* A batch leaves the rows that its statement leaves when it is run for one row
\* after the other.
THEOREM BatchIsSequenceHolds ==
  Spec => BatchIsSequence
<1> DEFINE Same(stmt, flat, size, rows) ==
             /\ call'.answer = "ok" /\ Len(flat) % size = 0
             /\ AllAdmitted(tables') /\ NamesDiffer(tables[stmt.table])
             /\ AllWritten(stmt, tables[stmt.table], rows)
             /\ (stmt.op = "update" => IdsAsGiven(tables[stmt.table], stmt.column))
             => AsRelations(tables') = AsRelations(RunEach(Fresh, stmt, rows).tables)
           P == \A stmt \in Prepared, flat \in FlatParams :
                  call'.op \in {"insert many", "update each"} /\ RunBatch(stmt, flat) =>
                    LET size == Placeholders(stmt)
                        rows == WholeRows(flat, size)
                    IN  Same(stmt, flat, size, rows)
<1>1. IInv /\ [Next]_vars => [P]_vars
  <2> SUFFICES ASSUME IInv, NEW stmt \in Prepared, NEW flat \in FlatParams,
                      RunBatch(stmt, flat), NEW size, size = Placeholders(stmt),
                      NEW rows, rows = WholeRows(flat, size)
               PROVE  Same(stmt, flat, size, rows)
    OBVIOUS
  <2> QED BY BatchSame
<1>2. [][P]_vars => BatchIsSequence
  BY DEF BatchIsSequence
<1> QED BY <1>1, <1>2, SessionsKeepTables, PTL DEF Spec

=============================================================================
