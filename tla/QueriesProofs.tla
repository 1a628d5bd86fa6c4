--------------------------- MODULE QueriesProofs ---------------------------
(***************************************************************************)
(* Theorems about the ways to read a table (Queries), the statements of    *)
(* the SQL executor (SqlStatements) and their results (SqlResults).        *)
(***************************************************************************)
EXTENDS SqlResults, TableOpsProofs

-----------------------------------------------------------------------------
(* Values *)

\* Each kind of value has a type of its own and keeps what it is made from.
LEMMA Constructors ==
  /\ Null.type = "null"
  /\ \A n : Integer(n).type = "integer" /\ Integer(n).n = n
  /\ \A s : String(s).type = "string" /\ String(s).chars = s
  /\ \A k : InternedString(k).type = "interned" /\ InternedString(k).symbol = k
  /\ \A b : Boolean(b).type = "boolean" /\ Boolean(b).b = b
BY DEF Null, Integer, String, InternedString, Boolean

\* A cell is Null, an integer, a Boolean or the symbol of a string.
LEMMA Cells ==
  ASSUME NEW v \in Values
  PROVE  \/ v = Null
         \/ v.n \in Int /\ v = Integer(v.n)
         \/ v.b \in BOOLEAN /\ v = Boolean(v.b)
         \/ v.symbol \in Nat /\ v = InternedString(v.symbol)
BY ValuesAssumption DEF IsCell

\* No cell holds a string as such.
LEMMA CellsAreNoStrings ==
  ASSUME NEW v \in Values
  PROVE  v.type # "string"
BY Cells, Constructors

\* What callers write is a cell or one of their strings.
LEMMA WrittenValues ==
  ASSUME NEW v \in Written
  PROVE  \/ v \in Values /\ v.type # "interned" /\ v.type # "string"
         \/ v.type = "string" /\ v.chars \in Texts /\ v = String(v.chars)
BY CellsAreNoStrings, Constructors DEF Written

-----------------------------------------------------------------------------
(* Induction *)

\* Induction up to n: what holds at first and after each step holds at the end.
LEMMA UpTo ==
  ASSUME NEW n \in Nat, NEW G, 0 \in G, \A m \in 1 .. n : m - 1 \in G => m \in G
  PROVE  \A k \in 0 .. n : k \in G
<1> DEFINE Bad == {k \in 0 .. n : k \notin G}
<1>1. Bad \subseteq Nat
  OBVIOUS
<1>2. Bad = {}
  <2> SUFFICES ASSUME Bad # {}  PROVE FALSE
    OBVIOUS
  <2>1. PICK m \in Bad : \A k \in Bad : m <= k
    <3> HIDE DEF Bad
    <3> QED  BY <1>1, LeastElement
  <2>2. m \in 1 .. n /\ m - 1 \in 0 .. n /\ ~(m <= m - 1)
    BY <2>1
  <2>3. m - 1 \in G
    BY <2>1, <2>2
  <2> QED  BY <2>1, <2>2, <2>3
<1> QED  BY <1>2

\* Induction on all that came before.
LEMMA AllBefore ==
  ASSUME NEW n \in Nat, NEW G, \A m \in 1 .. n : (\A k \in 1 .. m - 1 : k \in G) => m \in G
  PROVE  \A k \in 1 .. n : k \in G
<1> DEFINE H == {m \in 0 .. n : \A k \in 1 .. m : k \in G}
<1>1. 0 \in H
  OBVIOUS
<1>2. ASSUME NEW m \in 1 .. n, m - 1 \in H
      PROVE  m \in H
  <2>1. \A k \in 1 .. m - 1 : k \in G
    BY <1>2
  <2>2. m \in G
    BY <2>1
  <2> QED  BY <2>1, <2>2
<1>3. \A k \in 0 .. n : k \in H
  <2> HIDE DEF H
  <2> QED  BY <1>1, <1>2, UpTo
<1> QED  BY <1>3

-----------------------------------------------------------------------------
(* Sets in a row *)

\* A row of as many elements as a finite set has, no two the same, has them all.
LEMMA Enumeration ==
  ASSUME NEW S, IsFiniteSet(S), NEW f \in [1 .. Cardinality(S) -> S],
         \A i, j \in 1 .. Cardinality(S) : f[i] = f[j] => i = j
  PROVE  /\ f \in Seq(S) /\ Len(f) = Cardinality(S) /\ Len(f) \in Nat /\ DOMAIN f = 1 .. Len(f)
         /\ \A x \in S : \E i \in 1 .. Len(f) : f[i] = x
<1> DEFINE n == Cardinality(S)
           hit == {f[i] : i \in 1 .. n}
<1>1. n \in Nat
  BY FS_CardinalityType
<1>2. f \in Seq(S) /\ Len(f) = n /\ DOMAIN f = 1 .. n
  BY <1>1
<1>3. IsFiniteSet(1 .. n) /\ Cardinality(1 .. n) = n
  BY <1>1, FS_Interval
<1>4. f \in Injection(1 .. n, hit) /\ f \in Surjection(1 .. n, hit)
  BY DEF Injection, Surjection, IsInjective
<1>5. IsFiniteSet(hit) /\ Cardinality(hit) = n
  BY <1>3, <1>4, FS_Surjection
<1>6. hit \in SUBSET S
  OBVIOUS
<1>7. hit = S
  BY <1>5, <1>6, FS_Subset
<1> QED  BY <1>1, <1>2, <1>7

\* SetToSeq puts the elements of a finite set in a row, each once.
LEMMA SetToSeqProperties ==
  ASSUME NEW S, IsFiniteSet(S)
  PROVE  /\ SetToSeq(S) \in Seq(S) /\ Len(SetToSeq(S)) = Cardinality(S)
         /\ \A i, j \in 1 .. Len(SetToSeq(S)) : SetToSeq(S)[i] = SetToSeq(S)[j] => i = j
         /\ \A x \in S : \E i \in 1 .. Len(SetToSeq(S)) : SetToSeq(S)[i] = x
<1> DEFINE n == Cardinality(S)
           f == SetToSeq(S)
<1>1. n \in Nat /\ \E g \in [1 .. n -> S] : IsInjective(g)
  BY FS_CardinalityType DEF ExistsBijection, Bijection, Injection
<1>2. f \in [1 .. n -> S] /\ IsInjective(f)
  BY <1>1 DEF SetToSeq
<1> HIDE DEF f
<1>3. \A i, j \in 1 .. n : f[i] = f[j] => i = j
  BY <1>2 DEF IsInjective
<1>4. f \in Seq(S) /\ Len(f) = n /\ \A x \in S : \E i \in 1 .. Len(f) : f[i] = x
  BY <1>2, <1>3, Enumeration
<1> QED  BY <1>3, <1>4 DEF f

IsAscending(s) == \A i, j \in DOMAIN s : i < j => s[i] < s[j]

\* Every set of positions has an ascending row.
LEMMA AscendingExists ==
  ASSUME NEW n \in Nat
  PROVE  \A S \in SUBSET (1 .. n) : \E s \in SetToSeqs(S) : IsAscending(s)
<1> DEFINE Has(S) == \E s \in SetToSeqs(S) : IsAscending(s)
           G == {m \in 0 .. n : \A S \in SUBSET (1 .. m) : Has(S)}
<1>1. 0 \in G
  <2> SUFFICES ASSUME NEW S \in SUBSET (1 .. 0)  PROVE Has(S)
    OBVIOUS
  <2>0. S = {}
    OBVIOUS
  <2>1. S = {} /\ Cardinality(S) = 0
    BY <2>0, FS_EmptySet
  <2>2. [k \in 1 .. 0 |-> k] \in SetToSeqs(S)
    BY <2>1 DEF SetToSeqs
  <2>3. IsAscending([k \in 1 .. 0 |-> k])
    BY DEF IsAscending
  <2> QED  BY <2>2, <2>3
<1>2. ASSUME NEW m \in 1 .. n, m - 1 \in G
      PROVE  m \in G
  <2> SUFFICES ASSUME NEW S \in SUBSET (1 .. m)  PROVE Has(S)
    OBVIOUS
  <2>1. CASE m \notin S
    <3>1. S \in SUBSET (1 .. m - 1)
      BY <2>1
    <3> HIDE DEF Has
    <3> QED  BY <1>2, <3>1
  <2>2. CASE m \in S
    <3> DEFINE T == S \ {m}
               c == Cardinality(T)
    <3>1. T \in SUBSET (1 .. m - 1)
      OBVIOUS
    <3>2. PICK s \in SetToSeqs(T) : IsAscending(s)
      <4>1. Has(T)
        <5> HIDE DEF Has, T
        <5> QED  BY <1>2, <3>1
      <4> QED  BY <4>1
    <3>3. IsFiniteSet(S) /\ IsFiniteSet(T) /\ c \in Nat /\ Cardinality(S) = c + 1
      <4>1. IsFiniteSet(1 .. m) /\ IsFiniteSet(1 .. m - 1)
        BY FS_Interval
      <4>2. IsFiniteSet(S) /\ IsFiniteSet(T)
        BY <3>1, <4>1, FS_Subset
      <4>3. S = T \cup {m} /\ m \notin T
        BY <2>2
      <4> HIDE DEF T
      <4> QED  BY <4>2, <4>3, FS_AddElement, FS_CardinalityType
    <3> DEFINE r == [k \in 1 .. c + 1 |-> IF k = c + 1 THEN m ELSE s[k]]
    <3>4. s \in [1 .. c -> T] /\ (\A i, j \in 1 .. c : i # j => s[i] # s[j]) /\ DOMAIN s = 1 .. c
      BY <3>2 DEF SetToSeqs
    <3>5. \A k \in 1 .. c : s[k] \in 1 .. m - 1 /\ s[k] \in S
      BY <3>1, <3>4
    <3> HIDE DEF T, c
    <3>6. /\ DOMAIN r = 1 .. c + 1 /\ r[c + 1] = m /\ \A k \in 1 .. c : r[k] = s[k]
          /\ \A k \in 1 .. c + 1 : k = c + 1 \/ k \in 1 .. c
      BY <3>3
    <3>7. r \in [1 .. c + 1 -> S]
      BY <2>2, <3>3, <3>5
    <3> HIDE DEF r
    <3>8. \A i, j \in 1 .. c + 1 : i < j => r[i] < r[j]
      <4> SUFFICES ASSUME NEW i \in 1 .. c + 1, NEW j \in 1 .. c + 1, i < j
                   PROVE  r[i] < r[j]
        OBVIOUS
      <4>1. i \in 1 .. c
        BY <3>3
      <4>2. CASE j = c + 1
        BY <3>5, <3>6, <4>1, <4>2
      <4>3. CASE j \in 1 .. c
        BY <3>2, <3>4, <3>6, <4>1, <4>3 DEF IsAscending
      <4> QED  BY <3>6, <4>2, <4>3
    <3>9. \A i, j \in 1 .. c + 1 : i # j => r[i] # r[j]
      <4>1. \A i \in 1 .. c + 1 : r[i] \in 1 .. m
        BY <3>7
      <4> QED  BY <3>3, <3>8, <4>1
    <3>10. r \in SetToSeqs(S)
      BY <3>3, <3>7, <3>9 DEF SetToSeqs
    <3>11. IsAscending(r)
      BY <3>6, <3>8 DEF IsAscending
    <3> QED  BY <3>10, <3>11
  <2> QED  BY <2>1, <2>2
<1>3. \A m \in 0 .. n : m \in G
  <2> HIDE DEF G
  <2> QED  BY <1>1, <1>2, UpTo
<1>4. n \in G
  <2> HIDE DEF G
  <2> QED  BY <1>3
<1> QED  BY <1>4

\* Ascending(S) has the positions in S, each once, in their order.
LEMMA AscendingProperties ==
  ASSUME NEW n \in Nat, NEW S \in SUBSET (1 .. n)
  PROVE  /\ Ascending(S) \in Seq(S) /\ Len(Ascending(S)) = Cardinality(S)
         /\ IsFiniteSet(S)
         /\ \A i, j \in 1 .. Len(Ascending(S)) : i < j => Ascending(S)[i] < Ascending(S)[j]
         /\ \A x \in S : \E i \in 1 .. Len(Ascending(S)) : Ascending(S)[i] = x
<1> DEFINE f == Ascending(S)
<1>1. f \in SetToSeqs(S) /\ IsAscending(f)
  BY AscendingExists DEF Ascending, IsAscending
<1>2. IsFiniteSet(S)
  <2>1. IsFiniteSet(1 .. n)
    BY FS_Interval
  <2> QED  BY <2>1, FS_Subset
<1> HIDE DEF f
<1>3. f \in [1 .. Cardinality(S) -> S] /\ \A i, j \in 1 .. Cardinality(S) : f[i] = f[j] => i = j
  BY <1>1 DEF SetToSeqs
<1>4. /\ f \in Seq(S) /\ Len(f) = Cardinality(S) /\ DOMAIN f = 1 .. Len(f)
      /\ \A x \in S : \E i \in 1 .. Len(f) : f[i] = x
  BY <1>2, <1>3, Enumeration
<1>5. \A i, j \in 1 .. Len(f) : i < j => f[i] < f[j]
  BY <1>1, <1>4 DEF IsAscending
<1> QED  BY <1>2, <1>4, <1>5 DEF f

-----------------------------------------------------------------------------
(* The string pool *)

\* Each symbol stands for a string of its own.
PoolInv(strings) ==
  /\ strings \in Seq(Texts)
  /\ \A i, j \in 1 .. Len(strings) : strings[i] = strings[j] => i = j

\* The pool only grows: a symbol keeps its string.
Grown(strings, more) ==
  /\ Len(strings) <= Len(more)
  /\ \A k \in 1 .. Len(strings) : more[k] = strings[k]

\* There are no more symbols than strings, so each of them fits a cell.
LEMMA PoolBound ==
  ASSUME NEW strings, PoolInv(strings)
  PROVE  Len(strings) \in Nat /\ Len(strings) <= Cardinality(Texts)
<1>1. Len(strings) \in Nat /\ strings \in [1 .. Len(strings) -> Texts]
  BY DEF PoolInv
<1>2. strings \in Injection(1 .. Len(strings), Texts)
  <2>1. DOMAIN strings = 1 .. Len(strings)
    BY <1>1
  <2>2. IsInjective(strings)
    BY <2>1 DEF IsInjective, PoolInv
  <2> QED  BY <1>1, <2>2 DEF Injection
<1>3. Cardinality(1 .. Len(strings)) = Len(strings)
  <2>1. \A k \in Nat : Cardinality(1 .. k) = k
    BY FS_Interval
  <2> QED  BY <1>1, <2>1
<1>4. IsFiniteSet(Texts)
  BY ValuesAssumption
<1> QED  BY <1>1, <1>2, <1>3, <1>4, FS_Injection

\* The symbol of a string that is held stands for it.
LEMMA SymbolStands ==
  ASSUME NEW strings, PoolInv(strings), NEW s, Holding(strings, s)
  PROVE  /\ SymbolOf(strings, s) \in Nat /\ SymbolOf(strings, s) < Len(strings)
         /\ strings[SymbolOf(strings, s) + 1] = s
         /\ InternedString(SymbolOf(strings, s)) \in Values
<1>1. Len(strings) \in Nat /\ Len(strings) <= Cardinality(Texts)
  BY PoolBound
<1> DEFINE k == CHOOSE k \in 1 .. Len(strings) : strings[k] = s
<1>2. k \in 1 .. Len(strings) /\ strings[k] = s
  BY DEF Holding
<1>3. SymbolOf(strings, s) = k - 1
  BY DEF SymbolOf
<1>4. IsFiniteSet(Texts) /\ \A m \in 0 .. Cardinality(Texts) - 1 : InternedString(m) \in Values
  BY ValuesAssumption
<1>5. Cardinality(Texts) \in Nat
  BY <1>4, FS_CardinalityType
<1> HIDE DEF k
<1>6. k - 1 \in 0 .. Cardinality(Texts) - 1
  BY <1>1, <1>2, <1>5
<1>7. InternedString(k - 1) \in Values
  BY <1>4, <1>6
<1> QED  BY <1>1, <1>2, <1>3, <1>7

\* No other symbol stands for it.
LEMMA SymbolUnique ==
  ASSUME NEW strings, PoolInv(strings), NEW k \in Nat, k < Len(strings)
  PROVE  Holding(strings, strings[k + 1]) /\ SymbolOf(strings, strings[k + 1]) = k
<1>1. Len(strings) \in Nat
  BY DEF PoolInv
<1>2. k + 1 \in 1 .. Len(strings)
  BY <1>1
<1>3. Holding(strings, strings[k + 1])
  BY <1>2 DEF Holding
<1> DEFINE m == SymbolOf(strings, strings[k + 1])
<1>4. m \in Nat /\ m < Len(strings) /\ strings[m + 1] = strings[k + 1]
  BY <1>3, SymbolStands
<1> HIDE DEF m
<1>5. m + 1 \in 1 .. Len(strings)
  BY <1>1, <1>4
<1>6. m + 1 = k + 1
  BY <1>2, <1>4, <1>5 DEF PoolInv
<1> QED  BY <1>3, <1>4, <1>6 DEF m

\* A string keeps its symbol while the pool grows.
LEMMA SymbolKept ==
  ASSUME NEW strings, NEW more, PoolInv(strings), PoolInv(more), Grown(strings, more),
         NEW s, Holding(strings, s)
  PROVE  Holding(more, s) /\ SymbolOf(more, s) = SymbolOf(strings, s)
<1> DEFINE k == SymbolOf(strings, s)
<1>1. k \in Nat /\ k < Len(strings) /\ strings[k + 1] = s
  BY SymbolStands
<1>2. Len(strings) \in Nat /\ Len(more) \in Nat
  BY DEF PoolInv
<1> HIDE DEF k
<1>3. k < Len(more) /\ more[k + 1] = s
  BY <1>1, <1>2 DEF Grown
<1> QED  BY <1>1, <1>3, SymbolUnique DEF k

\* The strings of a row that is written.
LEMMA RowStrings ==
  ASSUME NEW row \in [Cols -> Written]
  PROVE  StringsOf(row) \subseteq Texts /\ IsFiniteSet(StringsOf(row))
<1>1. StringsOf(row) \subseteq Texts
  BY WrittenValues DEF StringsOf
<1> QED  BY <1>1, FS_Subset, ValuesAssumption

\* Interning a row adds its new strings at the end of the pool, each once.
LEMMA InterningPool ==
  ASSUME NEW strings, PoolInv(strings), NEW row \in [Cols -> Written]
  PROVE  LET more == Interning(strings, row)
         IN  /\ PoolInv(more) /\ Grown(strings, more)
             /\ \A s \in StringsOf(row) : Holding(more, s)
<1> DEFINE S == {s \in StringsOf(row) : ~Holding(strings, s)}
           add == SetToSeq(S)
           more == strings \o add
<1>1. S \subseteq Texts /\ IsFiniteSet(S)
  BY RowStrings, FS_Subset
<1>2. /\ add \in Seq(S)
      /\ \A i, j \in 1 .. Len(add) : add[i] = add[j] => i = j
      /\ \A x \in S : \E i \in 1 .. Len(add) : add[i] = x
  BY <1>1, SetToSeqProperties
<1> HIDE DEF add, S
<1>3. strings \in Seq(Texts) /\ add \in Seq(Texts)
  BY <1>1, <1>2 DEF PoolInv
<1>4. /\ more \in Seq(Texts)
      /\ Len(more) = Len(strings) + Len(add)
      /\ \A p \in 1 .. Len(strings) + Len(add) :
           more[p] = IF p <= Len(strings) THEN strings[p] ELSE add[p - Len(strings)]
  BY <1>3, ConcatLookup
<1>5. Len(strings) \in Nat /\ Len(add) \in Nat
  BY <1>3
<1> HIDE DEF more
<1>6. Grown(strings, more)
  BY <1>4, <1>5 DEF Grown
<1>7. ASSUME NEW i \in 1 .. Len(more), NEW j \in 1 .. Len(more), more[i] = more[j]
      PROVE  i = j
  <2>1. CASE i <= Len(strings) /\ j <= Len(strings)
    <3>1. i \in 1 .. Len(strings) /\ j \in 1 .. Len(strings) /\ strings[i] = strings[j]
      BY <1>4, <1>5, <1>7, <2>1
    <3> QED  BY <3>1 DEF PoolInv
  <2>2. CASE i > Len(strings) /\ j > Len(strings)
    <3>1. more[i] = add[i - Len(strings)] /\ more[j] = add[j - Len(strings)]
      BY <1>4, <1>5, <2>2
    <3>2. i - Len(strings) \in 1 .. Len(add) /\ j - Len(strings) \in 1 .. Len(add)
      BY <1>4, <1>5, <2>2
    <3>3. i - Len(strings) = j - Len(strings)
      BY <1>2, <1>7, <3>1, <3>2
    <3> QED  BY <1>5, <3>3
  <2>3. ASSUME NEW k \in 1 .. Len(strings), NEW m \in 1 .. Len(add)
        PROVE  strings[k] # add[m]
    <3>1. add[m] \in S
      BY <1>2
    <3> QED  BY <3>1 DEF S, Holding
  <2>4. CASE i <= Len(strings) /\ j > Len(strings)
    <3>1. more[i] = strings[i] /\ more[j] = add[j - Len(strings)]
      BY <1>4, <1>5, <2>4
    <3>2. i \in 1 .. Len(strings) /\ j - Len(strings) \in 1 .. Len(add)
      BY <1>4, <1>5, <2>4
    <3> QED  BY <1>7, <2>3, <3>1, <3>2
  <2>5. CASE i > Len(strings) /\ j <= Len(strings)
    <3>1. more[j] = strings[j] /\ more[i] = add[i - Len(strings)]
      BY <1>4, <1>5, <2>5
    <3>2. j \in 1 .. Len(strings) /\ i - Len(strings) \in 1 .. Len(add)
      BY <1>4, <1>5, <2>5
    <3> QED  BY <1>7, <2>3, <3>1, <3>2
  <2> QED  BY <1>4, <1>5, <2>1, <2>2, <2>4, <2>5
<1>8. ASSUME NEW s \in StringsOf(row)
      PROVE  Holding(more, s)
  <2>1. CASE Holding(strings, s)
    BY <1>4, <1>5, <2>1 DEF Holding
  <2>2. CASE ~Holding(strings, s)
    <3>1. PICK i \in 1 .. Len(add) : add[i] = s
      BY <1>2, <2>2 DEF S
    <3>2. Len(strings) + i \in 1 .. Len(more) /\ (Len(strings) + i) - Len(strings) = i
      BY <1>4, <1>5
    <3>3. ~(Len(strings) + i <= Len(strings))
      BY <1>5
    <3>4. more[Len(strings) + i] = s
      BY <1>4, <3>1, <3>2, <3>3
    <3> QED  BY <3>2, <3>4 DEF Holding
  <2> QED  BY <2>1, <2>2
<1>9. Interning(strings, row) = more
  BY DEF Interning, more, add, S
<1>10. PoolInv(more)
  BY <1>4, <1>7 DEF PoolInv
<1> QED  BY <1>6, <1>8, <1>9, <1>10

-----------------------------------------------------------------------------
(* The invariant *)

\* The symbols in a row have strings, and only columns of type String have them.
RowInv(row, strings) ==
  /\ row \in Row
  /\ \A c \in Cols : row[c].type = "interned" => row[c].symbol < Len(strings) /\ c \in StringCols

RowsInv(t, strings) == \A p \in Positions(t) : t.ids[p] \in Nat /\ RowInv(t.data[p], strings)

PlainIndexes(t) == \A c \in Cols : t.indexes[c].kind \in {"none", "plain"} /\ Listed(t, c, {})

\* The lookups of the table are exact, and its symbols are those of the pool.
TableInv(t, strings) == Inv(t) /\ Owned(t, {}) /\ PlainIndexes(t) /\ RowsInv(t, strings)

IInv == PoolInv(pool) /\ TableInv(table, pool)

\* A row as callers write it, with strings in columns of type String only.
Writable(row) ==
  row \in [Cols -> Written] /\ \A c \in Cols : row[c].type = "string" => c \in StringCols

\* Interning a row keeps its values: a string becomes a symbol that stands for it.
LEMMA InternRowInv ==
  ASSUME NEW strings, PoolInv(strings), NEW row, Writable(row),
         \A s \in StringsOf(row) : Holding(strings, s)
  PROVE  LET new == InternRow(strings, row)
         IN  /\ RowInv(new, strings)
             /\ \A c \in Cols :
                  IF row[c].type = "string"
                  THEN /\ new[c].type = "interned"
                       /\ row[c] = String(strings[new[c].symbol + 1])
                  ELSE new[c] = row[c] /\ new[c].type # "interned"
<1> DEFINE new == InternRow(strings, row)
<1>1. ASSUME NEW c \in Cols, row[c].type = "string"
      PROVE  /\ new[c] \in Values /\ new[c].type = "interned" /\ new[c].symbol < Len(strings)
             /\ row[c] = String(strings[new[c].symbol + 1]) /\ c \in StringCols
  <2> DEFINE k == SymbolOf(strings, row[c].chars)
  <2>1. row[c].chars \in StringsOf(row)
    BY <1>1 DEF StringsOf
  <2>2. k < Len(strings) /\ strings[k + 1] = row[c].chars /\ InternedString(k) \in Values
    BY <2>1, SymbolStands
  <2>3. row[c] = String(row[c].chars) /\ c \in StringCols
    BY <1>1, WrittenValues DEF Writable
  <2>4. new[c] = InternedString(k)
    BY <1>1 DEF InternRow
  <2> QED  BY <2>2, <2>3, <2>4, Constructors
<1>2. ASSUME NEW c \in Cols, row[c].type # "string"
      PROVE  new[c] = row[c] /\ new[c] \in Values /\ new[c].type # "interned"
  <2>1. new[c] = row[c]
    BY <1>2 DEF InternRow
  <2> QED  BY <1>2, <2>1, WrittenValues DEF Writable
<1>3. new \in [Cols -> Values]
  <2>1. \A c \in Cols : new[c] \in Values
    BY <1>1, <1>2
  <2> QED  BY <2>1 DEF InternRow
<1> HIDE DEF new
<1>4. RowInv(new, strings)
  BY <1>1, <1>2, <1>3 DEF RowInv, Row
<1> QED  BY <1>1, <1>2, <1>4 DEF new

\* Growing the pool changes no row.
LEMMA GrownRows ==
  ASSUME NEW strings, NEW more, PoolInv(strings), PoolInv(more), Grown(strings, more),
         NEW row, RowInv(row, strings)
  PROVE  RowInv(row, more)
<1>1. Len(strings) \in Nat /\ Len(more) \in Nat /\ Len(strings) <= Len(more)
  BY DEF PoolInv, Grown
<1>2. \A c \in Cols : row[c] \in Values
  BY DEF RowInv, Row
<1>3. ASSUME NEW c \in Cols, row[c].type = "interned"
      PROVE  row[c].symbol < Len(more)
  <2>1. row[c].symbol \in Nat /\ row[c].symbol < Len(strings)
    BY <1>2, <1>3, Cells, Constructors DEF RowInv
  <2> QED  BY <1>1, <2>1
<1> QED  BY <1>3 DEF RowInv

LEMMA GrownTable ==
  ASSUME NEW strings, NEW more, PoolInv(strings), PoolInv(more), Grown(strings, more),
         NEW t, TableInv(t, strings)
  PROVE  TableInv(t, more)
BY GrownRows DEF TableInv, RowsInv

\* A table without rows.
LEMMA EmptyTableInv ==
  ASSUME NEW strings
  PROVE  TableInv(EmptyTable, strings)
<1>1. \A c \in Cols : EmptyTable.indexes[c].kind = "none"
  BY DEF EmptyTable, NoIndex
<1>2. Positions(EmptyTable) = {}
  BY DEF EmptyTable, Positions
<1> QED  BY <1>1, <1>2, EmptyInv, EmptyOwned, EmptyListed DEF TableInv, PlainIndexes, RowsInv

\* Appending rows that can be in the table.
LEMMA AppendTableInv ==
  ASSUME NEW strings, NEW t, TableInv(t, strings), NEW rows \in Seq(Row),
         \A i \in 1 .. Len(rows) : RowInv(rows[i], strings),
         t.nextId + Len(rows) <= AutoLimit
  PROVE  TableInv(AppendAuto(t, rows, {"unique"}), strings)
<1> DEFINE new == FreshIds(t, Len(rows))
           w == AppendAuto(t, rows, {"unique"})
<1>1. Inv(t) /\ Owned(t, {})
  BY DEF TableInv
<1>2. Inv(w) /\ Owned(w, {}) /\ \A c \in Cols : Listed(w, c, {})
  BY <1>1, AppendAutoInv, AppendAutoOwned, AppendAutoListed DEF TableInv, PlainIndexes
<1>3. Appended(t, new, rows, {"unique"}, w)
  BY <1>1, AppendAutoFieldwise
<1> HIDE DEF w
<1>4. Len(rows) \in Nat /\ \A i \in 1 .. Len(rows) : new[i] \in Nat
  BY <1>1, FreshIdsNew
<1> HIDE DEF new
<1>5. ASSUME NEW c \in Cols
      PROVE  w.indexes[c].kind = t.indexes[c].kind
  <2>1. t.indexes[c] \in Index
    BY <1>1, Fields
  <2>2. w.indexes[c] = IndexAppend(t.indexes[c], c, Len(t.ids), new, rows, {"unique"})
    BY <1>3 DEF Appended
  <2> QED  BY <2>1, <2>2 DEF IndexAppend, Index
<1>6. Len(t.ids) \in Nat /\ Positions(t) = 1 .. Len(t.ids)
  BY <1>1, Fields
<1>7. ASSUME NEW p \in Positions(w)
      PROVE  w.ids[p] \in Nat /\ RowInv(w.data[p], strings)
  <2>1. p \in 1 .. Len(t.ids) + Len(rows)
    BY <1>3, <1>7 DEF Appended, Positions
  <2>2. CASE p <= Len(t.ids)
    <3>1. w.ids[p] = t.ids[p] /\ w.data[p] = t.data[p] /\ p \in Positions(t)
      BY <1>3, <1>4, <1>6, <2>1, <2>2 DEF Appended
    <3> QED  BY <3>1 DEF TableInv, RowsInv
  <2>3. CASE ~(p <= Len(t.ids))
    <3>1. p - Len(t.ids) \in 1 .. Len(rows)
      BY <1>4, <1>6, <2>1, <2>3
    <3>2. w.ids[p] = new[p - Len(t.ids)] /\ w.data[p] = rows[p - Len(t.ids)]
      BY <1>3, <2>1, <2>3 DEF Appended
    <3> QED  BY <1>4, <3>1, <3>2
  <2> QED  BY <2>2, <2>3
<1> QED  BY <1>2, <1>5, <1>7 DEF TableInv, PlainIndexes, RowsInv, w

\* delete
LEMMA DeleteTableInv ==
  ASSUME NEW strings, NEW t, TableInv(t, strings), NEW id \in Id
  PROVE  TableInv(Delete(t, id), strings)
<1>1. Inv(t) /\ Owned(t, {}) /\ PlainIndexes(t) /\ RowsInv(t, strings)
  BY DEF TableInv
<1>2. CASE GetIndex(t, id) = 0
  BY <1>2 DEF Delete
<1>3. CASE GetIndex(t, id) # 0
  <2> DEFINE w == Delete(t, id)
             p == GetIndex(t, id)
             n == Len(t.ids)
  <2>1. Inv(w) /\ Owned(w, {}) /\ \A c \in Cols : Listed(w, c, {})
    BY <1>1, DeleteInv, DeleteOwned, DeleteListed DEF PlainIndexes
  <2>2. RowGone(t, id, w)
    BY <1>1, <1>3, DeleteFields
  <2> HIDE DEF w
  <2>3. PlainIndexes(w)
    BY <1>1, <2>1, <2>2 DEF PlainIndexes, RowGone
  <2>4. Positions(t) = 1 .. n /\ n \in Nat
    BY <1>1, Fields
  <2>5. ASSUME NEW q \in Positions(w)
        PROVE  w.ids[q] \in Nat /\ RowInv(w.data[q], strings)
    <3>1. q \in 1 .. n - 1 /\ n \in 1 .. n
      BY <2>2, <2>4, <2>5 DEF RowGone, Positions
    <3>2. /\ w.ids[q] = (IF q = p THEN t.ids[n] ELSE t.ids[q])
          /\ w.data[q] = (IF q = p THEN t.data[n] ELSE t.data[q])
      BY <2>2, <3>1 DEF RowGone
    <3>3. q \in Positions(t) /\ n \in Positions(t)
      BY <2>4, <3>1
    <3> QED  BY <1>1, <3>2, <3>3 DEF RowsInv
  <2> QED  BY <2>1, <2>3, <2>5 DEF TableInv, RowsInv, w
<1> QED  BY <1>2, <1>3

\* What writing a row changes.
LEMMA WriteRowFields ==
  ASSUME NEW t, Inv(t), NEW p \in Positions(t), NEW id \in Id, NEW row \in Row
  PROVE  LET w == WriteRow(t, p, id, row)
         IN  /\ w.ids = t.ids /\ w.idMap = t.idMap /\ w.nextId = t.nextId
             /\ w.sequential = t.sequential /\ Positions(w) = Positions(t)
             /\ \A q \in Positions(t) : w.data[q] = IF q = p THEN row ELSE t.data[q]
             /\ \A c \in Cols : w.indexes[c].kind = t.indexes[c].kind
<1> DEFINE w == WriteRow(t, p, id, row)
<1>1. /\ t.data \in Seq(Row) /\ Len(t.data) = Len(t.ids) /\ Positions(t) = 1 .. Len(t.ids)
      /\ t.indexes \in [Cols -> Index] /\ t \in TableRecord
  BY Fields DEF Inv, Good
<1>2. /\ w.ids = t.ids /\ w.idMap = t.idMap /\ w.nextId = t.nextId
      /\ w.sequential = t.sequential
      /\ w.data = [t.data EXCEPT ![p] = row]
      /\ w.indexes = [c \in Cols |-> IndexUpdate(t.indexes[c], id, t.data[p][c], row[c])]
  BY <1>1 DEF WriteRow, TableRecord
<1> HIDE DEF w
<1>3. \A q \in Positions(t) : w.data[q] = IF q = p THEN row ELSE t.data[q]
  BY <1>1, <1>2
<1>4. ASSUME NEW c \in Cols
      PROVE  w.indexes[c].kind = t.indexes[c].kind
  <2>1. t.indexes[c] \in Index
    BY <1>1
  <2> QED  BY <1>2, <2>1 DEF IndexUpdate, Index
<1> QED  BY <1>2, <1>3, <1>4 DEF w, Positions

\* update
LEMMA UpdateTableInv ==
  ASSUME NEW strings, NEW t, TableInv(t, strings), NEW id \in Id, NEW row, RowInv(row, strings)
  PROVE  TableInv(Update(t, id, row), strings)
<1> DEFINE w == Update(t, id, row)
           p == t.idMap[id]
<1>1. Inv(t) /\ Owned(t, {}) /\ PlainIndexes(t) /\ RowsInv(t, strings) /\ row \in Row
  BY DEF TableInv, RowInv
<1>2. CASE p = 0
  BY <1>2 DEF Update
<1>3. CASE p # 0
  <2>1. Inv(w) /\ Owned(w, {}) /\ \A c \in Cols : Listed(w, c, {})
    BY <1>1, UpdateInv, UpdateOwned, UpdateListed DEF PlainIndexes
  <2>2. p \in Positions(t) /\ w = WriteRow(t, p, id, row)
    BY <1>1, <1>3 DEF Update, Inv, Sound
  <2>3. /\ w.ids = t.ids /\ Positions(w) = Positions(t)
        /\ \A q \in Positions(t) : w.data[q] = IF q = p THEN row ELSE t.data[q]
        /\ \A c \in Cols : w.indexes[c].kind = t.indexes[c].kind
    BY <1>1, <2>2, WriteRowFields
  <2> HIDE DEF w
  <2> QED  BY <1>1, <2>1, <2>3 DEF TableInv, PlainIndexes, RowsInv, w
<1> QED  BY <1>2, <1>3

\* create_index of a plain index
LEMMA IndexTableInv ==
  ASSUME NEW strings, NEW t, TableInv(t, strings), NEW d \in Cols
  PROVE  TableInv(CreateIndex(t, d, "plain"), strings)
<1> DEFINE w == CreateIndex(t, d, "plain")
<1>1. Inv(t) /\ Owned(t, {}) /\ PlainIndexes(t) /\ RowsInv(t, strings)
  BY DEF TableInv
<1>2. Inv(w) /\ Owned(w, {}) /\ \A c \in Cols : Listed(w, c, {})
  BY <1>1, CreateIndexInv, CreateIndexOwned, CreateIndexListed DEF PlainIndexes
<1>3. t \in TableRecord /\ t.indexes \in [Cols -> Index]
  BY <1>1, Fields DEF Inv, Good
<1>4. w.ids = t.ids /\ w.data = t.data
  BY <1>3 DEF CreateIndex, TableRecord
<1>5. \A c \in Cols : w.indexes[c].kind = IF c = d THEN "plain" ELSE t.indexes[c].kind
  BY <1>3 DEF CreateIndex, TableRecord
<1> HIDE DEF w
<1> QED  BY <1>1, <1>2, <1>4, <1>5 DEF TableInv, PlainIndexes, RowsInv, Positions, w

\* The loop that fills id_map.
LEMMA LeaveTableInv ==
  ASSUME NEW strings, NEW t, TableInv(t, strings)
  PROVE  TableInv(LeaveSequential(t), strings)
<1> DEFINE w == LeaveSequential(t)
<1>1. Inv(t) /\ Owned(t, {}) /\ PlainIndexes(t) /\ RowsInv(t, strings)
  BY DEF TableInv
<1>2. Inv(w) /\ Owned(w, {})
  BY <1>1, LeaveSequentialInv, LeaveSequentialOwned
<1>3. w.ids = t.ids /\ w.data = t.data /\ w.nextId = t.nextId /\ w.indexes = t.indexes
  BY <1>1, LeaveSequentialInv
<1> HIDE DEF w
<1>4. \A c \in Cols : Listed(w, c, {})
  BY <1>1, <1>3, SameRowsListed DEF PlainIndexes
<1> QED  BY <1>1, <1>2, <1>3, <1>4 DEF TableInv, PlainIndexes, RowsInv, Positions, w

-----------------------------------------------------------------------------
(* Loops *)

\* f is what a loop over values of X has after 0, 1, ..., n steps.
IsRun(f, X, start, n, step) ==
  /\ f \in [0 .. n -> X] /\ f[0] = start
  /\ \A k \in 1 .. n : f[k] = step[k][f[k - 1]]

\* Every loop of n steps has a run.
LEMMA Run ==
  ASSUME NEW X, NEW start \in X, NEW n \in Nat, NEW step \in [1 .. n -> [X -> X]]
  PROVE  \E f : IsRun(f, X, start, n, step)
<1> DEFINE Runs(m, f) == /\ f \in [0 .. m -> X] /\ f[0] = start
                         /\ \A k \in 1 .. m : f[k] = step[k][f[k - 1]]
           G == {m \in 0 .. n : \E f : Runs(m, f)}
<1>1. 0 \in G
  <2>1. Runs(0, [k \in 0 .. 0 |-> start])
    OBVIOUS
  <2> HIDE DEF Runs
  <2> QED  BY <2>1
<1>2. ASSUME NEW m \in 1 .. n, m - 1 \in G
      PROVE  m \in G
  <2>1. PICK f : Runs(m - 1, f)
    <3> HIDE DEF Runs
    <3> QED BY <1>2
  <2> DEFINE last == step[m][f[m - 1]]
             g == [k \in 0 .. m |-> IF k = m THEN last ELSE f[k]]
  <2>2. f \in [0 .. m - 1 -> X] /\ f[0] = start /\ \A k \in 1 .. m - 1 : f[k] = step[k][f[k - 1]]
    BY <2>1
  <2>3. m - 1 \in 0 .. m - 1 /\ m # 0
    OBVIOUS
  <2>4. last \in X
    BY <2>2, <2>3
  <2>5. \A k \in 0 .. m - 1 : g[k] = f[k]
    OBVIOUS
  <2>6. g[m] = last
    OBVIOUS
  <2> HIDE DEF last
  <2>7. g \in [0 .. m -> X] /\ g[0] = start
    BY <2>2, <2>3, <2>4
  <2> HIDE DEF g
  <2>8. ASSUME NEW k \in 1 .. m
        PROVE  g[k] = step[k][g[k - 1]]
    <3>1. CASE k = m
      BY <2>3, <2>5, <2>6, <3>1 DEF last
    <3>2. CASE k # m
      <4>1. k \in 1 .. m - 1 /\ k \in 0 .. m - 1 /\ k - 1 \in 0 .. m - 1
        BY <3>2
      <4> QED  BY <2>2, <2>5, <4>1
    <3> QED  BY <3>1, <3>2
  <2>9. Runs(m, g)
    BY <2>7, <2>8
  <2> HIDE DEF Runs
  <2> QED  BY <2>9
<1>3. \A m \in 0 .. n : m \in G
  <2> HIDE DEF G
  <2> QED  BY <1>1, <1>2, UpTo
<1>4. PICK f : Runs(n, f)
  <2> HIDE DEF Runs
  <2> QED  BY <1>3
<1> QED  BY <1>4 DEF IsRun

\* The strings of several rows are interned one row after the other.
LEMMA InternRowsPool ==
  ASSUME NEW strings, PoolInv(strings), NEW rows \in Seq([Cols -> Written])
  PROVE  LET more == InternRows(strings, rows)
         IN  /\ PoolInv(more) /\ Grown(strings, more)
             /\ \A i \in 1 .. Len(rows) : \A s \in StringsOf(rows[i]) : Holding(more, s)
<1> DEFINE n == Len(rows)
           X == {q \in Seq(Texts) : PoolInv(q)}
           step == [k \in 1 .. n |-> [q \in X |-> Interning(q, rows[k])]]
           Solves(f) == f = [k \in 0 .. n |-> IF k = 0 THEN strings
                                              ELSE Interning(f[k - 1], rows[k])]
           after == CHOOSE f : Solves(f)
<1>1. n \in Nat /\ strings \in X /\ \A k \in 1 .. n : rows[k] \in [Cols -> Written]
  BY DEF PoolInv
<1>2. \A k \in 1 .. n, q \in X : Interning(q, rows[k]) \in X
  <2> SUFFICES ASSUME NEW k \in 1 .. n, NEW q \in X  PROVE Interning(q, rows[k]) \in X
    OBVIOUS
  <2>1. rows[k] \in [Cols -> Written] /\ PoolInv(q)
    BY <1>1
  <2>2. PoolInv(Interning(q, rows[k]))
    BY <2>1, InterningPool
  <2> QED  BY <2>2 DEF PoolInv
<1>3. step \in [1 .. n -> [X -> X]]
  BY <1>2
<1>4. PICK f : IsRun(f, X, strings, n, step)
  <2>1. n \in Nat /\ strings \in X
    BY <1>1
  <2> HIDE DEF X, step, n
  <2> QED  BY <2>1, <1>3, Run
<1>5. /\ f \in [0 .. n -> X] /\ f[0] = strings
      /\ \A k \in 1 .. n : f[k] = Interning(f[k - 1], rows[k])
  <2>0. f \in [0 .. n -> X] /\ f[0] = strings /\ \A k \in 1 .. n : f[k] = step[k][f[k - 1]]
    BY <1>4 DEF IsRun
  <2> SUFFICES ASSUME NEW k \in 1 .. n  PROVE f[k] = Interning(f[k - 1], rows[k])
    BY <2>0
  <2>1. f[k - 1] \in X
    <3> HIDE DEF X
    <3> QED  BY <1>1, <2>0
  <2>2. step[k][f[k - 1]] = Interning(f[k - 1], rows[k])
    <3> HIDE DEF X
    <3> QED  BY <2>1
  <2> QED  BY <2>0, <2>2
<1>6. Solves(f)
  <2> HIDE DEF X, step
  <2>1. \A k \in 0 .. n : f[k] = IF k = 0 THEN strings ELSE Interning(f[k - 1], rows[k])
    <3> SUFFICES ASSUME NEW k \in 0 .. n
                 PROVE  f[k] = IF k = 0 THEN strings ELSE Interning(f[k - 1], rows[k])
      OBVIOUS
    <3>1. CASE k = 0
      BY <1>5, <3>1
    <3>2. CASE k # 0
      <4>1. k \in 1 .. n
        BY <1>1, <3>2
      <4> QED  BY <1>5, <3>2, <4>1
    <3> QED  BY <3>1, <3>2
  <2> QED  BY <1>5, <2>1
<1>7. Solves(after)
  <2> HIDE DEF Solves
  <2> QED  BY <1>6
<1>8. InternRows(strings, rows) = after[n]
  BY DEF InternRows
<1> HIDE DEF after, step
<1>9. after[0] = strings /\ \A k \in 1 .. n : after[k] = Interning(after[k - 1], rows[k])
  BY <1>1, <1>7
<1> DEFINE Done(k) == /\ PoolInv(after[k]) /\ Grown(strings, after[k])
                      /\ \A i \in 1 .. k : \A s \in StringsOf(rows[i]) : Holding(after[k], s)
           G == {k \in 0 .. n : Done(k)}
<1>10. 0 \in G
  BY <1>1, <1>9 DEF Grown
<1>11. ASSUME NEW m \in 1 .. n, m - 1 \in G
       PROVE  m \in G
  <2>4. Done(m - 1)
    BY <1>11
  <2> DEFINE old == after[m - 1]
             new == after[m]
  <2>5. new = Interning(old, rows[m]) /\ rows[m] \in [Cols -> Written]
    BY <1>1, <1>9
  <2>6. PoolInv(old) /\ Grown(strings, old)
        /\ \A i \in 1 .. m - 1 : \A s \in StringsOf(rows[i]) : Holding(old, s)
    BY <2>4
  <2> HIDE DEF old, new, Done
  <2>7. PoolInv(new) /\ Grown(old, new) /\ \A s \in StringsOf(rows[m]) : Holding(new, s)
    BY <2>5, <2>6, InterningPool
  <2>8. Len(strings) \in Nat /\ Len(old) \in Nat /\ Len(new) \in Nat
    BY <2>6, <2>7 DEF PoolInv
  <2>9. Grown(strings, new)
    BY <2>6, <2>7, <2>8 DEF Grown
  <2>10. ASSUME NEW i \in 1 .. m, NEW s \in StringsOf(rows[i])
         PROVE  Holding(new, s)
    <3>1. CASE i = m
      BY <2>7, <3>1
    <3>2. CASE i # m
      <4>1. i \in 1 .. m - 1
        BY <3>2
      <4> QED  BY <2>6, <2>7, <4>1, SymbolKept
    <3> QED  BY <3>1, <3>2
  <2>11. Done(m)
    BY <2>7, <2>9, <2>10 DEF Done, new
  <2> QED  BY <1>1, <2>11
<1>12. \A k \in 0 .. n : k \in G
  <2> HIDE DEF G, n
  <2> QED  BY <1>1, <1>10, <1>11, UpTo
<1>13. Done(n)
  <2> HIDE DEF Done
  <2> QED  BY <1>1, <1>12
<1> QED  BY <1>8, <1>13

-----------------------------------------------------------------------------
(* The rows a statement collects *)

\* Reading finds positions of the table and no others.
LEMMA ReadsPositions ==
  ASSUME IInv
  PROVE  /\ \A c, v : FindByColumn(c, v) \subseteq Positions(table)
         /\ \A e : DirectId(e) \subseteq Positions(table) /\ Where(e) \subseteq Positions(table)
<1>1. Inv(table) /\ PlainIndexes(table)
  BY DEF IInv, TableInv
<1>2. \A id \in Id : Get(table, id) # 0 => Get(table, id) \in Positions(table)
  BY <1>1, GetIndexFinds
<1>3. ASSUME NEW c \in Cols, NEW v
      PROVE  Lookup(table, c, v) \subseteq Positions(table)
  <2>1. table.indexes[c].kind # "unique"
    BY <1>1 DEF PlainIndexes
  <2> QED  BY <1>2, <2>1 DEF Lookup
<1>4. ASSUME NEW c, NEW v
      PROVE  FindByColumn(c, v) \subseteq Positions(table)
  <2> DEFINE key == Key(v)
  <2>1. CASE Indexed(c)
    <3>1. c \in Cols
      BY <2>1 DEF Indexed
    <3>2. FindByColumn(c, v) = IF key \in Values THEN Lookup(table, c, key) ELSE {}
      BY <2>1, <3>1, RowsAssumption DEF FindByColumn
    <3> HIDE DEF key
    <3> QED  BY <1>3, <3>1, <3>2
  <2>2. CASE ~Indexed(c) /\ c \in Cols
    <3>1. FindByColumn(c, v) = Scan(table, c, key)
      BY <2>2, RowsAssumption DEF FindByColumn
    <3> QED  BY <3>1 DEF Scan
  <2>3. CASE ~Indexed(c) /\ c \notin Cols /\ c = "id"
    <3>1. FindByColumn(c, v) = {p \in Positions(table) : Integer(table.ids[p]) = key}
      BY <2>3 DEF FindByColumn
    <3> QED  BY <3>1
  <2>4. CASE ~Indexed(c) /\ c \notin Cols /\ c # "id"
    BY <2>4 DEF FindByColumn
  <2> QED  BY <2>1, <2>2, <2>3, <2>4
<1>5. ASSUME NEW e
      PROVE  DirectId(e) \subseteq Positions(table)
  BY <1>2 DEF DirectId
<1>6. ASSUME NEW e
      PROVE  Where(e) \subseteq Positions(table)
  <2>1. CASE DirectId(e) # {}
    BY <1>5, <2>1 DEF Where
  <2>2. CASE DirectId(e) = {} /\ EqLiteral(e) # <<>>
    BY <1>4, <2>2 DEF Where
  <2>3. CASE DirectId(e) = {} /\ EqLiteral(e) = <<>>
    BY <2>3 DEF Where, Select
  <2> QED  BY <2>1, <2>2, <2>3
<1> QED  BY <1>4, <1>5, <1>6

\* What a clause collects.
Chosen(clause) == IF clause = NoClause THEN Positions(table) ELSE Where(clause)

\* The positions of the collected rows are positions, each once.
LEMMA CollectedPositions ==
  ASSUME IInv, NEW clause
  PROVE  LET s == Collected(clause)
         IN  /\ s \in Seq(Positions(table)) /\ Len(s) \in Nat
             /\ \A i, j \in 1 .. Len(s) : s[i] = s[j] => i = j
             /\ \A p : p \in Chosen(clause) <=> \E i \in 1 .. Len(s) : s[i] = p
<1> DEFINE n == Len(table.ids)
           S == Chosen(clause)
           s == Collected(clause)
<1>1. n \in Nat /\ Positions(table) = 1 .. n
  BY Fields DEF IInv, TableInv
<1>2. S \in SUBSET (1 .. n)
  BY <1>1, ReadsPositions DEF Chosen
<1>3. s = Ascending(S)
  BY DEF Collected, Chosen
<1> HIDE DEF S, s, n
<1>4. /\ s \in Seq(S)
      /\ \A i, j \in 1 .. Len(s) : i < j => s[i] < s[j]
      /\ \A x \in S : \E i \in 1 .. Len(s) : s[i] = x
  BY <1>1, <1>2, <1>3, AscendingProperties
<1>5. Len(s) \in Nat /\ \A i \in 1 .. Len(s) : s[i] \in S /\ s[i] \in Nat
  <2>1. Len(s) \in Nat /\ \A i \in 1 .. Len(s) : s[i] \in S
    BY <1>4
  <2>2. \A x \in S : x \in Nat
    BY <1>2
  <2> QED  BY <2>1, <2>2
<1>6. s \in Seq(Positions(table))
  <2>1. S \subseteq Positions(table)
    BY <1>1, <1>2
  <2> QED  BY <1>4, <2>1
<1>7. ASSUME NEW i \in 1 .. Len(s), NEW j \in 1 .. Len(s), s[i] = s[j]
      PROVE  i = j
  <2>1. s[i] \in Nat /\ ~(s[i] < s[i])
    BY <1>5
  <2>2. CASE i < j
    <3>1. s[i] < s[j]
      BY <1>4, <2>2
    <3> QED  BY <1>7, <2>1, <3>1
  <2>3. CASE j < i
    <3>1. s[j] < s[i]
      BY <1>4, <2>3
    <3> QED  BY <1>7, <2>1, <3>1
  <2>4. i \in Nat /\ j \in Nat
    BY <1>5
  <2> QED  BY <2>2, <2>3, <2>4
<1>8. \A p : p \in S <=> \E i \in 1 .. Len(s) : s[i] = p
  BY <1>4, <1>5
<1> QED  BY <1>5, <1>6, <1>7, <1>8 DEF s, S

\* DELETE makes one call of delete after the other.
LEMMA DeleteRowsRun ==
  ASSUME IInv, NEW s \in Seq(Positions(table))
  PROVE  \E left : /\ left[0] = table /\ DeleteRows(s) = left[Len(s)]
                   /\ \A k \in 1 .. Len(s) : left[k] = Delete(left[k - 1], table.ids[s[k]])
                   /\ \A k \in 0 .. Len(s) : TableInv(left[k], pool)
<1> DEFINE n == Len(s)
           X == {t \in TableRecord : TableInv(t, pool)}
           step == [k \in 1 .. n |-> [t \in X |-> Delete(t, table.ids[s[k]])]]
           Solves(f) == f = [k \in 0 .. n |-> IF k = 0 THEN table
                                              ELSE Delete(f[k - 1], table.ids[s[k]])]
           left == CHOOSE f : Solves(f)
<1>1. n \in Nat /\ table \in X /\ \A k \in 1 .. n : table.ids[s[k]] \in Id
  BY Fields DEF IInv, TableInv, Inv, Good
<1>2. \A k \in 1 .. n, t \in X : Delete(t, table.ids[s[k]]) \in X
  <2> SUFFICES ASSUME NEW k \in 1 .. n, NEW t \in X  PROVE Delete(t, table.ids[s[k]]) \in X
    OBVIOUS
  <2>1. TableInv(Delete(t, table.ids[s[k]]), pool)
    BY <1>1, DeleteTableInv
  <2> QED  BY <2>1 DEF TableInv, Inv, Good
<1>3. step \in [1 .. n -> [X -> X]]
  BY <1>2
<1>4. PICK f : IsRun(f, X, table, n, step)
  <2>1. n \in Nat /\ table \in X
    BY <1>1
  <2> HIDE DEF X, step, n
  <2> QED  BY <2>1, <1>3, Run
<1>5. /\ f \in [0 .. n -> X] /\ f[0] = table
      /\ \A k \in 1 .. n : f[k] = Delete(f[k - 1], table.ids[s[k]])
  <2>0. f \in [0 .. n -> X] /\ f[0] = table /\ \A k \in 1 .. n : f[k] = step[k][f[k - 1]]
    BY <1>4 DEF IsRun
  <2> SUFFICES ASSUME NEW k \in 1 .. n  PROVE f[k] = Delete(f[k - 1], table.ids[s[k]])
    BY <2>0
  <2> HIDE DEF X
  <2>1. f[k - 1] \in X
    BY <1>1, <2>0
  <2>2. step[k][f[k - 1]] = Delete(f[k - 1], table.ids[s[k]])
    BY <2>1
  <2> QED  BY <2>0, <2>2
<1>6. Solves(f)
  <2> HIDE DEF X, step
  <2>1. \A k \in 0 .. n : f[k] = IF k = 0 THEN table ELSE Delete(f[k - 1], table.ids[s[k]])
    <3> SUFFICES ASSUME NEW k \in 0 .. n
                 PROVE  f[k] = IF k = 0 THEN table ELSE Delete(f[k - 1], table.ids[s[k]])
      OBVIOUS
    <3>1. CASE k = 0
      BY <1>5, <3>1
    <3>2. CASE k # 0
      <4>1. k \in 1 .. n
        BY <1>1, <3>2
      <4> QED  BY <1>5, <3>2, <4>1
    <3> QED  BY <3>1, <3>2
  <2> QED  BY <1>5, <2>1
<1>7. Solves(left)
  <2> HIDE DEF Solves
  <2> QED  BY <1>6
<1>8. DeleteRows(s) = left[n]
  BY DEF DeleteRows
<1> HIDE DEF left, step
<1>9. left[0] = table /\ \A k \in 1 .. n : left[k] = Delete(left[k - 1], table.ids[s[k]])
  BY <1>1, <1>7
<1> DEFINE G == {k \in 0 .. n : TableInv(left[k], pool)}
<1>10. 0 \in G
  BY <1>1, <1>9
<1>11. ASSUME NEW m \in 1 .. n, m - 1 \in G
       PROVE  m \in G
  BY <1>1, <1>9, <1>11, DeleteTableInv
<1>12. \A k \in 0 .. n : k \in G
  <2>1. n \in Nat
    BY <1>1
  <2> HIDE DEF G, n
  <2> QED  BY <2>1, <1>10, <1>11, UpTo
<1> QED  BY <1>8, <1>9, <1>12

\* What a cell stands for is a value callers write.
LEMMA ResolvedCell ==
  ASSUME IInv, NEW p \in Positions(table), NEW c \in Cols
  PROVE  LET v == table.data[p][c]
         IN  /\ v \in Values /\ Resolved(v) \in Written
             /\ IF v.type = "interned"
                THEN /\ v.symbol \in Nat /\ v.symbol < Len(pool) /\ v = InternedString(v.symbol)
                     /\ Resolved(v) = String(pool[v.symbol + 1])
                     /\ pool[v.symbol + 1] \in Texts /\ Pooled(pool[v.symbol + 1])
                     /\ c \in StringCols
                ELSE Resolved(v) = v /\ v.type # "string"
<1> DEFINE v == table.data[p][c]
<1>1. RowInv(table.data[p], pool) /\ PoolInv(pool)
  BY DEF IInv, TableInv, RowsInv
<1>2. v \in Values
  BY <1>1 DEF RowInv, Row
<1>3. v.type = "interned" => v.symbol < Len(pool) /\ c \in StringCols
  BY <1>1 DEF RowInv
<1> HIDE DEF v
<1>4. CASE v.type = "interned"
  <2>1. v.symbol \in Nat /\ v = InternedString(v.symbol)
    BY <1>2, <1>4, Cells, Constructors
  <2>2. v.symbol + 1 \in 1 .. Len(pool) /\ pool \in Seq(Texts)
    BY <1>1, <1>3, <1>4, <2>1 DEF PoolInv
  <2>3. pool[v.symbol + 1] \in Texts
    BY <2>2
  <2>4. Resolved(v) = String(pool[v.symbol + 1])
    BY <1>4 DEF Resolved
  <2>5. Pooled(pool[v.symbol + 1])
    BY <2>2 DEF Pooled, Holding
  <2> QED  BY <1>2, <1>3, <1>4, <2>1, <2>3, <2>4, <2>5 DEF v, Written
<1>5. CASE v.type # "interned"
  BY <1>2, <1>5, CellsAreNoStrings DEF v, Resolved, Written
<1> QED  BY <1>4, <1>5

\* The row UPDATE writes can be written; its strings are those that are
\* assigned or are in the pool.
LEMMA AssignedWritable ==
  ASSUME IInv, NEW p \in Positions(table), NEW a \in Assignments
  PROVE  /\ Writable(Assigned(p, a))
         /\ \A s \in StringsOf(Assigned(p, a)) :
              \/ Pooled(s)
              \/ \E c \in Cols \cap DOMAIN a : a[c].type = "string" /\ a[c].chars = s
<1> DEFINE row == Assigned(p, a)
<1>1. ASSUME NEW c \in Cols \cap DOMAIN a
      PROVE  row[c] = a[c] /\ row[c] \in Written /\ (row[c].type = "string" => c \in StringCols)
  BY ClausesAssumption DEF Assigned
<1>2. ASSUME NEW c \in Cols, c \notin DOMAIN a
      PROVE  /\ row[c] \in Written
             /\ row[c].type = "string" => c \in StringCols /\ Pooled(row[c].chars)
  <2>1. row[c] = Resolved(table.data[p][c])
    BY <1>2 DEF Assigned
  <2> HIDE DEF row
  <2> QED  BY <2>1, ResolvedCell, Constructors
<1>3. row \in [Cols -> Written]
  <2>1. \A c \in Cols : row[c] \in Written
    BY <1>1, <1>2
  <2> QED  BY <2>1 DEF Assigned
<1> HIDE DEF row
<1>4. Writable(row)
  BY <1>1, <1>2, <1>3 DEF Writable
<1>5. \A s \in StringsOf(row) :
        \/ Pooled(s)
        \/ \E c \in Cols \cap DOMAIN a : a[c].type = "string" /\ a[c].chars = s
  BY <1>1, <1>2 DEF StringsOf
<1> QED  BY <1>4, <1>5 DEF row

\* Interning the first row of an UPDATE interns the strings of all of them.
LEMMA UpdateInterns ==
  ASSUME IInv, NEW p \in Positions(table), NEW q \in Positions(table), NEW a \in Assignments
  PROVE  LET strings == Interning(pool, Assigned(p, a))
         IN  /\ PoolInv(strings) /\ Grown(pool, strings)
             /\ \A s \in StringsOf(Assigned(q, a)) : Holding(strings, s)
<1> DEFINE strings == Interning(pool, Assigned(p, a))
<1>1. Assigned(p, a) \in [Cols -> Written] /\ PoolInv(pool)
  BY AssignedWritable DEF Writable, IInv
<1>2. /\ PoolInv(strings) /\ Grown(pool, strings)
      /\ \A s \in StringsOf(Assigned(p, a)) : Holding(strings, s)
  BY <1>1, InterningPool
<1> HIDE DEF strings
<1>3. ASSUME NEW s \in StringsOf(Assigned(q, a))
      PROVE  Holding(strings, s)
  <2>1. CASE Pooled(s)
    BY <1>1, <1>2, <2>1, SymbolKept DEF Pooled
  <2>2. CASE \E c \in Cols \cap DOMAIN a : a[c].type = "string" /\ a[c].chars = s
    <3>1. PICK c \in Cols \cap DOMAIN a : a[c].type = "string" /\ a[c].chars = s
      BY <2>2
    <3>2. Assigned(p, a)[c] = a[c]
      BY DEF Assigned
    <3>3. s \in StringsOf(Assigned(p, a))
      BY <3>1, <3>2 DEF StringsOf
    <3> QED  BY <1>2, <3>3
  <2> QED  BY <2>1, <2>2, AssignedWritable
<1> QED  BY <1>2, <1>3 DEF strings

\* UPDATE makes one call of update after the other.
LEMMA UpdateRowsRun ==
  ASSUME IInv, NEW s \in Seq(Positions(table)), NEW strings, TableInv(table, strings), NEW a,
         \A k \in 1 .. Len(s) : RowInv(InternRow(strings, Assigned(s[k], a)), strings)
  PROVE  \E after :
                   /\ after[0] = table /\ UpdateRows(strings, s, a) = after[Len(s)]
                   /\ \A k \in 1 .. Len(s) :
                        after[k] = Update(after[k - 1], table.ids[s[k]],
                                          InternRow(strings, Assigned(s[k], a)))
                   /\ \A k \in 0 .. Len(s) : TableInv(after[k], strings)
<1> DEFINE n == Len(s)
           Row1(i) == InternRow(strings, Assigned(s[i], a))
           X == {t \in TableRecord : TableInv(t, strings)}
           step == [k \in 1 .. n |-> [t \in X |-> Update(t, table.ids[s[k]], Row1(k))]]
           Solves(f) == f = [k \in 0 .. n |-> IF k = 0 THEN table
                                              ELSE Update(f[k - 1], table.ids[s[k]], Row1(k))]
           after == CHOOSE f : Solves(f)
<1>1. /\ n \in Nat /\ table \in X
      /\ \A k \in 1 .. n : table.ids[s[k]] \in Id /\ RowInv(Row1(k), strings)
  BY Fields DEF IInv, TableInv, Inv, Good
<1> HIDE DEF Row1
<1>2. \A k \in 1 .. n, t \in X : Update(t, table.ids[s[k]], Row1(k)) \in X
  <2> SUFFICES ASSUME NEW k \in 1 .. n, NEW t \in X  PROVE Update(t, table.ids[s[k]], Row1(k)) \in X
    OBVIOUS
  <2>1. TableInv(Update(t, table.ids[s[k]], Row1(k)), strings)
    BY <1>1, UpdateTableInv
  <2> QED  BY <2>1 DEF TableInv, Inv, Good
<1>3. step \in [1 .. n -> [X -> X]]
  BY <1>2
<1>4. PICK f : IsRun(f, X, table, n, step)
  <2>1. n \in Nat /\ table \in X
    BY <1>1
  <2> HIDE DEF X, step, n
  <2> QED  BY <2>1, <1>3, Run
<1>5. /\ f \in [0 .. n -> X] /\ f[0] = table
      /\ \A k \in 1 .. n : f[k] = Update(f[k - 1], table.ids[s[k]], Row1(k))
  <2>0. f \in [0 .. n -> X] /\ f[0] = table /\ \A k \in 1 .. n : f[k] = step[k][f[k - 1]]
    BY <1>4 DEF IsRun
  <2> SUFFICES ASSUME NEW k \in 1 .. n  PROVE f[k] = Update(f[k - 1], table.ids[s[k]], Row1(k))
    BY <2>0
  <2> HIDE DEF X
  <2>1. f[k - 1] \in X
    BY <1>1, <2>0
  <2>2. step[k][f[k - 1]] = Update(f[k - 1], table.ids[s[k]], Row1(k))
    BY <2>1
  <2> QED  BY <2>0, <2>2
<1>6. Solves(f)
  <2> HIDE DEF X, step
  <2>1. \A k \in 0 .. n : f[k] = IF k = 0 THEN table ELSE Update(f[k - 1], table.ids[s[k]], Row1(k))
    <3> SUFFICES ASSUME NEW k \in 0 .. n
                 PROVE  f[k] = IF k = 0 THEN table ELSE Update(f[k - 1], table.ids[s[k]], Row1(k))
      OBVIOUS
    <3>1. CASE k = 0
      BY <1>5, <3>1
    <3>2. CASE k # 0
      <4>1. k \in 1 .. n
        BY <1>1, <3>2
      <4> QED  BY <1>5, <3>2, <4>1
    <3> QED  BY <3>1, <3>2
  <2> QED  BY <1>5, <2>1
<1>7. Solves(after)
  <2> HIDE DEF Solves
  <2> QED  BY <1>6
<1>8. UpdateRows(strings, s, a) = after[n]
  BY DEF UpdateRows, Row1
<1> HIDE DEF after, step
<1>9. after[0] = table /\ \A k \in 1 .. n : after[k] = Update(after[k - 1], table.ids[s[k]], Row1(k))
  BY <1>1, <1>7
<1> DEFINE G == {k \in 0 .. n : TableInv(after[k], strings)}
<1>10. 0 \in G
  BY <1>1, <1>9
<1>11. ASSUME NEW m \in 1 .. n, m - 1 \in G
       PROVE  m \in G
  BY <1>1, <1>9, <1>11, UpdateTableInv
<1>12. \A k \in 0 .. n : k \in G
  <2>1. n \in Nat
    BY <1>1
  <2> HIDE DEF G, n
  <2> QED  BY <2>1, <1>10, <1>11, UpTo
<1> QED  BY <1>8, <1>9, <1>12 DEF Row1

-----------------------------------------------------------------------------
(* The operations preserve the invariant *)

LEMMA RowsWritable ==
  ASSUME NEW row \in Rows
  PROVE  Writable(row)
BY RowsAssumption DEF Writable

LEMMA InitInv == Init => IInv
<1> SUFFICES ASSUME Init  PROVE IInv
  OBVIOUS
<1>1. PoolInv(pool)
  BY DEF Init, PoolInv
<1> QED  BY <1>1, EmptyTableInv DEF Init, IInv

\* insert_values
LEMMA InsertRowInv ==
  ASSUME IInv, NEW row \in Rows, InsertRow(row)
  PROVE  IInv'
<1> DEFINE strings == Interning(pool, row)
           new == InternRow(strings, row)
<1>1. Writable(row) /\ row \in [Cols -> Written] /\ PoolInv(pool) /\ TableInv(table, pool)
  BY RowsWritable DEF IInv, Writable
<1>2. PoolInv(strings) /\ Grown(pool, strings) /\ \A s \in StringsOf(row) : Holding(strings, s)
  BY <1>1, InterningPool
<1>3. /\ pool' = strings /\ table' = AppendAuto(table, <<new>>, {"unique"})
      /\ table.nextId < AutoLimit
  BY DEF InsertRow, Insert
<1> HIDE DEF strings
<1>4. RowInv(new, strings)
  BY <1>1, <1>2, InternRowInv
<1> HIDE DEF new
<1>5. TableInv(table, strings)
  BY <1>1, <1>2, GrownTable
<1>6. table.nextId \in Nat
  BY <1>1, Fields DEF TableInv
<1>7. <<new>> \in Seq(Row) /\ Len(<<new>>) = 1 /\ \A i \in 1 .. 1 : <<new>>[i] = new
  BY <1>4 DEF RowInv
<1>8. table.nextId + Len(<<new>>) <= AutoLimit
  BY <1>3, <1>6, <1>7, AutoLimitAssumption
<1>9. \A i \in 1 .. Len(<<new>>) : RowInv(<<new>>[i], strings)
  BY <1>4, <1>7
<1>10. TableInv(AppendAuto(table, <<new>>, {"unique"}), strings)
  BY <1>5, <1>7, <1>8, <1>9, AppendTableInv
<1> QED  BY <1>2, <1>3, <1>10 DEF IInv

\* INSERT of one row or of several
LEMMA SqlInsertInv ==
  ASSUME IInv, NEW rows \in [1 .. 1 -> Rows] \cup [1 .. 2 -> Rows], SqlInsert(rows)
  PROVE  IInv'
<1> DEFINE strings == InternRows(pool, rows)
           new == [i \in DOMAIN rows |-> InternRow(strings, rows[i])]
<1>1. /\ rows \in Seq(Rows) /\ DOMAIN rows = 1 .. Len(rows) /\ Len(rows) \in Nat
      /\ \A i \in 1 .. Len(rows) : rows[i] \in Rows
  <2>1. PICK n \in Nat : rows \in [1 .. n -> Rows]
    <3>1. CASE rows \in [1 .. 1 -> Rows]
      <4> 1 \in Nat
        OBVIOUS
      <4> QED  BY <3>1
    <3>2. CASE rows \in [1 .. 2 -> Rows]
      <4> 2 \in Nat
        OBVIOUS
      <4> QED  BY <3>2
    <3> QED  BY <3>1, <3>2
  <2>2. rows \in Seq(Rows)
    BY <2>1
  <2> QED  BY <2>2
<1>2. PoolInv(pool) /\ TableInv(table, pool) /\ rows \in Seq([Cols -> Written])
  BY <1>1, RowsAssumption DEF IInv
<1>3. /\ PoolInv(strings) /\ Grown(pool, strings)
      /\ \A i \in 1 .. Len(rows) : \A s \in StringsOf(rows[i]) : Holding(strings, s)
  BY <1>2, InternRowsPool
<1>4. /\ pool' = strings /\ table' = AppendAuto(table, AcceptedPrefix(new), {"unique"})
      /\ table.nextId + Len(rows) <= AutoLimit
  BY DEF SqlInsert, InsertBatchValues
<1> HIDE DEF strings
<1>5. \A i \in 1 .. Len(rows) : RowInv(InternRow(strings, rows[i]), strings)
  BY <1>1, <1>3, RowsWritable, InternRowInv
<1>6. /\ new \in Seq(Row) /\ Len(new) = Len(rows) /\ DOMAIN new = 1 .. Len(rows)
      /\ \A i \in 1 .. Len(new) : RowInv(new[i], strings) /\ new[i] # BadRow
  <2>1. \A i \in 1 .. Len(rows) : InternRow(strings, rows[i]) \in Row
    BY <1>5 DEF RowInv
  <2> QED  BY <1>1, <1>5, <2>1, BadRowAssumption
<1> HIDE DEF new
<1>7. AcceptedPrefix(new) = new
  BY <1>6 DEF AcceptedPrefix
<1>8. TableInv(table, strings)
  BY <1>2, <1>3, GrownTable
<1>9. TableInv(AppendAuto(table, new, {"unique"}), strings)
  BY <1>4, <1>6, <1>8, AppendTableInv
<1> QED  BY <1>3, <1>4, <1>7, <1>9 DEF IInv

\* DELETE
LEMMA SqlDeleteInv ==
  ASSUME IInv, NEW clause, SqlDelete(clause)
  PROVE  IInv'
<1>1. Collected(clause) \in Seq(Positions(table)) /\ Len(Collected(clause)) \in Nat
  BY CollectedPositions
<1>2. TableInv(DeleteRows(Collected(clause)), pool)
  BY <1>1, DeleteRowsRun
<1> QED  BY <1>2 DEF SqlDelete, IInv

\* What UPDATE writes.
LEMMA SqlUpdateRows ==
  ASSUME IInv, NEW clause, NEW a \in Assignments, SqlUpdate(clause, a)
  PROVE  LET s == Collected(clause)
         IN  /\ PoolInv(pool') /\ Grown(pool, pool') /\ TableInv(table, pool')
             /\ \A k \in 1 .. Len(s) :
                  /\ \A x \in StringsOf(Assigned(s[k], a)) : Holding(pool', x)
                  /\ RowInv(InternRow(pool', Assigned(s[k], a)), pool')
<1> DEFINE s == Collected(clause)
<1>1. s \in Seq(Positions(table)) /\ Len(s) \in Nat
  BY CollectedPositions
<1>2. PoolInv(pool) /\ TableInv(table, pool)
  BY DEF IInv
<1>3. pool' = IF s = <<>> THEN pool ELSE Interning(pool, Assigned(s[1], a))
  BY DEF SqlUpdate
<1> HIDE DEF s
<1>4. CASE s = <<>>
  <2>1. Len(s) = 0 /\ pool' = pool
    BY <1>3, <1>4
  <2>2. Grown(pool, pool)
    BY <1>2 DEF Grown, PoolInv
  <2> QED  BY <1>2, <2>1, <2>2 DEF s
<1>5. CASE s # <<>>
  <2>1. s[1] \in Positions(table) /\ \A k \in 1 .. Len(s) : s[k] \in Positions(table)
    BY <1>1, <1>5
  <2>2. pool' = Interning(pool, Assigned(s[1], a))
    BY <1>3, <1>5
  <2>3. PoolInv(pool') /\ Grown(pool, pool')
    BY <2>1, <2>2, UpdateInterns
  <2>4. ASSUME NEW k \in 1 .. Len(s)
        PROVE  /\ \A x \in StringsOf(Assigned(s[k], a)) : Holding(pool', x)
               /\ RowInv(InternRow(pool', Assigned(s[k], a)), pool')
    <3>1. s[k] \in Positions(table)
      BY <2>1
    <3>2. \A x \in StringsOf(Assigned(s[k], a)) : Holding(pool', x)
      BY <2>1, <2>2, <3>1, UpdateInterns
    <3>3. Writable(Assigned(s[k], a))
      BY <3>1, AssignedWritable
    <3> QED  BY <2>3, <3>2, <3>3, InternRowInv
  <2>5. TableInv(table, pool')
    BY <1>2, <2>3, GrownTable
  <2> QED  BY <2>3, <2>4, <2>5 DEF s
<1> QED  BY <1>4, <1>5

\* UPDATE
LEMMA SqlUpdateInv ==
  ASSUME IInv, NEW clause, NEW a \in Assignments, SqlUpdate(clause, a)
  PROVE  IInv'
<1> DEFINE s == Collected(clause)
<1>1. s \in Seq(Positions(table)) /\ Len(s) \in Nat
  BY CollectedPositions
<1>2. /\ PoolInv(pool') /\ TableInv(table, pool')
      /\ \A k \in 1 .. Len(s) : RowInv(InternRow(pool', Assigned(s[k], a)), pool')
  BY SqlUpdateRows
<1>3. table' = UpdateRows(pool', s, a)
  BY DEF SqlUpdate
<1> HIDE DEF s
<1>4. TableInv(UpdateRows(pool', s, a), pool')
  <2>1. PICK after : /\ UpdateRows(pool', s, a) = after[Len(s)]
                     /\ \A k \in 0 .. Len(s) : TableInv(after[k], pool')
    BY <1>1, <1>2, UpdateRowsRun
  <2> QED  BY <1>1, <2>1
<1> QED  BY <1>2, <1>3, <1>4 DEF IInv

\* Every step of the table and of the statements.
LEMMA StepInv == IInv /\ [Next \/ SqlNext]_vars => IInv'
<1> SUFFICES ASSUME IInv, [Next \/ SqlNext]_vars  PROVE IInv'
  OBVIOUS
<1>1. ASSUME NEW row \in Rows, InsertRow(row)  PROVE IInv'
  BY <1>1, InsertRowInv
<1>2. ASSUME NEW id \in Id, DeleteRow(id)  PROVE IInv'
  BY <1>2, DeleteTableInv DEF DeleteRow, IInv
<1>3. ASSUME NEW c \in Cols, MakeIndex(c)  PROVE IInv'
  BY <1>3, IndexTableInv DEF MakeIndex, IInv
<1>4. ASSUME PopulateIdMap  PROVE IInv'
  BY <1>4, LeaveTableInv DEF PopulateIdMap, IInv
<1>5. ASSUME NEW rows \in [1 .. 1 -> Rows] \cup [1 .. 2 -> Rows], SqlInsert(rows)  PROVE IInv'
  BY <1>5, SqlInsertInv
<1>6. ASSUME NEW clause, SqlDelete(clause)  PROVE IInv'
  BY <1>6, SqlDeleteInv
<1>7. ASSUME NEW clause, NEW a \in Assignments, SqlUpdate(clause, a)  PROVE IInv'
  BY <1>7, SqlUpdateInv
<1>8. CASE UNCHANGED vars
  BY <1>8 DEF vars, IInv
<1> QED  BY <1>1, <1>2, <1>3, <1>4, <1>5, <1>6, <1>7, <1>8 DEF Next, SqlNext

\* The lookups of the table are exact and its symbols are those of its pool, in
\* every state that calls and statements reach.
THEOREM QueriesInv == SqlSpec => []IInv
BY InitInv, StepInv, PTL DEF SqlSpec


-----------------------------------------------------------------------------
(* Joins *)

\* A sequential table has the ids 0, 1, ... in their order.
InOrder(t) == t.sequential => \A p \in Positions(t) : t.ids[p] = p - 1

\* Joining the other way round gives the pairs swapped.
LEMMA SwappedPairs ==
  ASSUME NEW t, NEW c, NEW u, NEW d
  PROVE  Swapped(EqualPairs(u, d, t, c)) = EqualPairs(t, c, u, d)
<1> DEFINE S == EqualPairs(u, d, t, c)
<1>1. ASSUME NEW x \in EqualPairs(t, c, u, d)
      PROVE  x \in Swapped(S)
  <2>1. x \in Positions(t) \X Positions(u) /\ x = <<x[1], x[2]>>
    BY DEF EqualPairs
  <2> DEFINE y == <<x[2], x[1]>>
  <2>2. y \in S /\ x = <<y[2], y[1]>>
    BY <2>1 DEF EqualPairs
  <2> HIDE DEF S, y
  <2> QED  BY <2>2 DEF Swapped
<1>2. ASSUME NEW x \in Swapped(S)
      PROVE  x \in EqualPairs(t, c, u, d)
  <2>1. PICK y \in S : x = <<y[2], y[1]>>
    BY DEF Swapped
  <2>2. /\ y[1] \in Positions(u) /\ y[2] \in Positions(t) /\ x[1] = y[2] /\ x[2] = y[1]
        /\ ValueAt(u, d, y[1]) = ValueAt(t, c, y[2]) /\ ValueAt(u, d, y[1]) # Null
    BY <2>1 DEF EqualPairs
  <2>3. x \in Positions(t) \X Positions(u)
    BY <2>1, <2>2
  <2> QED  BY <2>2, <2>3 DEF EqualPairs
<1> QED  BY <1>1, <1>2

\* The fast path finds the pairs with equal values: ids are positions.
LEMMA DirectJoinPairs ==
  ASSUME NEW t, InOrder(t), t.sequential, NEW u, NEW d
  PROVE  DirectJoin(t, u, d) = EqualPairs(t, "id", u, d)
<1>1. \A p \in Positions(t) : ValueAt(t, "id", p) = Integer(p - 1)
  BY DEF InOrder, ValueAt
<1>2. \A n : Integer(n) # Null
  BY Constructors
<1> QED  BY <1>1, <1>2 DEF DirectJoin, EqualPairs

\* hash_join finds the pairs with equal values that are not Null.
LEMMA HashJoinPairs ==
  ASSUME NEW t, InOrder(t), NEW u, InOrder(u), NEW c, NEW d
  PROVE  HashJoin(t, c, u, d) = EqualPairs(t, c, u, d)
<1> DEFINE Join(build, bcol, probe, pcol) ==
             IF Direct(bcol, build) THEN DirectJoin(build, probe, pcol)
             ELSE IF Direct(pcol, probe) THEN Swapped(DirectJoin(probe, build, bcol))
             ELSE EqualPairs(build, bcol, probe, pcol)
<1>1. ASSUME NEW build, InOrder(build), NEW probe, InOrder(probe), NEW bcol, NEW pcol
      PROVE  Join(build, bcol, probe, pcol) = EqualPairs(build, bcol, probe, pcol)
  <2>1. CASE Direct(bcol, build)
    BY <1>1, <2>1, DirectJoinPairs DEF Direct
  <2>2. CASE ~Direct(bcol, build) /\ Direct(pcol, probe)
    BY <1>1, <2>2, DirectJoinPairs, SwappedPairs DEF Direct
  <2>3. CASE ~Direct(bcol, build) /\ ~Direct(pcol, probe)
    BY <2>3
  <2> QED  BY <2>1, <2>2, <2>3
<1>2. Join(t, c, u, d) = EqualPairs(t, c, u, d)
      /\ Swapped(Join(u, d, t, c)) = EqualPairs(t, c, u, d)
  <2> HIDE DEF Join
  <2> QED  BY <1>1, SwappedPairs
<1>3. HashJoin(t, c, u, d) = IF Len(t.ids) <= Len(u.ids) THEN Join(t, c, u, d)
                                                         ELSE Swapped(Join(u, d, t, c))
  BY DEF HashJoin
<1> HIDE DEF Join
<1> QED  BY <1>2, <1>3

\* hash_join gives exactly the pairs of rows with equal values that are not
\* Null, in every reachable table: its fast path takes an id for a position only
\* while they are the same.
LEMMA JoinHolds == IInv => JoinExact
<1> SUFFICES ASSUME IInv  PROVE JoinExact
  OBVIOUS
<1>1. InOrder(table)
  BY DEF IInv, TableInv, Inv, Dense, InOrder
<1>2. \A u \in Others : InOrder(u)
  BY OthersAssumption DEF InOrder
<1>3. /\ \A u \in Others : \A c, d : /\ HashJoin(table, c, u, d) = EqualPairs(table, c, u, d)
                                     /\ HashJoin(u, d, table, c) = EqualPairs(u, d, table, c)
      /\ \A c, d : HashJoin(table, c, table, d) = EqualPairs(table, c, table, d)
  BY <1>1, <1>2, HashJoinPairs
<1> QED  BY <1>3 DEF JoinExact, EqualPairs

THEOREM JoinsAreExact == SqlSpec => []JoinExact
<1>1. IInv => JoinExact
  BY JoinHolds
<1> QED  BY <1>1, QueriesInv, PTL

-----------------------------------------------------------------------------
(* What expressions evaluate to *)

\* The value of a node, f being those of its parts: in evaluate, in
\* evaluate_with_row and as the condition it is.
EvaluateNode(k, f, p) ==
  LET n == Nodes[k]
  IN  CASE n.node = "literal" -> n.value
        [] n.node = "column"  -> IF n.name \in Cols THEN table.data[p][n.name] ELSE Null
        [] n.node = "binary"  -> Apply(n.op, f[n.left], f[n.right])
        [] n.node = "not"     -> Negated(f[n.arg])

RowNode(k, f, p) ==
  LET n == Nodes[k]
  IN  CASE n.node = "column" -> IF n.name \in Cols THEN table.data[p][n.name]
                                ELSE IF n.name = "id" THEN Integer(table.ids[p]) ELSE Null
        [] n.node = "binary" -> ApplyToRow(n.op, f[n.left], f[n.right])
        [] OTHER -> Evaluate(k, p)

HoldsNode(k, f, p) ==
  LET n == Nodes[k]
  IN  CASE n.node = "not" -> ~f[n.arg]
        [] n.node = "binary" /\ n.op = "AND" -> f[n.left] /\ f[n.right]
        [] n.node = "binary" /\ n.op = "OR"  -> f[n.left] \/ f[n.right]
        [] OTHER -> Compare(n.op, Term(Nodes[n.left], p), Term(Nodes[n.right], p))

NodeValue(way, k, f, p) ==
  CASE way = "evaluate" -> EvaluateNode(k, f, p)
    [] way = "row"      -> RowNode(k, f, p)
    [] way = "holds"    -> HoldsNode(k, f, p)

\* A node looks at its parts only, which come before it.
LEMMA PartsBefore ==
  ASSUME NEW k \in Expressions
  PROVE  LET n == Nodes[k]
         IN  /\ n.node \in {"literal", "column", "binary", "not"}
             /\ n.node = "binary" => n.left \in 1 .. k - 1 /\ n.right \in 1 .. k - 1
             /\ n.node = "not" => n.arg \in 1 .. k - 1
             /\ \A m \in 1 .. k - 1 : m \in Expressions
<1>1. IsNode(Nodes[k], k) /\ Expressions = 1 .. Len(Nodes)
  BY NodesAssumption
<1>2. \A m \in 1 .. k - 1 : m \in Expressions
  BY <1>1
<1> DEFINE n == Nodes[k]
<1>3. IsNode(n, k)
  BY <1>1
<1> HIDE DEF n
<1>4. /\ n.node \in {"literal", "column", "binary", "not"}
      /\ n.node = "binary" => n.left \in 1 .. k - 1 /\ n.right \in 1 .. k - 1
      /\ n.node = "not" => n.arg \in 1 .. k - 1
  BY <1>3 DEF IsNode
<1> QED  BY <1>2, <1>4 DEF n

LEMMA LocalNode ==
  ASSUME NEW way \in {"evaluate", "row", "holds"}, NEW k \in Expressions, NEW p,
         NEW f, NEW g, \A i \in 1 .. k - 1 : f[i] = g[i]
  PROVE  NodeValue(way, k, f, p) = NodeValue(way, k, g, p)
<1> DEFINE n == Nodes[k]
<1>1. /\ n.node \in {"literal", "column", "binary", "not"}
      /\ n.node = "binary" => f[n.left] = g[n.left] /\ f[n.right] = g[n.right]
      /\ n.node = "not" => f[n.arg] = g[n.arg]
  BY PartsBefore
<1>2. EvaluateNode(k, f, p) = EvaluateNode(k, g, p)
  BY <1>1 DEF EvaluateNode
<1>3. RowNode(k, f, p) = RowNode(k, g, p)
  BY <1>1 DEF RowNode
<1>4. HoldsNode(k, f, p) = HoldsNode(k, g, p)
  BY <1>1 DEF HoldsNode
<1> QED  BY <1>2, <1>3, <1>4 DEF NodeValue

\* So every way to evaluate has a value for each node.
LEMMA NodeValues ==
  ASSUME NEW way \in {"evaluate", "row", "holds"}, NEW p
  PROVE  \E f : f = [k \in Expressions |-> NodeValue(way, k, f, p)]
<1> DEFINE N == Len(Nodes)
           Right(m, f) == \A k \in 1 .. m : f[k] = NodeValue(way, k, f, p)
           G == {m \in 0 .. N : \E f : Right(m, f)}
<1>1. N \in Nat /\ Expressions = 1 .. N
  <2>1. Expressions = DOMAIN Nodes /\ DOMAIN Nodes = 1 .. Len(Nodes)
    BY NodesAssumption DEF Expressions
  <2> QED  BY <2>1, NodesAssumption
<1> HIDE DEF N
<1>2. 0 \in G
  BY <1>1
<1>3. ASSUME NEW m \in 1 .. N, m - 1 \in G
      PROVE  m \in G
  <2>1. PICK f : Right(m - 1, f)
    <3> HIDE DEF Right
    <3> QED  BY <1>3
  <2> DEFINE g == [k \in 1 .. m |-> IF k = m THEN NodeValue(way, m, f, p) ELSE f[k]]
  <2>2. g[m] = NodeValue(way, m, f, p) /\ \A k \in 1 .. m - 1 : g[k] = f[k]
    OBVIOUS
  <2> HIDE DEF g
  <2>3. ASSUME NEW k \in 1 .. m
        PROVE  g[k] = NodeValue(way, k, g, p)
    <3>1. k \in Expressions /\ \A i \in 1 .. k - 1 : f[i] = g[i]
      BY <1>1, <2>2
    <3>2. NodeValue(way, k, f, p) = NodeValue(way, k, g, p)
      BY <3>1, LocalNode
    <3>3. CASE k = m
      BY <2>2, <3>2, <3>3
    <3>4. CASE k # m
      <4>1. k \in 1 .. m - 1
        BY <3>4
      <4> QED  BY <2>1, <2>2, <3>2, <4>1
    <3> QED  BY <3>3, <3>4
  <2>4. Right(m, g)
    BY <2>3
  <2> HIDE DEF Right
  <2> QED  BY <2>4
<1>4. \A m \in 0 .. N : m \in G
  <2> HIDE DEF G
  <2> QED  BY <1>1, <1>2, <1>3, UpTo
<1>5. PICK f : Right(N, f)
  <2> HIDE DEF Right
  <2> QED  BY <1>1, <1>4
<1> DEFINE g == [k \in Expressions |-> f[k]]
<1>6. \A k \in Expressions : g[k] = f[k]
  OBVIOUS
<1> HIDE DEF g
<1>7. ASSUME NEW k \in Expressions
      PROVE  g[k] = NodeValue(way, k, g, p)
  <2>1. \A i \in 1 .. k - 1 : f[i] = g[i]
    BY <1>1, <1>6
  <2>2. NodeValue(way, k, f, p) = NodeValue(way, k, g, p)
    BY <2>1, LocalNode
  <2> QED  BY <1>1, <1>5, <1>6, <2>2
<1>8. g = [k \in Expressions |-> NodeValue(way, k, g, p)]
  BY <1>7 DEF g
<1> QED  BY <1>8

\* evaluate
LEMMA EvaluateParts ==
  ASSUME NEW e \in Expressions, NEW p
  PROVE  LET n == Nodes[e]
         IN  /\ n.node = "literal" => Evaluate(e, p) = n.value
             /\ n.node = "column" =>
                  Evaluate(e, p) = IF n.name \in Cols THEN table.data[p][n.name] ELSE Null
             /\ n.node = "binary" =>
                  Evaluate(e, p) = Apply(n.op, Evaluate(n.left, p), Evaluate(n.right, p))
             /\ n.node = "not" => Evaluate(e, p) = Negated(Evaluate(n.arg, p))
<1> DEFINE Solves(f) ==
             f = [k \in Expressions |->
                    LET n == Nodes[k]
                    IN  CASE n.node = "literal" -> n.value
                          [] n.node = "column"  -> IF n.name \in Cols THEN table.data[p][n.name]
                                                                      ELSE Null
                          [] n.node = "binary"  -> Apply(n.op, f[n.left], f[n.right])
                          [] n.node = "not"     -> Negated(f[n.arg])]
           value[k \in Expressions] ==
             LET n == Nodes[k]
             IN  CASE n.node = "literal" -> n.value
                   [] n.node = "column"  -> IF n.name \in Cols THEN table.data[p][n.name] ELSE Null
                   [] n.node = "binary"  -> Apply(n.op, value[n.left], value[n.right])
                   [] n.node = "not"     -> Negated(value[n.arg])
<1>1. \E f : Solves(f)
  <2>1. PICK f : f = [k \in Expressions |-> NodeValue("evaluate", k, f, p)]
    BY NodeValues
  <2>2. \A k : NodeValue("evaluate", k, f, p) = EvaluateNode(k, f, p)
    BY DEF NodeValue
  <2>3. f = [k \in Expressions |-> EvaluateNode(k, f, p)]
    BY <2>1, <2>2
  <2> QED  BY <2>3 DEF EvaluateNode
<1>2. Solves(value)
  BY <1>1
<1>3. ASSUME NEW m
      PROVE  Evaluate(m, p) = value[m]
  BY DEF Evaluate
<1> HIDE DEF value
<1>4. value[e] = EvaluateNode(e, value, p)
  BY <1>2 DEF EvaluateNode
<1> QED  BY <1>3, <1>4 DEF EvaluateNode

\* evaluate_with_row
LEMMA RowParts ==
  ASSUME NEW e \in Expressions, NEW p
  PROVE  LET n == Nodes[e]
         IN  /\ n.node = "literal" => EvaluateWithRow(e, p) = n.value
             /\ n.node = "column" =>
                  EvaluateWithRow(e, p) = IF n.name \in Cols THEN table.data[p][n.name]
                                          ELSE IF n.name = "id" THEN Integer(table.ids[p]) ELSE Null
             /\ n.node = "binary" =>
                  EvaluateWithRow(e, p) = ApplyToRow(n.op, EvaluateWithRow(n.left, p),
                                                           EvaluateWithRow(n.right, p))
             /\ n.node = "not" => EvaluateWithRow(e, p) = Negated(Evaluate(n.arg, p))
<1> DEFINE Solves(f) ==
             f = [k \in Expressions |->
                    LET n == Nodes[k]
                    IN  CASE n.node = "column" ->
                               IF n.name \in Cols THEN table.data[p][n.name]
                               ELSE IF n.name = "id" THEN Integer(table.ids[p]) ELSE Null
                          [] n.node = "binary" -> ApplyToRow(n.op, f[n.left], f[n.right])
                          [] OTHER -> Evaluate(k, p)]
           value[k \in Expressions] ==
             LET n == Nodes[k]
             IN  CASE n.node = "column" -> IF n.name \in Cols THEN table.data[p][n.name]
                                           ELSE IF n.name = "id" THEN Integer(table.ids[p]) ELSE Null
                   [] n.node = "binary" -> ApplyToRow(n.op, value[n.left], value[n.right])
                   [] OTHER -> Evaluate(k, p)
<1>1. \E f : Solves(f)
  <2>1. PICK f : f = [k \in Expressions |-> NodeValue("row", k, f, p)]
    BY NodeValues
  <2>2. \A k : NodeValue("row", k, f, p) = RowNode(k, f, p)
    BY DEF NodeValue
  <2>3. f = [k \in Expressions |-> RowNode(k, f, p)]
    BY <2>1, <2>2
  <2> QED  BY <2>3 DEF RowNode
<1>2. Solves(value)
  BY <1>1
<1>3. ASSUME NEW m
      PROVE  EvaluateWithRow(m, p) = value[m]
  BY DEF EvaluateWithRow
<1> HIDE DEF value
<1>4. value[e] = RowNode(e, value, p)
  BY <1>2 DEF RowNode
<1> QED  BY <1>3, <1>4, EvaluateParts DEF RowNode

\* The meaning of a condition
LEMMA HoldsParts ==
  ASSUME NEW e \in Expressions, NEW p
  PROVE  LET n == Nodes[e]
         IN  /\ n.node = "not" => (Holds(e, p) <=> ~Holds(n.arg, p))
             /\ n.node = "binary" /\ n.op = "AND" =>
                  (Holds(e, p) <=> Holds(n.left, p) /\ Holds(n.right, p))
             /\ n.node = "binary" /\ n.op = "OR" =>
                  (Holds(e, p) <=> Holds(n.left, p) \/ Holds(n.right, p))
             /\ n.node = "binary" /\ n.op \in Comparisons =>
                  (Holds(e, p) <=> Compare(n.op, Term(Nodes[n.left], p), Term(Nodes[n.right], p)))
<1> DEFINE Solves(f) ==
             f = [k \in Expressions |->
                    LET n == Nodes[k]
                    IN  CASE n.node = "not" -> ~f[n.arg]
                          [] n.node = "binary" /\ n.op = "AND" -> f[n.left] /\ f[n.right]
                          [] n.node = "binary" /\ n.op = "OR"  -> f[n.left] \/ f[n.right]
                          [] OTHER -> Compare(n.op, Term(Nodes[n.left], p),
                                                    Term(Nodes[n.right], p))]
           value[k \in Expressions] ==
             LET n == Nodes[k]
             IN  CASE n.node = "not" -> ~value[n.arg]
                   [] n.node = "binary" /\ n.op = "AND" -> value[n.left] /\ value[n.right]
                   [] n.node = "binary" /\ n.op = "OR"  -> value[n.left] \/ value[n.right]
                   [] OTHER -> Compare(n.op, Term(Nodes[n.left], p), Term(Nodes[n.right], p))
<1>1. \E f : Solves(f)
  <2>1. PICK f : f = [k \in Expressions |-> NodeValue("holds", k, f, p)]
    BY NodeValues
  <2>2. \A k : NodeValue("holds", k, f, p) = HoldsNode(k, f, p)
    BY DEF NodeValue
  <2>3. f = [k \in Expressions |-> HoldsNode(k, f, p)]
    BY <2>1, <2>2
  <2> QED  BY <2>3 DEF HoldsNode
<1>2. Solves(value)
  BY <1>1
<1>3. ASSUME NEW m
      PROVE  Holds(m, p) = value[m]
  BY DEF Holds
<1> HIDE DEF value
<1>4. value[e] = HoldsNode(e, value, p)
  BY <1>2 DEF HoldsNode
<1> QED  BY <1>3, <1>4 DEF HoldsNode, Comparisons

-----------------------------------------------------------------------------
(* Conditions *)

Truths == {Boolean(TRUE), Boolean(FALSE)}

LEMMA TruthTypes ==
  ASSUME NEW v \in Truths
  PROVE  v.type = "boolean"
BY DEF Truths, Boolean

LEMMA BooleanTruth ==
  ASSUME NEW b \in BOOLEAN
  PROVE  Boolean(b) \in Truths /\ (Boolean(b) = Boolean(TRUE) <=> b)
<1>1. CASE b = TRUE
  BY <1>1 DEF Truths
<1>2. CASE b = FALSE
  <2>1. Boolean(FALSE) # Boolean(TRUE)
    BY DEF Boolean
  <2> QED  BY <1>2, <2>1 DEF Truths
<1> QED  BY <1>1, <1>2

\* A comparison of two values is the Boolean that says whether it is true.
LEMMA ApplyCompares ==
  ASSUME NEW op \in Comparisons, NEW l, NEW r
  PROVE  /\ Apply(op, l, r) \in Truths
         /\ Apply(op, l, r) = Boolean(TRUE) <=> Compare(op, l, r)
<1>1. (l = r) \in BOOLEAN /\ (l # r) \in BOOLEAN
  OBVIOUS
<1>2. \A x, y : ValueLess(x, y) \in BOOLEAN /\ (~ValueLess(x, y)) \in BOOLEAN
  BY DEF ValueLess
<1>3. CASE op = "="
  <2>1. Apply(op, l, r) = Boolean(l = r) /\ (Compare(op, l, r) <=> l = r)
    BY <1>3 DEF Apply, Compare
  <2> QED  BY <1>1, <2>1, BooleanTruth
<1>4. CASE op = "<>"
  <2>1. Apply(op, l, r) = Boolean(l # r) /\ (Compare(op, l, r) <=> l # r)
    BY <1>4 DEF Apply, Compare
  <2> QED  BY <1>1, <2>1, BooleanTruth
<1>5. CASE op = "<"
  <2>1. Apply(op, l, r) = Boolean(ValueLess(l, r)) /\ (Compare(op, l, r) <=> ValueLess(l, r))
    BY <1>5 DEF Apply, Compare
  <2> QED  BY <1>2, <2>1, BooleanTruth
<1>6. CASE op = "<="
  <2>1. Apply(op, l, r) = Boolean(~ValueLess(r, l)) /\ (Compare(op, l, r) <=> ~ValueLess(r, l))
    BY <1>6 DEF Apply, Compare
  <2> QED  BY <1>2, <2>1, BooleanTruth
<1>7. CASE op = ">"
  <2>1. Apply(op, l, r) = Boolean(ValueLess(r, l)) /\ (Compare(op, l, r) <=> ValueLess(r, l))
    BY <1>7 DEF Apply, Compare
  <2> QED  BY <1>2, <2>1, BooleanTruth
<1>8. CASE op = ">="
  <2>1. Apply(op, l, r) = Boolean(~ValueLess(l, r)) /\ (Compare(op, l, r) <=> ~ValueLess(l, r))
    BY <1>8 DEF Apply, Compare
  <2> QED  BY <1>2, <2>1, BooleanTruth
<1> QED  BY <1>3, <1>4, <1>5, <1>6, <1>7, <1>8 DEF Comparisons

\* The cell v stands for the value t: a symbol for its string, all else for
\* itself.
Stands(v, t) ==
  IF v.type = "interned"
  THEN /\ v.symbol \in Nat /\ v.symbol < Len(pool) /\ v = InternedString(v.symbol)
       /\ t = String(pool[v.symbol + 1])
  ELSE /\ t = v
       /\ v.type \in {"null", "integer", "boolean"} \/ v = String(v.chars)

NoText(v) == v.type \in {"null", "integer", "boolean"}

\* A leaf has a value that stands for its meaning.
LEMMA LeafStands ==
  ASSUME IInv, NEW k \in Expressions, IsLeaf(Nodes[k]), NEW p \in Positions(table)
  PROVE  /\ Stands(EvaluateWithRow(k, p), Term(Nodes[k], p))
         /\ NoString(Nodes[k]) => NoText(EvaluateWithRow(k, p))
<1> DEFINE n == Nodes[k]
           v == EvaluateWithRow(k, p)
<1>1. CASE n.node = "literal"
  <2>1. v = n.value /\ Term(n, p) = n.value
    BY <1>1, RowParts DEF Term
  <2>2. IsLiteral(n.value)
    BY <1>1 DEF IsLeaf
  <2>3. n.value.type \in {"null", "integer", "boolean", "string"}
        /\ (n.value.type = "string" => n.value = String(n.value.chars))
    BY <2>2, Constructors DEF IsLiteral, IsString, IsCell
  <2>4. NoString(n) => n.value.type # "string"
    BY <1>1 DEF NoString
  <2> HIDE DEF n, v
  <2>5. Stands(v, Term(n, p)) /\ (NoString(n) => NoText(v))
    BY <2>1, <2>3, <2>4 DEF Stands, NoText
  <2> QED  BY <2>5 DEF n, v
<1>2. CASE n.node = "column" /\ n.name \in Cols
  <2> DEFINE cell == table.data[p][n.name]
  <2>1. v = cell /\ Term(n, p) = Resolved(cell)
    BY <1>2, RowParts, RowsAssumption DEF Term
  <2>2. /\ cell \in Values
        /\ IF cell.type = "interned"
           THEN /\ cell.symbol \in Nat /\ cell.symbol < Len(pool)
                /\ cell = InternedString(cell.symbol)
                /\ Resolved(cell) = String(pool[cell.symbol + 1])
                /\ n.name \in StringCols
           ELSE Resolved(cell) = cell /\ cell.type # "string"
    BY <1>2, ResolvedCell
  <2>3. NoString(n) => n.name \notin StringCols
    BY <1>2 DEF NoString
  <2> HIDE DEF n, v, cell
  <2>4. cell.type \in {"null", "integer", "boolean", "interned"}
    BY <2>2, Cells, Constructors
  <2>5. Stands(v, Term(n, p)) /\ (NoString(n) => NoText(v))
    BY <2>1, <2>2, <2>3, <2>4 DEF Stands, NoText
  <2> QED  BY <2>5 DEF n, v
<1>3. CASE n.node = "column" /\ n.name \notin Cols
  <2>1. v = Term(n, p) /\ v \in {Null, Integer(table.ids[p])}
    BY <1>3, RowParts DEF Term
  <2>2. v.type \in {"null", "integer"}
    BY <2>1, Constructors
  <2> HIDE DEF n, v
  <2>3. Stands(v, Term(n, p)) /\ NoText(v)
    BY <2>1, <2>2 DEF Stands, NoText
  <2> QED  BY <2>3 DEF n, v
<1> QED  BY <1>1, <1>2, <1>3 DEF IsLeaf

\* A cell holds the symbol of a string when it stands for the string.
LEMMA SymbolEquals ==
  ASSUME PoolInv(pool), NEW x, NEW s, NEW y, x.type = "interned", Stands(x, s),
         y.type = "string", y = String(y.chars), Pooled(y.chars)
  PROVE  x = InternedString(SymbolOf(pool, y.chars)) <=> s = y
<1> DEFINE k == SymbolOf(pool, y.chars)
<1>1. k \in Nat /\ k < Len(pool) /\ pool[k + 1] = y.chars
  BY SymbolStands DEF Pooled
<1>2. /\ x = InternedString(x.symbol) /\ x.symbol \in Nat /\ x.symbol < Len(pool)
      /\ s = String(pool[x.symbol + 1])
  BY DEF Stands
<1>3. SymbolOf(pool, pool[x.symbol + 1]) = x.symbol
  BY <1>2, SymbolUnique
<1> HIDE DEF k
<1>4. x = InternedString(k) <=> x.symbol = k
  BY <1>2, Constructors
<1>5. s = y <=> pool[x.symbol + 1] = y.chars
  BY <1>2, Constructors
<1>6. x.symbol = k <=> pool[x.symbol + 1] = y.chars
  BY <1>1, <1>3 DEF k
<1> QED  BY <1>4, <1>5, <1>6 DEF k

\* The sides of a comparison are equal when what they stand for is.
LEMMA EqualSides ==
  ASSUME PoolInv(pool), NEW v, NEW w, NEW t, NEW u, Stands(v, t), Stands(w, u)
  PROVE  Comparable(v, w)[1] = Comparable(v, w)[2] <=> t = u
<1>1. /\ v.type \in {"null", "integer", "boolean", "string", "interned"}
      /\ w.type \in {"null", "integer", "boolean", "string", "interned"}
  BY Constructors DEF Stands
<1>2. ASSUME NEW x, NEW s, x.type = "interned", Stands(x, s)
      PROVE  /\ s.type = "string" /\ x = InternedString(x.symbol) /\ Resolved(x) = s
             /\ x.symbol \in Nat /\ x.symbol < Len(pool) /\ s = String(pool[x.symbol + 1])
  BY <1>2, Constructors DEF Stands, Resolved
<1>3. ASSUME NEW x, NEW s, x.type # "interned", Stands(x, s)
      PROVE  s = x /\ (x.type = "string" => x = String(x.chars))
  BY <1>3, Constructors DEF Stands
<1>4. ASSUME NEW x, NEW s, NEW y, x.type = "interned", Stands(x, s),
             y.type = "string", y = String(y.chars), Pooled(y.chars)
      PROVE  x = InternedString(SymbolOf(pool, y.chars)) <=> s = y
  BY <1>4, SymbolEquals
<1>5. CASE v.type = "interned" /\ w.type = "interned"
  <2>1. Comparable(v, w) = <<Integer(v.symbol), Integer(w.symbol)>>
    BY <1>5 DEF Comparable
  <2>2. /\ v.symbol \in Nat /\ v.symbol < Len(pool) /\ t = String(pool[v.symbol + 1])
        /\ w.symbol \in Nat /\ w.symbol < Len(pool) /\ u = String(pool[w.symbol + 1])
    BY <1>2, <1>5
  <2>3. SymbolOf(pool, pool[v.symbol + 1]) = v.symbol /\ SymbolOf(pool, pool[w.symbol + 1]) = w.symbol
    BY <2>2, SymbolUnique
  <2>4. t = u <=> pool[v.symbol + 1] = pool[w.symbol + 1]
    BY <2>2, Constructors
  <2>5. Integer(v.symbol) = Integer(w.symbol) <=> v.symbol = w.symbol
    BY Constructors
  <2> QED  BY <2>1, <2>3, <2>4, <2>5
<1>6. CASE v.type = "interned" /\ w.type = "string"
  <2>1. CASE Pooled(w.chars)
    <3>1. Comparable(v, w) = <<v, InternedString(SymbolOf(pool, w.chars))>>
      BY <1>6, <2>1 DEF Comparable
    <3>2. w = String(w.chars) /\ u = w
      BY <1>3, <1>6
    <3> QED  BY <1>4, <1>6, <2>1, <3>1, <3>2
  <2>2. CASE ~Pooled(w.chars)
    <3>1. Comparable(v, w) = <<Resolved(v), w>>
      BY <1>6, <2>2 DEF Comparable
    <3> QED  BY <1>2, <1>3, <1>6, <3>1
  <2> QED  BY <2>1, <2>2
<1>7. CASE v.type = "string" /\ w.type = "interned"
  <2>1. CASE Pooled(v.chars)
    <3>1. Comparable(v, w) = <<InternedString(SymbolOf(pool, v.chars)), w>>
      BY <1>7, <2>1 DEF Comparable
    <3>2. v = String(v.chars) /\ t = v
      BY <1>3, <1>7
    <3> QED  BY <1>4, <1>7, <2>1, <3>1, <3>2
  <2>2. CASE ~Pooled(v.chars)
    <3>1. Comparable(v, w) = <<v, Resolved(w)>>
      BY <1>7, <2>2 DEF Comparable
    <3> QED  BY <1>2, <1>3, <1>7, <3>1
  <2> QED  BY <2>1, <2>2
<1>8. CASE ~(v.type \in {"string", "interned"} /\ w.type \in {"string", "interned"})
  <2>1. Comparable(v, w) = <<v, w>>
    BY <1>8 DEF Comparable
  <2>2. CASE v.type # "interned" /\ w.type # "interned"
    BY <1>3, <2>1, <2>2
  <2>3. CASE v.type = "interned"
    <3>1. w.type \notin {"string", "interned"} /\ u = w /\ t.type = "string"
      BY <1>2, <1>3, <1>8, <2>3
    <3> QED  BY <2>1, <2>3, <3>1
  <2>4. CASE w.type = "interned"
    <3>1. v.type \notin {"string", "interned"} /\ t = v /\ u.type = "string"
      BY <1>2, <1>3, <1>8, <2>4
    <3> QED  BY <2>1, <2>4, <3>1
  <2> QED  BY <2>2, <2>3, <2>4
<1>9. CASE v.type = "string" /\ w.type = "string"
  <2>1. Comparable(v, w) = <<v, w>>
    BY <1>9 DEF Comparable
  <2> QED  BY <1>3, <1>9, <2>1
<1> QED  BY <1>1, <1>5, <1>6, <1>7, <1>8, <1>9

\* Where one side is no string, the order is that of what they stand for.
LEMMA OrderedSides ==
  ASSUME NEW v, NEW w, NEW t, NEW u, Stands(v, t), Stands(w, u), NoText(v) \/ NoText(w)
  PROVE  /\ Comparable(v, w) = <<v, w>>
         /\ ValueLess(v, w) <=> ValueLess(t, u)
         /\ ValueLess(w, v) <=> ValueLess(u, t)
<1>1. Comparable(v, w) = <<v, w>>
  BY DEF NoText, Comparable
<1>2. ASSUME NEW x, NEW y, NEW s, NoText(x), Stands(y, s)
      PROVE  /\ ValueLess(x, y) <=> ValueLess(x, s)
             /\ ValueLess(y, x) <=> ValueLess(s, x)
  <2>1. CASE y.type = "interned"
    <3>1. s.type = "string"
      BY <1>2, <2>1, Constructors DEF Stands
    <3>2. /\ x.type # y.type /\ x.type # s.type
          /\ Rank[x.type] < Rank[y.type] <=> Rank[x.type] < Rank[s.type]
          /\ Rank[y.type] < Rank[x.type] <=> Rank[s.type] < Rank[x.type]
      BY <1>2, <2>1, <3>1 DEF NoText, Rank
    <3> QED  BY <3>2 DEF ValueLess
  <2>2. CASE y.type # "interned"
    BY <1>2, <2>2 DEF Stands
  <2> QED  BY <2>1, <2>2
<1>3. \A x, s : NoText(x) /\ Stands(x, s) => s = x
  BY DEF NoText, Stands
<1> QED  BY <1>1, <1>2, <1>3

\* A comparison of evaluate_with_row says what is true of the values written.
LEMMA ComparisonTruth ==
  ASSUME PoolInv(pool), NEW op \in Comparisons, NEW v, NEW w, NEW t, NEW u,
         Stands(v, t), Stands(w, u), op \in {"=", "<>"} \/ NoText(v) \/ NoText(w)
  PROVE  /\ ApplyToRow(op, v, w) \in Truths
         /\ ApplyToRow(op, v, w) = Boolean(TRUE) <=> Compare(op, t, u)
<1> DEFINE x == Comparable(v, w)[1]
           y == Comparable(v, w)[2]
<1>1. ApplyToRow(op, v, w) = Apply(op, x, y)
  BY DEF ApplyToRow, Comparisons
<1> HIDE DEF x, y
<1>2. Compare(op, x, y) <=> Compare(op, t, u)
  <2>1. CASE op \in {"=", "<>"}
    <3>1. x = y <=> t = u
      BY EqualSides DEF x, y
    <3> QED  BY <2>1, <3>1 DEF Compare
  <2>2. CASE op \notin {"=", "<>"}
    <3>1. x = v /\ y = w /\ (ValueLess(v, w) <=> ValueLess(t, u)) /\ (ValueLess(w, v) <=> ValueLess(u, t))
      BY <2>2, OrderedSides DEF x, y
    <3>2. op \in {"<", "<=", ">", ">="}
      BY <2>2 DEF Comparisons
    <3> QED  BY <3>1, <3>2 DEF Compare
  <2> QED  BY <2>1, <2>2
<1> QED  BY <1>1, <1>2, ApplyCompares

\* evaluate takes the leaves of a Not for what they are.
LEMMA PlainLeaf ==
  ASSUME IInv, NEW k \in Expressions, IsLeaf(Nodes[k]), Plain(Nodes[k]), NEW p \in Positions(table)
  PROVE  Evaluate(k, p) = Term(Nodes[k], p)
<1> DEFINE n == Nodes[k]
<1>1. CASE n.node = "literal"
  BY <1>1, EvaluateParts DEF Term
<1>2. CASE n.node = "column" /\ n.name \in Cols
  <2> DEFINE cell == table.data[p][n.name]
  <2>1. Evaluate(k, p) = cell /\ Term(n, p) = Resolved(cell)
    BY <1>2, EvaluateParts, RowsAssumption DEF Term
  <2>2. n.name \notin StringCols
    BY <1>2 DEF Plain, NoString
  <2>3. Resolved(cell) = cell
    BY <1>2, <2>2, ResolvedCell
  <2> QED  BY <2>1, <2>3
<1>3. CASE n.node = "column" /\ n.name \notin Cols
  <2>1. n.name # "id"
    BY <1>3 DEF Plain
  <2> QED  BY <1>3, <2>1, EvaluateParts DEF Term
<1> QED  BY <1>1, <1>2, <1>3 DEF IsLeaf

\* evaluate_with_row answers a condition with a Boolean: whether it holds.
Truthful(e, p) ==
  /\ EvaluateWithRow(e, p) \in Truths
  /\ EvaluateWithRow(e, p) = Boolean(TRUE) <=> Holds(e, p)

LEMMA TruthfulComparison ==
  ASSUME IInv, NEW e \in Expressions, IsComparison(Nodes[e]), NEW p \in Positions(table),
         \/ Nodes[e].op \in {"=", "<>"}
         \/ NoString(Nodes[Nodes[e].left]) \/ NoString(Nodes[Nodes[e].right])
  PROVE  Truthful(e, p)
<1> DEFINE n == Nodes[e]
           v == EvaluateWithRow(n.left, p)
           w == EvaluateWithRow(n.right, p)
           t == Term(Nodes[n.left], p)
           u == Term(Nodes[n.right], p)
<1>1. n.node = "binary" /\ n.op \in Comparisons /\ IsLeaf(Nodes[n.left]) /\ IsLeaf(Nodes[n.right])
  BY DEF IsComparison
<1>2. n.left \in Expressions /\ n.right \in Expressions
  BY <1>1, PartsBefore
<1>3. Stands(v, t) /\ (NoString(Nodes[n.left]) => NoText(v))
  BY <1>1, <1>2, LeafStands
<1>4. Stands(w, u) /\ (NoString(Nodes[n.right]) => NoText(w))
  BY <1>1, <1>2, LeafStands
<1>5. EvaluateWithRow(e, p) = ApplyToRow(n.op, v, w)
  BY <1>1, RowParts
<1>6. Holds(e, p) <=> Compare(n.op, t, u)
  BY <1>1, HoldsParts
<1>7. PoolInv(pool)
  BY DEF IInv
<1>8. n.op \in {"=", "<>"} \/ NoText(v) \/ NoText(w)
  BY <1>3, <1>4
<1> HIDE DEF v, w, t, u
<1>9. /\ ApplyToRow(n.op, v, w) \in Truths
      /\ ApplyToRow(n.op, v, w) = Boolean(TRUE) <=> Compare(n.op, t, u)
  BY <1>1, <1>3, <1>4, <1>7, <1>8, ComparisonTruth
<1> QED  BY <1>5, <1>6, <1>9 DEF Truthful

LEMMA TruthfulConnective ==
  ASSUME NEW e \in Expressions, Nodes[e].node = "binary", Nodes[e].op \in {"AND", "OR"}, NEW p,
         Truthful(Nodes[e].left, p), Truthful(Nodes[e].right, p)
  PROVE  Truthful(e, p)
<1> DEFINE n == Nodes[e]
           v == EvaluateWithRow(n.left, p)
           w == EvaluateWithRow(n.right, p)
<1>1. EvaluateWithRow(e, p) = ApplyToRow(n.op, v, w)
  BY RowParts
<1>2. /\ v \in Truths /\ w \in Truths
      /\ v = Boolean(TRUE) <=> Holds(n.left, p)
      /\ w = Boolean(TRUE) <=> Holds(n.right, p)
  BY DEF Truthful
<1> HIDE DEF v, w
<1>3. v.type = "boolean" /\ w.type = "boolean"
  BY <1>2, TruthTypes
<1>4. ApplyToRow(n.op, v, w) = Apply(n.op, v, w)
  <2>1. Comparable(v, w) = <<v, w>>
    BY <1>3 DEF Comparable
  <2> QED  BY <2>1 DEF ApplyToRow
<1>5. CASE n.op = "AND"
  <2> DEFINE both == v = Boolean(TRUE) /\ w = Boolean(TRUE)
  <2>1. Apply(n.op, v, w) = Boolean(both)
    BY <1>5 DEF Apply
  <2>2. both \in BOOLEAN /\ (both <=> Holds(n.left, p) /\ Holds(n.right, p))
    BY <1>2
  <2> HIDE DEF both
  <2>3. Boolean(both) \in Truths /\ (Boolean(both) = Boolean(TRUE) <=> both)
    BY <2>2, BooleanTruth
  <2>4. Holds(e, p) <=> Holds(n.left, p) /\ Holds(n.right, p)
    BY <1>5, HoldsParts
  <2> QED  BY <1>1, <1>4, <2>1, <2>2, <2>3, <2>4 DEF Truthful
<1>6. CASE n.op = "OR"
  <2> DEFINE any == {v.type, w.type} = {"boolean"} /\ Boolean(TRUE) \in {v, w}
  <2>1. Apply(n.op, v, w) = Boolean(any)
    BY <1>6 DEF Apply
  <2>2. any \in BOOLEAN /\ (any <=> Holds(n.left, p) \/ Holds(n.right, p))
    BY <1>2, <1>3
  <2> HIDE DEF any
  <2>3. Boolean(any) \in Truths /\ (Boolean(any) = Boolean(TRUE) <=> any)
    BY <2>2, BooleanTruth
  <2>4. Holds(e, p) <=> Holds(n.left, p) \/ Holds(n.right, p)
    BY <1>6, HoldsParts
  <2> QED  BY <1>1, <1>4, <2>1, <2>2, <2>3, <2>4 DEF Truthful
<1> QED  BY <1>5, <1>6

LEMMA TruthfulNot ==
  ASSUME IInv, NEW e \in Expressions, Nodes[e].node = "not", NEW p \in Positions(table),
         IsComparison(Nodes[Nodes[e].arg]),
         Plain(Nodes[Nodes[Nodes[e].arg].left]), Plain(Nodes[Nodes[Nodes[e].arg].right])
  PROVE  Truthful(e, p)
<1> DEFINE arg == Nodes[e].arg
           n == Nodes[arg]
           t == Term(Nodes[n.left], p)
           u == Term(Nodes[n.right], p)
<1>1. /\ arg \in Expressions /\ n.node = "binary" /\ n.op \in Comparisons
      /\ IsLeaf(Nodes[n.left]) /\ IsLeaf(Nodes[n.right])
  BY PartsBefore DEF IsComparison
<1>2. n.left \in Expressions /\ n.right \in Expressions
  BY <1>1, PartsBefore
<1>3. Evaluate(n.left, p) = t /\ Evaluate(n.right, p) = u
  BY <1>1, <1>2, PlainLeaf
<1>4. Evaluate(arg, p) = Apply(n.op, t, u)
  BY <1>1, <1>3, EvaluateParts
<1>5. Holds(arg, p) <=> Compare(n.op, t, u)
  BY <1>1, HoldsParts
<1> DEFINE v == Evaluate(arg, p)
<1>6. v \in Truths /\ (v = Boolean(TRUE) <=> Holds(arg, p))
  <2> HIDE DEF t, u, n
  <2> QED  BY <1>1, <1>4, <1>5, ApplyCompares
<1>7. EvaluateWithRow(e, p) = Negated(v) /\ (Holds(e, p) <=> ~Holds(arg, p))
  BY RowParts, HoldsParts
<1> HIDE DEF v
<1> DEFINE no == v.type = "boolean" /\ v # Boolean(TRUE)
<1>8. Negated(v) = Boolean(no)
  BY DEF Negated
<1>9. no \in BOOLEAN /\ (no <=> ~Holds(arg, p))
  BY <1>6, TruthTypes
<1> HIDE DEF no
<1>10. Boolean(no) \in Truths /\ (Boolean(no) = Boolean(TRUE) <=> no)
  BY <1>9, BooleanTruth
<1> QED  BY <1>7, <1>8, <1>9, <1>10 DEF Truthful

LEMMA ConditionsTruthful ==
  ASSUME IInv, NEW e \in Conditions, NEW p \in Positions(table)
  PROVE  Truthful(e, p)
<1> DEFINE N == Len(Nodes)
           G == {k \in 1 .. N : k \in Conditions => Truthful(k, p)}
<1>1. Expressions = 1 .. N /\ e \in 1 .. N
  BY NodesAssumption, ConditionsAssumption
<1>2. N \in Nat
  <2>1. DOMAIN Nodes = 1 .. Len(Nodes)
    BY <1>1 DEF Expressions
  <2> QED  BY <1>1, NodesAssumption DEF Expressions
<1>3. ASSUME NEW m \in 1 .. N, \A k \in 1 .. m - 1 : k \in G
      PROVE  m \in G
  <2> SUFFICES ASSUME m \in Conditions  PROVE Truthful(m, p)
    OBVIOUS
  <2>1. m \in Expressions /\ IsCondition(m)
    BY <1>1, ConditionsAssumption
  <2> DEFINE n == Nodes[m]
  <2>2. CASE IsComparison(n) /\ (n.op \in {"=", "<>"} \/ NoString(Nodes[n.left]) \/ NoString(Nodes[n.right]))
    BY <2>1, <2>2, TruthfulComparison
  <2>3. CASE n.node = "binary" /\ n.op \in {"AND", "OR"} /\ n.left \in Conditions /\ n.right \in Conditions
    <3>1. n.left \in 1 .. m - 1 /\ n.right \in 1 .. m - 1
      BY <2>1, <2>3, PartsBefore
    <3>2. Truthful(n.left, p) /\ Truthful(n.right, p)
      BY <1>3, <2>3, <3>1
    <3> QED  BY <2>1, <2>3, <3>2, TruthfulConnective
  <2>4. CASE /\ n.node = "not" /\ IsComparison(Nodes[n.arg])
             /\ Plain(Nodes[Nodes[n.arg].left]) /\ Plain(Nodes[Nodes[n.arg].right])
    BY <2>1, <2>4, TruthfulNot
  <2> QED  BY <2>1, <2>2, <2>3, <2>4 DEF IsCondition
<1>4. \A k \in 1 .. N : k \in G
  <2> HIDE DEF G, N
  <2> QED  BY <1>2, <1>3, AllBefore
<1> QED  BY <1>1, <1>4

\* A scan gives a condition the rows it has when every cell is the string that
\* was written.
LEMMA SelectMeans ==
  ASSUME IInv, NEW e \in Conditions
  PROVE  Select(e) = Meaning(e)
BY ConditionsTruthful DEF Select, Meaning, IsTrue, Truthful

\* Interning shows nowhere, whatever was inserted, updated and deleted: cells
\* hold symbols, and evaluate_with_row compares them as the strings they stand
\* for.
THEOREM InterningIsInvisible == SqlSpec => []InterningInvisible
<1>1. IInv => InterningInvisible
  BY SelectMeans DEF InterningInvisible
<1> QED  BY <1>1, QueriesInv, PTL

-----------------------------------------------------------------------------
(* Lookups and plans *)

\* `column = literal` holds where the column stands for the literal.
LEMMA EqMeaning ==
  ASSUME NEW e \in Conditions, EqLiteral(e) # <<>>
  PROVE  LET c == EqLiteral(e)[1]
             v == EqLiteral(e)[2]
         IN  /\ IsLiteral(v) /\ (c \in Cols \cup {"id"} \/ v # Null)
             /\ \A p : Holds(e, p) <=> Term(Column(c), p) = v
             /\ Nodes[e].node = "binary" /\ Nodes[e].op = "="
<1> DEFINE n == Nodes[e]
           l == Nodes[n.left]
           r == Nodes[n.right]
           c == EqLiteral(e)[1]
           v == EqLiteral(e)[2]
<1>1. n.node = "binary" /\ n.op = "="
  BY DEF EqLiteral
<1>2. e \in Expressions /\ IsCondition(e)
  BY ConditionsAssumption
<1>3. IsComparison(n) /\ (c \in Cols \cup {"id"} \/ v # Null)
  BY <1>1, <1>2 DEF IsCondition
<1>4. n.left \in Expressions /\ n.right \in Expressions
  BY <1>1, <1>2, PartsBefore
<1>5. IsNode(l, n.left) /\ IsNode(r, n.right)
  BY <1>4, NodesAssumption
<1>6. IsLeaf(l) /\ IsLeaf(r)
  BY <1>3 DEF IsComparison
<1>7. \A p : Holds(e, p) <=> Term(l, p) = Term(r, p)
  BY <1>1, <1>2, HoldsParts DEF Comparisons, Compare
<1>8. CASE l.node = "column" /\ r.node = "literal"
  <2>1. c = l.name /\ v = r.value
    BY <1>1, <1>8 DEF EqLiteral
  <2>2. l = Column(c) /\ IsLiteral(v)
    BY <1>5, <1>6, <1>8, <2>1 DEF IsNode, IsLeaf
  <2>3. \A p : Term(r, p) = v
    BY <1>8, <2>1 DEF Term
  <2> QED  BY <1>1, <1>3, <1>7, <2>2, <2>3
<1>9. CASE l.node = "literal" /\ r.node = "column"
  <2>1. c = r.name /\ v = l.value
    BY <1>1, <1>9 DEF EqLiteral
  <2>2. r = Column(c) /\ IsLiteral(v)
    BY <1>5, <1>6, <1>9, <2>1 DEF IsNode, IsLeaf
  <2>3. \A p : Term(l, p) = v
    BY <1>9, <2>1 DEF Term
  <2> QED  BY <1>1, <1>3, <1>7, <2>2, <2>3
<1>10. (l.node = "column" /\ r.node = "literal") \/ (l.node = "literal" /\ r.node = "column")
  BY <1>1 DEF EqLiteral
<1> QED  BY <1>8, <1>9, <1>10

\* What a column stands for.
LEMMA ColumnTerm ==
  ASSUME NEW c, NEW p
  PROVE  Term(Column(c), p) = IF c \in Cols THEN Resolved(table.data[p][c])
                              ELSE IF c = "id" THEN Integer(table.ids[p]) ELSE Null
<1>1. Column(c).node = "column" /\ Column(c).name = c
  BY DEF Column
<1> QED  BY <1>1, RowsAssumption DEF Term

\* What is looked up for a value is in the cells that stand for it.
LEMMA KeyStands ==
  ASSUME IInv, NEW v, IsLiteral(v), NEW c \in Cols, NEW p \in Positions(table)
  PROVE  table.data[p][c] = Key(v) <=> Resolved(table.data[p][c]) = v
<1> DEFINE x == table.data[p][c]
<1>1. /\ x \in Values
      /\ IF x.type = "interned"
         THEN /\ x.symbol \in Nat /\ x.symbol < Len(pool) /\ x = InternedString(x.symbol)
              /\ Resolved(x) = String(pool[x.symbol + 1]) /\ Pooled(pool[x.symbol + 1])
         ELSE Resolved(x) = x /\ x.type # "string"
  BY ResolvedCell
<1>2. v.type # "interned" /\ (v.type = "string" => v = String(v.chars))
  BY Constructors DEF IsLiteral, IsString, IsCell
<1>3. PoolInv(pool)
  BY DEF IInv
<1> HIDE DEF x
<1>4. CASE v.type # "string"
  <2>1. Key(v) = v
    BY <1>4 DEF Key
  <2>2. CASE x.type = "interned"
    <3>1. x # v /\ Resolved(x).type = "string"
      BY <1>1, <1>2, <2>2, Constructors
    <3> QED  BY <1>4, <2>1, <3>1 DEF x
  <2>3. CASE x.type # "interned"
    BY <1>1, <2>1, <2>3 DEF x
  <2> QED  BY <2>2, <2>3
<1>5. CASE v.type = "string" /\ Pooled(v.chars)
  <2>1. Key(v) = InternedString(SymbolOf(pool, v.chars))
    BY <1>5 DEF Key
  <2>2. CASE x.type = "interned"
    <3>1. Stands(x, Resolved(x))
      BY <1>1, <2>2 DEF Stands
    <3> QED  BY <1>2, <1>3, <1>5, <2>1, <2>2, <3>1, SymbolEquals DEF x
  <2>3. CASE x.type # "interned"
    BY <1>1, <1>5, <2>1, <2>3, Constructors DEF x
  <2> QED  BY <2>2, <2>3
<1>6. CASE v.type = "string" /\ ~Pooled(v.chars)
  <2>1. Key(v) = v
    BY <1>6 DEF Key
  <2>2. x # v
    BY <1>1, <1>6, CellsAreNoStrings
  <2>3. Resolved(x) # v
    <3>1. CASE x.type = "interned"
      <4>1. pool[x.symbol + 1] # v.chars
        BY <1>1, <1>6, <3>1
      <4> QED  BY <1>1, <3>1, <4>1, Constructors
    <3>2. CASE x.type # "interned"
      BY <1>1, <1>6, <3>2
    <3> QED  BY <3>1, <3>2
  <2> QED  BY <2>1, <2>2, <2>3 DEF x
<1> QED  BY <1>4, <1>5, <1>6 DEF x

\* find_by_column finds the rows with a value, through an index or without.
LEMMA FindsColumn ==
  ASSUME IInv, NEW v, IsLiteral(v), NEW c, c \in Cols \cup {"id"} \/ v # Null
  PROVE  FindByColumn(c, v) = {p \in Positions(table) : Term(Column(c), p) = v}
<1> DEFINE key == Key(v)
<1>1. FindByColumn(c, v) \subseteq Positions(table)
  BY ReadsPositions
<1>2. ASSUME c \in Cols
      PROVE  Scan(table, c, key) = {p \in Positions(table) : Term(Column(c), p) = v}
  BY <1>2, KeyStands, ColumnTerm DEF Scan
<1>3. CASE Indexed(c)
  <2>1. c \in Cols /\ table.indexes[c].kind # "none"
    BY <1>3 DEF Indexed
  <2>2. FindByColumn(c, v) = IF key \in Values THEN Lookup(table, c, key) ELSE {}
    BY <1>3, <2>1, RowsAssumption DEF FindByColumn
  <2>3. CASE key \in Values
    <3>1. /\ Inv(table) /\ Owned(table, {}) /\ Listed(table, c, {})
          /\ table.indexes[c].kind = "plain"
      BY <2>1 DEF IInv, TableInv, PlainIndexes
    <3>2. \A p \in Positions(table) : table.ids[p] \in Nat \ {}
      BY DEF IInv, TableInv, RowsInv
    <3> HIDE DEF key
    <3>3. \A p \in Positions(table) : p \in Lookup(table, c, key) <=> p \in Scan(table, c, key)
      BY <2>1, <2>3, <3>1, <3>2, ListedFinds
    <3>4. Lookup(table, c, key) \subseteq Positions(table)
      BY <1>1, <2>2, <2>3
    <3>5. Scan(table, c, key) \subseteq Positions(table)
      BY DEF Scan
    <3>6. Lookup(table, c, key) = Scan(table, c, key)
      BY <3>3, <3>4, <3>5
    <3> QED  BY <1>2, <2>1, <2>2, <2>3, <3>6
  <2>4. CASE key \notin Values
    <3>1. \A p \in Positions(table) : table.data[p][c] \in Values
      BY <2>1, ResolvedCell
    <3>2. Scan(table, c, key) = {}
      BY <2>4, <3>1 DEF Scan
    <3> QED  BY <1>2, <2>1, <2>2, <2>4, <3>2
  <2> QED  BY <2>3, <2>4
<1>4. CASE ~Indexed(c) /\ c \in Cols
  <2>1. FindByColumn(c, v) = Scan(table, c, key)
    BY <1>4, RowsAssumption DEF FindByColumn
  <2> QED  BY <1>2, <1>4, <2>1
<1>5. CASE c \notin Cols /\ c = "id"
  <2>1. ~Indexed(c)
    BY <1>5 DEF Indexed
  <2>2. FindByColumn(c, v) = {p \in Positions(table) : Integer(table.ids[p]) = key}
    BY <1>5, <2>1 DEF FindByColumn
  <2>3. \A i : Integer(i) = key <=> Integer(i) = v
    BY Constructors DEF Key
  <2>4. \A p : Term(Column(c), p) = Integer(table.ids[p])
    BY <1>5, ColumnTerm
  <2> HIDE DEF key
  <2> QED  BY <2>2, <2>3, <2>4
<1>6. CASE c \notin Cols /\ c # "id"
  <2>1. ~Indexed(c)
    BY <1>6 DEF Indexed
  <2>2. FindByColumn(c, v) = {}
    BY <1>6, <2>1 DEF FindByColumn
  <2>3. \A p : Term(Column(c), p) # v
    BY <1>6, ColumnTerm
  <2> QED  BY <2>2, <2>3
<1> QED  BY <1>3, <1>4, <1>5, <1>6

LEMMA FindsMeaning ==
  ASSUME IInv, NEW e \in Conditions, EqLiteral(e) # <<>>
  PROVE  FindByColumn(EqLiteral(e)[1], EqLiteral(e)[2]) = Meaning(e)
BY EqMeaning, FindsColumn DEF Meaning

\* The parts of a conjunction are conditions.
LEMMA Conjuncts ==
  ASSUME NEW e \in Conditions, Nodes[e].node = "binary", Nodes[e].op = "AND"
  PROVE  /\ Nodes[e].left \in Conditions /\ Nodes[e].right \in Conditions
         /\ EqLiteral(e) = <<>>
         /\ \A p : Holds(e, p) <=> Holds(Nodes[e].left, p) /\ Holds(Nodes[e].right, p)
<1>1. e \in Expressions /\ IsCondition(e)
  BY ConditionsAssumption
<1>2. Nodes[e].left \in Conditions /\ Nodes[e].right \in Conditions
  BY <1>1 DEF IsCondition, IsComparison, Comparisons
<1>3. EqLiteral(e) = <<>>
  BY DEF EqLiteral
<1> QED  BY <1>1, <1>2, <1>3, HoldsParts

\* The plan of query_expr gives the rows of a scan.
LEMMA PlanMeans ==
  ASSUME IInv, NEW e \in Conditions
  PROVE  QueryExpr(e) = Select(e)
<1> DEFINE n == Nodes[e]
<1>1. ASSUME NEW x \in Conditions, NEW y \in Conditions, ByIndex(x),
             \A p : Holds(e, p) <=> Holds(x, p) /\ Holds(y, p)
      PROVE  ExecutePlan(FilteredScan(EqLiteral(x), y)) = Meaning(e)
  <2> DEFINE eq == EqLiteral(x)
             plan == FilteredScan(eq, y)
  <2>1. plan.scan = "filtered" /\ plan.eq = eq /\ plan.filter = y
    BY DEF FilteredScan
  <2>2. ExecutePlan(plan) = {p \in FindByColumn(eq[1], eq[2]) : IsTrue(y, p)}
    BY <2>1 DEF ExecutePlan
  <2>3. FindByColumn(eq[1], eq[2]) = Meaning(x)
    BY <1>1, FindsMeaning DEF ByIndex
  <2>4. \A p \in Positions(table) : IsTrue(y, p) <=> Holds(y, p)
    BY ConditionsTruthful DEF IsTrue, Truthful
  <2> HIDE DEF plan, eq
  <2>5. ExecutePlan(plan) = Meaning(e)
    BY <1>1, <2>2, <2>3, <2>4 DEF Meaning
  <2> QED  BY <2>5 DEF plan, eq
<1>2. CASE ByIndex(e)
  <2>1. EqLiteral(e) # <<>> /\ n.op = "="
    BY <1>2, EqMeaning DEF ByIndex
  <2>2. Plan(e) = IndexScan(EqLiteral(e))
    BY <1>2, <2>1 DEF Plan
  <2>3. ExecutePlan(IndexScan(EqLiteral(e))) = FindByColumn(EqLiteral(e)[1], EqLiteral(e)[2])
    BY DEF ExecutePlan, IndexScan
  <2> QED  BY <2>1, <2>2, <2>3, FindsMeaning, SelectMeans DEF QueryExpr
<1>3. CASE ~ByIndex(e) /\ n.node = "binary" /\ n.op = "AND" /\ ByIndex(n.left)
  <2>1. Plan(e) = FilteredScan(EqLiteral(n.left), n.right)
    BY <1>3 DEF Plan
  <2> QED  BY <1>1, <1>3, <2>1, Conjuncts, SelectMeans DEF QueryExpr
<1>4. CASE /\ ~ByIndex(e) /\ n.node = "binary" /\ n.op = "AND"
           /\ ~ByIndex(n.left) /\ ByIndex(n.right)
  <2>1. Plan(e) = FilteredScan(EqLiteral(n.right), n.left)
    BY <1>4 DEF Plan
  <2> QED  BY <1>1, <1>4, <2>1, Conjuncts, SelectMeans DEF QueryExpr
<1>5. CASE /\ ~ByIndex(e)
           /\ ~(n.node = "binary" /\ n.op = "AND" /\ (ByIndex(n.left) \/ ByIndex(n.right)))
  <2>1. Plan(e) = FullScan(e)
    BY <1>5 DEF Plan
  <2>2. ExecutePlan(FullScan(e)) = Select(e)
    BY DEF ExecutePlan, FullScan
  <2> QED  BY <2>1, <2>2 DEF QueryExpr
<1> QED  BY <1>2, <1>3, <1>4, <1>5

\* The plan of query_expr never changes the result: index scans, with the
\* postings that updates and deletes leave behind, and the filters on top of
\* them give the rows of a scan.
THEOREM PlansAreSound == SqlSpec => []PlanSound
<1>1. IInv => PlanSound
  BY PlanMeans DEF PlanSound
<1> QED  BY <1>1, QueriesInv, PTL

\* The executor's short cut for an id finds the row with it.
LEMMA DirectMeans ==
  ASSUME IInv, NEW e \in Conditions, DirectId(e) # {}
  PROVE  DirectId(e) = Meaning(e)
<1> DEFINE v == EqLiteral(e)[2]
           p == Get(table, v.n)
<1>1. EqLiteral(e) # <<>> /\ EqLiteral(e)[1] = "id" /\ v.type = "integer" /\ v.n \in Id
  BY DEF DirectId
<1>2. DirectId(e) = {p} \ {0} /\ p # 0
  BY <1>1 DEF DirectId
<1>3. Inv(table) /\ Owned(table, {})
  BY DEF IInv, TableInv
<1>4. p \in Positions(table) /\ table.ids[p] = v.n
  BY <1>1, <1>2, <1>3, GetIndexFinds
<1>5. v = Integer(v.n)
  <2>1. IsLiteral(v)
    BY <1>1, EqMeaning
  <2> QED  BY <1>1, <2>1, Constructors DEF IsLiteral, IsString, IsCell
<1>6. \A q : Holds(e, q) <=> Integer(table.ids[q]) = v
  BY <1>1, EqMeaning, ColumnTerm, RowsAssumption
<1> HIDE DEF v, p
<1>7. \A q \in Positions(table) : Integer(table.ids[q]) = v <=> q = p
  <2> SUFFICES ASSUME NEW q \in Positions(table)
               PROVE  Integer(table.ids[q]) = v <=> q = p
    OBVIOUS
  <2>1. Integer(table.ids[q]) = v <=> table.ids[q] = table.ids[p]
    BY <1>4, <1>5, Constructors
  <2>2. table.ids[q] = table.ids[p] => q = p
    BY <1>3, <1>4, OwnedOnce
  <2> QED  BY <2>1, <2>2
<1> QED  BY <1>2, <1>4, <1>6, <1>7 DEF Meaning

LEMMA WhereMeans ==
  ASSUME IInv, NEW e \in Conditions
  PROVE  Where(e) = Meaning(e)
<1>1. CASE DirectId(e) # {}
  BY <1>1, DirectMeans DEF Where
<1>2. CASE DirectId(e) = {} /\ EqLiteral(e) # <<>>
  BY <1>2, FindsMeaning DEF Where
<1>3. CASE DirectId(e) = {} /\ EqLiteral(e) = <<>>
  BY <1>3, SelectMeans DEF Where
<1> QED  BY <1>1, <1>2, <1>3

\* SELECT, UPDATE and DELETE find by id and by index the rows a scan finds.
THEOREM WhereIsSound == SqlSpec => []WhereSound
<1>1. IInv => WhereSound
  BY WhereMeans DEF WhereSound
<1> QED  BY <1>1, QueriesInv, PTL

-----------------------------------------------------------------------------
(* DELETE and UPDATE *)

\* The table has this row with this id.
Has(t, id, row) == \E p \in Positions(t) : t.ids[p] = id /\ t.data[p] = row

\* Deleting an id takes away the row that had it, wherever the others go.
LEMMA DeleteHas ==
  ASSUME NEW strings, NEW t, TableInv(t, strings), NEW id \in Id
  PROVE  \A x, row : Has(Delete(t, id), x, row) <=> Has(t, x, row) /\ x # id
<1> DEFINE w == Delete(t, id)
           p == GetIndex(t, id)
           n == Len(t.ids)
<1>1. Inv(t) /\ Owned(t, {})
  BY DEF TableInv
<1>2. CASE p = 0
  <2>1. \A q \in Positions(t) : t.ids[q] # id
    <3> SUFFICES ASSUME NEW q \in Positions(t), t.ids[q] = id  PROVE FALSE
      OBVIOUS
    <3>1. GetIndex(t, t.ids[q]) = q
      BY <1>1, OwnedFound
    <3> QED  BY <1>2, <3>1 DEF Positions
  <2>2. w = t
    BY <1>2 DEF Delete
  <2> QED  BY <2>1, <2>2 DEF Has
<1>3. CASE p # 0
  <2>1. RowGone(t, id, w)
    BY <1>1, <1>3, DeleteFields
  <2>2. /\ n \in Nat /\ p \in 1 .. n /\ t.ids[p] = id /\ Len(w.ids) = n - 1
        /\ \A q \in 1 .. n - 1 : /\ w.ids[q] = IF q = p THEN t.ids[n] ELSE t.ids[q]
                                 /\ w.data[q] = IF q = p THEN t.data[n] ELSE t.data[q]
    BY <2>1 DEF RowGone
  <2>3. \A q \in 1 .. n : t.ids[q] = id => q = p
    BY <1>1, <2>2, OwnedOnce DEF Positions
  <2> HIDE DEF w, p, n
  <2>4. Positions(w) = 1 .. n - 1 /\ Positions(t) = 1 .. n
    BY <2>2 DEF Positions, n
  <2>5. ASSUME NEW x, NEW row, Has(w, x, row)
        PROVE  Has(t, x, row) /\ x # id
    <3>1. PICK q \in 1 .. n - 1 : w.ids[q] = x /\ w.data[q] = row
      BY <2>4, <2>5 DEF Has
    <3> DEFINE from == IF q = p THEN n ELSE q
    <3>2. from \in 1 .. n /\ from # p
      BY <2>2
    <3>3. t.ids[from] = x /\ t.data[from] = row
      BY <2>2, <3>1
    <3> HIDE DEF from
    <3> QED  BY <2>3, <2>4, <3>2, <3>3 DEF Has
  <2>6. ASSUME NEW x, NEW row, Has(t, x, row), x # id
        PROVE  Has(w, x, row)
    <3>1. PICK q \in 1 .. n : t.ids[q] = x /\ t.data[q] = row
      BY <2>4, <2>6 DEF Has
    <3> DEFINE to == IF q = n THEN p ELSE q
    <3>2. q # p
      BY <2>2, <2>6, <3>1
    <3>3. to \in 1 .. n - 1 /\ (to = p <=> q = n)
      BY <2>2, <3>2
    <3>4. w.ids[to] = x /\ w.data[to] = row
      BY <2>2, <3>1, <3>2, <3>3
    <3> HIDE DEF to
    <3> QED  BY <2>4, <3>3, <3>4 DEF Has
  <2> QED  BY <2>5, <2>6 DEF w
<1> QED  BY <1>2, <1>3

\* The calls of a DELETE take away the rows whose ids it collected.
LEMMA DeleteRowsHas ==
  ASSUME IInv, NEW s \in Seq(Positions(table))
  PROVE  \A x, row : Has(DeleteRows(s), x, row) <=>
                       Has(table, x, row) /\ \A k \in 1 .. Len(s) : x # table.ids[s[k]]
<1> DEFINE n == Len(s)
<1>1. PICK left : /\ left[0] = table /\ DeleteRows(s) = left[n]
                  /\ \A k \in 1 .. n : left[k] = Delete(left[k - 1], table.ids[s[k]])
                  /\ \A k \in 0 .. n : TableInv(left[k], pool)
  BY DeleteRowsRun
<1>2. n \in Nat /\ \A k \in 1 .. n : table.ids[s[k]] \in Id
  <2>1. \A p \in Positions(table) : table.ids[p] \in Id
    BY Fields DEF IInv, TableInv
  <2> QED  BY <2>1
<1> DEFINE Done(m) == \A x, row : Has(left[m], x, row) <=>
                        Has(table, x, row) /\ \A k \in 1 .. m : x # table.ids[s[k]]
           G == {m \in 0 .. n : Done(m)}
<1> HIDE DEF n
<1>3. 0 \in G
  BY <1>1, <1>2
<1>4. ASSUME NEW m \in 1 .. n, m - 1 \in G
      PROVE  m \in G
  <2>1. Done(m - 1) /\ TableInv(left[m - 1], pool) /\ m - 1 \in 0 .. n
    BY <1>1, <1>4
  <2>2. left[m] = Delete(left[m - 1], table.ids[s[m]]) /\ table.ids[s[m]] \in Id
    BY <1>1, <1>2
  <2>3. \A x, row : Has(left[m], x, row) <=> Has(left[m - 1], x, row) /\ x # table.ids[s[m]]
    BY <2>1, <2>2, DeleteHas
  <2>4. \A k \in 1 .. m : k = m \/ k \in 1 .. m - 1
    OBVIOUS
  <2>5. \A k \in 1 .. m - 1 : k \in 1 .. m
    OBVIOUS
  <2>6. m \in 1 .. m
    OBVIOUS
  <2>7. Done(m)
    BY <2>1, <2>3, <2>4, <2>5, <2>6
  <2> HIDE DEF Done
  <2> QED  BY <1>2, <2>7
<1>5. \A m \in 0 .. n : m \in G
  <2> HIDE DEF G
  <2> QED  BY <1>2, <1>3, <1>4, UpTo
<1>6. Done(n)
  <2> HIDE DEF Done
  <2> QED  BY <1>2, <1>5
<1> QED  BY <1>1, <1>6 DEF n

\* A row of t, its symbols those of a pool.
ResolvedIn(strings, v) == IF v.type = "interned" THEN String(strings[v.symbol + 1]) ELSE v
ResolvedRow(strings, row) == [c \in Cols |-> ResolvedIn(strings, row[c])]
RowWith(t, strings, id) == ResolvedRow(strings, t.data[CHOOSE q \in Positions(t) : t.ids[q] = id])

LEMMA RowOfIs ==
  /\ \A id : RowOf(id) = RowWith(table, pool, id)
  /\ \A id : RowOf(id)' = RowWith(table', pool', id)
BY DEF RowOf, RowWith, ResolvedRow, ResolvedIn, Resolved, Positions

\* It is the row at the position with its id.
LEMMA RowWithIs ==
  ASSUME NEW strings, NEW t, TableInv(t, strings), NEW more, NEW p \in Positions(t)
  PROVE  RowWith(t, more, t.ids[p]) = ResolvedRow(more, t.data[p])
<1> DEFINE q == CHOOSE q \in Positions(t) : t.ids[q] = t.ids[p]
<1>1. q \in Positions(t) /\ t.ids[q] = t.ids[p]
  OBVIOUS
<1>2. Inv(t) /\ Owned(t, {})
  BY DEF TableInv
<1> HIDE DEF q
<1>3. q = p
  BY <1>1, <1>2, OwnedOnce
<1> QED  BY <1>3 DEF RowWith, q

\* What a clause collects is what its condition takes.
LEMMA ChosenTaken ==
  ASSUME IInv, NEW clause \in Clauses \cup {NoClause}
  PROVE  Chosen(clause) = Taken(clause)
<1>1. CASE clause = NoClause
  BY <1>1 DEF Chosen, Taken
<1>2. CASE clause # NoClause
  <2>1. clause \in Conditions
    BY <1>2, ClausesAssumption
  <2> QED  BY <1>2, <2>1, WhereMeans DEF Chosen, Taken
<1> QED  BY <1>1, <1>2

\* DELETE
LEMMA DeleteIsExact ==
  ASSUME IInv, IInv', NEW clause \in Clauses \cup {NoClause}, SqlDelete(clause)
  PROVE  /\ IdsNow' = IdsNow \ Ids(Taken(clause))
         /\ \A id \in IdsNow' : RowOf(id)' = RowOf(id)
<1> DEFINE s == Collected(clause)
<1>1. s \in Seq(Positions(table)) /\ Len(s) \in Nat
      /\ \A p : p \in Chosen(clause) <=> \E i \in 1 .. Len(s) : s[i] = p
  BY CollectedPositions
<1>2. table' = DeleteRows(s) /\ pool' = pool
  BY DEF SqlDelete
<1>3. Chosen(clause) = Taken(clause)
  BY ChosenTaken
<1> HIDE DEF s
<1>4. \A x, row : Has(table', x, row) <=>
                    Has(table, x, row) /\ \A k \in 1 .. Len(s) : x # table.ids[s[k]]
  BY <1>1, <1>2, DeleteRowsHas
<1>5. \A x : (\A k \in 1 .. Len(s) : x # table.ids[s[k]]) <=> x \notin Ids(Taken(clause))
  BY <1>1, <1>3 DEF Ids
<1>6. /\ IdsNow = {table.ids[p] : p \in Positions(table)}
      /\ IdsNow' = {table'.ids[p] : p \in Positions(table')}
  BY DEF IdsNow, Ids, Positions
<1>7. \A x : /\ x \in IdsNow <=> \E row : Has(table, x, row)
             /\ x \in IdsNow' <=> \E row : Has(table', x, row)
  BY <1>6 DEF Has
<1>8. IdsNow' = IdsNow \ Ids(Taken(clause))
  BY <1>4, <1>5, <1>7
<1>9. ASSUME NEW id \in IdsNow'
      PROVE  RowOf(id)' = RowOf(id)
  <2>1. PICK q \in Positions(table') : table'.ids[q] = id
    BY <1>6
  <2>2. Has(table, id, table'.data[q])
    <3>1. Has(table', id, table'.data[q])
      BY <2>1 DEF Has
    <3> QED  BY <1>4, <3>1
  <2>3. PICK p \in Positions(table) : table.ids[p] = id /\ table.data[p] = table'.data[q]
    BY <2>2 DEF Has
  <2>4. TableInv(table, pool) /\ TableInv(table', pool')
    BY DEF IInv, TableInv
  <2>5. RowWith(table, pool, id) = ResolvedRow(pool, table.data[p])
    BY <2>3, <2>4, RowWithIs
  <2>6. RowWith(table', pool, id) = ResolvedRow(pool, table'.data[q])
    BY <2>1, <2>4, RowWithIs
  <2> QED  BY <1>2, <2>3, <2>5, <2>6, RowOfIs
<1> QED  BY <1>8, <1>9

\* update writes the row whose id it is given.
LEMMA UpdateInPlace ==
  ASSUME NEW strings, NEW t, TableInv(t, strings), ~t.sequential,
         NEW p \in Positions(t), NEW row \in Row
  PROVE  LET w == Update(t, t.ids[p], row)
         IN  /\ w.ids = t.ids /\ w.sequential = t.sequential /\ Positions(w) = Positions(t)
             /\ \A q \in Positions(t) : w.data[q] = IF q = p THEN row ELSE t.data[q]
<1>1. Inv(t) /\ Owned(t, {})
  BY DEF TableInv
<1>2. t.ids[p] \in Id /\ p # 0
  BY <1>1, Fields
<1>3. t.idMap[t.ids[p]] = p
  BY <1>1 DEF Owned
<1>4. Update(t, t.ids[p], row) = WriteRow(t, p, t.ids[p], row)
  BY <1>2, <1>3 DEF Update
<1> QED  BY <1>1, <1>2, <1>4, WriteRowFields

\* The calls of an UPDATE write the rows it collected and no others.
LEMMA UpdateRowsData ==
  ASSUME IInv, Populated, NEW s \in Seq(Positions(table)), NEW strings, TableInv(table, strings),
         NEW a,
         \A k \in 1 .. Len(s) : RowInv(InternRow(strings, Assigned(s[k], a)), strings)
  PROVE  LET w == UpdateRows(strings, s, a)
         IN  /\ w.ids = table.ids /\ Positions(w) = Positions(table)
             /\ \A p \in Positions(table) :
                  w.data[p] = IF \E k \in 1 .. Len(s) : s[k] = p
                              THEN InternRow(strings, Assigned(p, a)) ELSE table.data[p]
<1> DEFINE n == Len(s)
           New(p) == InternRow(strings, Assigned(p, a))
<1>1. PICK after : /\ after[0] = table /\ UpdateRows(strings, s, a) = after[n]
                   /\ \A k \in 1 .. n : after[k] = Update(after[k - 1], table.ids[s[k]], New(s[k]))
                   /\ \A k \in 0 .. n : TableInv(after[k], strings)
  BY UpdateRowsRun
<1>2. n \in Nat /\ \A k \in 1 .. n : s[k] \in Positions(table) /\ New(s[k]) \in Row
  BY DEF RowInv
<1> DEFINE Done(m) ==
             /\ after[m].ids = table.ids /\ ~after[m].sequential
             /\ Positions(after[m]) = Positions(table)
             /\ \A p \in Positions(table) :
                  after[m].data[p] = IF \E k \in 1 .. m : s[k] = p THEN New(p) ELSE table.data[p]
           G == {m \in 0 .. n : Done(m)}
<1> HIDE DEF n, New
<1>3. 0 \in G
  BY <1>1, <1>2 DEF Populated
<1>4. ASSUME NEW m \in 1 .. n, m - 1 \in G
      PROVE  m \in G
  <2> DEFINE t == after[m - 1]
             w == after[m]
  <2>1. Done(m - 1) /\ TableInv(t, strings)
    BY <1>1, <1>4
  <2>2. s[m] \in Positions(t) /\ table.ids[s[m]] = t.ids[s[m]] /\ New(s[m]) \in Row
    BY <1>2, <2>1
  <2>3. w = Update(t, t.ids[s[m]], New(s[m]))
    BY <1>1, <2>2
  <2>4. ~t.sequential /\ Positions(t) = Positions(table) /\ t.ids = table.ids
    BY <2>1
  <2>5. \A p \in Positions(table) :
          t.data[p] = IF \E k \in 1 .. m - 1 : s[k] = p THEN New(p) ELSE table.data[p]
    BY <2>1
  <2> HIDE DEF t, w
  <2>6. /\ w.ids = t.ids /\ w.sequential = t.sequential /\ Positions(w) = Positions(t)
        /\ \A q \in Positions(t) : w.data[q] = IF q = s[m] THEN New(s[m]) ELSE t.data[q]
    BY <2>1, <2>2, <2>3, <2>4, UpdateInPlace
  <2>7. ASSUME NEW p \in Positions(table)
        PROVE  w.data[p] = IF \E k \in 1 .. m : s[k] = p THEN New(p) ELSE table.data[p]
    <3>1. (\E k \in 1 .. m : s[k] = p) <=> p = s[m] \/ \E k \in 1 .. m - 1 : s[k] = p
      <4>1. \A k \in 1 .. m : k = m \/ k \in 1 .. m - 1
        OBVIOUS
      <4>2. m \in 1 .. m /\ \A k \in 1 .. m - 1 : k \in 1 .. m
        OBVIOUS
      <4> QED  BY <4>1, <4>2
    <3>2. w.data[p] = IF p = s[m] THEN New(s[m]) ELSE t.data[p]
      BY <2>4, <2>6
    <3> QED  BY <2>5, <3>1, <3>2
  <2>8. Done(m)
    BY <2>4, <2>6, <2>7 DEF w
  <2> HIDE DEF Done
  <2> QED  BY <1>2, <2>8
<1>5. \A m \in 0 .. n : m \in G
  <2> HIDE DEF G
  <2> QED  BY <1>2, <1>3, <1>4, UpTo
<1>6. Done(n)
  <2> HIDE DEF Done
  <2> QED  BY <1>2, <1>5
<1> QED  BY <1>1, <1>6 DEF n, New

\* Interning a row changes none of its values.
LEMMA InternedRow ==
  ASSUME NEW strings, PoolInv(strings), NEW row, Writable(row),
         \A s \in StringsOf(row) : Holding(strings, s)
  PROVE  ResolvedRow(strings, InternRow(strings, row)) = row
<1> DEFINE new == InternRow(strings, row)
<1>1. \A c \in Cols : IF row[c].type = "string"
                      THEN new[c].type = "interned" /\ row[c] = String(strings[new[c].symbol + 1])
                      ELSE new[c] = row[c] /\ new[c].type # "interned"
  BY InternRowInv
<1>2. row = [c \in Cols |-> row[c]]
  BY DEF Writable
<1> HIDE DEF new
<1>3. \A c \in Cols : ResolvedIn(strings, new[c]) = row[c]
  BY <1>1 DEF ResolvedIn
<1>4. ResolvedRow(strings, new) = [c \in Cols |-> row[c]]
  BY <1>3 DEF ResolvedRow
<1> QED  BY <1>2, <1>4 DEF new

\* A larger pool resolves a row of the table to the same strings.
LEMMA GrownResolved ==
  ASSUME IInv, NEW more, Grown(pool, more), NEW p \in Positions(table)
  PROVE  ResolvedRow(more, table.data[p]) = ResolvedRow(pool, table.data[p])
<1> DEFINE row == table.data[p]
<1>1. Len(pool) \in Nat
  BY DEF IInv, PoolInv
<1>2. \A c \in Cols : row[c].type = "interned" => row[c].symbol \in Nat /\ row[c].symbol < Len(pool)
  BY ResolvedCell
<1> HIDE DEF row
<1>3. \A c \in Cols : row[c].type = "interned" => row[c].symbol + 1 \in 1 .. Len(pool)
  BY <1>1, <1>2
<1>4. \A c \in Cols : ResolvedIn(more, row[c]) = ResolvedIn(pool, row[c])
  BY <1>3 DEF Grown, ResolvedIn
<1> QED  BY <1>4 DEF ResolvedRow, row

\* UPDATE
LEMMA UpdateIsExact ==
  ASSUME IInv, IInv', NEW clause \in Clauses \cup {NoClause}, NEW a \in Assignments,
         SqlUpdate(clause, a)
  PROVE  /\ IdsNow' = IdsNow
         /\ \A p \in Positions(table) :
              RowOf(table.ids[p])' =
                IF p \in Taken(clause) THEN Assigned(p, a) ELSE RowOf(table.ids[p])
<1> DEFINE s == Collected(clause)
<1>1. s \in Seq(Positions(table)) /\ Len(s) \in Nat
      /\ \A p : p \in Chosen(clause) <=> \E i \in 1 .. Len(s) : s[i] = p
  BY CollectedPositions
<1>2. /\ PoolInv(pool') /\ Grown(pool, pool') /\ TableInv(table, pool')
      /\ \A k \in 1 .. Len(s) : /\ \A x \in StringsOf(Assigned(s[k], a)) : Holding(pool', x)
                                /\ RowInv(InternRow(pool', Assigned(s[k], a)), pool')
  BY SqlUpdateRows
<1>3. Populated /\ table' = UpdateRows(pool', s, a)
  BY DEF SqlUpdate
<1>4. Chosen(clause) = Taken(clause)
  BY ChosenTaken
<1> HIDE DEF s
<1>5. /\ table'.ids = table.ids /\ Positions(table') = Positions(table)
      /\ \A p \in Positions(table) :
           table'.data[p] = IF \E k \in 1 .. Len(s) : s[k] = p
                            THEN InternRow(pool', Assigned(p, a)) ELSE table.data[p]
  BY <1>1, <1>2, <1>3, UpdateRowsData
<1>6. IdsNow' = IdsNow
  BY <1>5 DEF IdsNow, Ids, Positions
<1>7. TableInv(table, pool) /\ TableInv(table', pool')
  BY DEF IInv, TableInv
<1>8. ASSUME NEW p \in Positions(table)
      PROVE  RowOf(table.ids[p])' =
               IF p \in Taken(clause) THEN Assigned(p, a) ELSE RowOf(table.ids[p])
  <2>1. RowWith(table', pool', table.ids[p]) = ResolvedRow(pool', table'.data[p])
    <3>1. TableInv(table', pool') /\ p \in Positions(table') /\ table'.ids[p] = table.ids[p]
      BY <1>5, <1>7
    <3>2. RowWith(table', pool', table'.ids[p]) = ResolvedRow(pool', table'.data[p])
      BY <3>1, RowWithIs
    <3> QED  BY <3>1, <3>2
  <2>2. RowOf(table.ids[p])' = RowWith(table', pool', table'.ids[p])
    <3>1. (table.ids[p])' = table'.ids[p]
      OBVIOUS
    <3> QED  BY RowOfIs
  <2>3. RowOf(table.ids[p])' = ResolvedRow(pool', table'.data[p])
    BY <1>5, <2>1, <2>2
  <2>4. CASE p \in Taken(clause)
    <3>1. PICK k \in 1 .. Len(s) : s[k] = p
      BY <1>1, <1>4, <2>4
    <3>2. table'.data[p] = InternRow(pool', Assigned(p, a))
      BY <1>5, <3>1
    <3>3. \A x \in StringsOf(Assigned(p, a)) : Holding(pool', x)
      BY <1>2, <3>1
    <3>4. ResolvedRow(pool', InternRow(pool', Assigned(p, a))) = Assigned(p, a)
      BY <1>2, <3>3, AssignedWritable, InternedRow
    <3> QED  BY <2>3, <2>4, <3>2, <3>4
  <2>5. CASE p \notin Taken(clause)
    <3>1. table'.data[p] = table.data[p]
      BY <1>1, <1>4, <1>5, <2>5
    <3>2. ResolvedRow(pool', table.data[p]) = ResolvedRow(pool, table.data[p])
      BY <1>2, GrownResolved
    <3>3. RowOf(table.ids[p]) = ResolvedRow(pool, table.data[p])
      BY <1>7, RowOfIs, RowWithIs
    <3> QED  BY <2>3, <2>5, <3>1, <3>2, <3>3
  <2> QED  BY <2>4, <2>5
<1> QED  BY <1>6, <1>8

\* DELETE removes and UPDATE assigns the rows their conditions hold for and no
\* others, each collected before the first of them changes.
THEOREM StatementsAreExact == SqlSpec => StatementsExact
<1>1. IInv /\ IInv' /\ [Next \/ SqlNext]_vars =>
        [\A clause \in Clauses \cup {NoClause} :
           SqlDelete(clause) =>
             /\ IdsNow' = IdsNow \ Ids(Taken(clause))
             /\ \A id \in IdsNow' : RowOf(id)' = RowOf(id)]_vars
  BY DeleteIsExact
<1>2. IInv /\ IInv' /\ [Next \/ SqlNext]_vars =>
        [\A clause \in Clauses \cup {NoClause}, assignment \in Assignments :
           SqlUpdate(clause, assignment) =>
             /\ IdsNow' = IdsNow
             /\ \A p \in Positions(table) :
                  RowOf(table.ids[p])' =
                    IF p \in Taken(clause) THEN Assigned(p, assignment) ELSE RowOf(table.ids[p])]_vars
  BY UpdateIsExact
<1>3. SqlSpec => DeleteExact
  BY <1>1, QueriesInv, PTL DEF SqlSpec, DeleteExact
<1>4. SqlSpec => UpdateExact
  BY <1>2, QueriesInv, PTL DEF SqlSpec, UpdateExact
<1> QED  BY <1>3, <1>4 DEF StatementsExact


-----------------------------------------------------------------------------
(* LIKE *)

\* Place k of the pattern fits the part of the string that ends gives it.
Fits(s, pat, ends, k) ==
  \/ pat[k] = Percent /\ ends[k - 1] <= ends[k]
  \/ /\ pat[k] # Percent /\ ends[k] = ends[k - 1] + 1
     /\ pat[k] \in {Underscore, s[ends[k]]}

\* What follows the first i characters of s matches what follows the first j
\* places of pat.
MatchesFrom(s, pat, i, j) ==
  \E ends \in [j .. Len(pat) -> 0 .. Len(s)] :
    /\ ends[j] = i /\ ends[Len(pat)] = Len(s)
    /\ \A k \in j + 1 .. Len(pat) : Fits(s, pat, ends, k)

LEMMA MatchesAll ==
  ASSUME NEW s \in Seq(Nat), NEW pat \in Seq(Nat)
  PROVE  Matches(s, pat) <=> MatchesFrom(s, pat, 0, 0)
BY DEF Matches, MatchesFrom, Fits

\* After the whole pattern: the string has ended.
LEMMA MatchesNothing ==
  ASSUME NEW s \in Seq(Nat), NEW pat \in Seq(Nat), NEW i \in 0 .. Len(s)
  PROVE  MatchesFrom(s, pat, i, Len(pat)) <=> i = Len(s)
<1> DEFINE n == Len(s)
           m == Len(pat)
<1>1. n \in Nat /\ m \in Nat
  OBVIOUS
<1>2. ASSUME i = n
      PROVE  MatchesFrom(s, pat, i, m)
  <2> DEFINE ends == [k \in m .. m |-> n]
  <2>1. ends \in [m .. m -> 0 .. n] /\ ends[m] = n /\ m + 1 .. m = {}
    BY <1>1
  <2> HIDE DEF ends
  <2> QED  BY <1>2, <2>1 DEF MatchesFrom
<1>3. ASSUME MatchesFrom(s, pat, i, m)
      PROVE  i = n
  BY <1>3 DEF MatchesFrom
<1> QED  BY <1>2, <1>3

\* Before a %: any number of characters is left out.
LEMMA MatchesPercent ==
  ASSUME NEW s \in Seq(Nat), NEW pat \in Seq(Nat), NEW i \in 0 .. Len(s),
         NEW j \in 0 .. Len(pat) - 1, pat[j + 1] = Percent
  PROVE  MatchesFrom(s, pat, i, j) <=> \E k \in i .. Len(s) : MatchesFrom(s, pat, k, j + 1)
<1> DEFINE n == Len(s)
           m == Len(pat)
<1>1. n \in Nat /\ m \in Nat /\ j \in Nat /\ j + 1 \in 0 .. m /\ j + 1 \in j + 1 .. m
      /\ m \in j + 1 .. m /\ (j + 1) - 1 = j
  OBVIOUS
<1> HIDE DEF n, m
<1>2. ASSUME MatchesFrom(s, pat, i, j)
      PROVE  \E k \in i .. n : MatchesFrom(s, pat, k, j + 1)
  <2>1. PICK ends \in [j .. m -> 0 .. n] :
               /\ ends[j] = i /\ ends[m] = n
               /\ \A k \in j + 1 .. m : Fits(s, pat, ends, k)
    BY <1>2 DEF MatchesFrom, n, m
  <2> DEFINE g == [k \in j + 1 .. m |-> ends[k]]
  <2>2. g \in [j + 1 .. m -> 0 .. n] /\ \A k \in j + 1 .. m : g[k] = ends[k]
    BY <1>1
  <2> HIDE DEF g
  <2>3. ends[j + 1] \in i .. n
    <3>1. ends[j] <= ends[j + 1]
      <4>1. Fits(s, pat, ends, j + 1)
        BY <1>1, <2>1
      <4> QED  BY <1>1, <4>1 DEF Fits
    <3>2. ends[j + 1] \in 0 .. n
      BY <1>1
    <3> QED  BY <1>1, <2>1, <3>1, <3>2
  <2>4. \A k \in j + 2 .. m : Fits(s, pat, g, k)
    <3>1. \A k \in j + 2 .. m : k \in j + 1 .. m /\ k - 1 \in j + 1 .. m
      BY <1>1
    <3> QED  BY <2>1, <2>2, <3>1 DEF Fits
  <2>5. MatchesFrom(s, pat, ends[j + 1], j + 1)
    <3>1. (j + 1) + 1 = j + 2
      BY <1>1
    <3> QED  BY <1>1, <2>1, <2>2, <2>4, <3>1 DEF MatchesFrom, n, m
  <2> QED  BY <2>3, <2>5
<1>3. ASSUME NEW k \in i .. n, MatchesFrom(s, pat, k, j + 1)
      PROVE  MatchesFrom(s, pat, i, j)
  <2>0. (j + 1) + 1 = j + 2
    BY <1>1
  <2>1. PICK ends \in [j + 1 .. m -> 0 .. n] :
               /\ ends[j + 1] = k /\ ends[m] = n
               /\ \A q \in j + 2 .. m : Fits(s, pat, ends, q)
    BY <1>3, <2>0 DEF MatchesFrom, n, m
  <2> DEFINE g == [q \in j .. m |-> IF q = j THEN i ELSE ends[q]]
  <2>2. i \in 0 .. n
    BY DEF n
  <2>3. /\ g \in [j .. m -> 0 .. n] /\ g[j] = i
        /\ \A q \in j + 1 .. m : g[q] = ends[q]
    BY <1>1, <2>2
  <2> HIDE DEF g
  <2>4. ASSUME NEW q \in j + 1 .. m
        PROVE  Fits(s, pat, g, q)
    <3>1. CASE q = j + 1
      <4>1. g[j] <= g[j + 1]
        BY <1>1, <2>1, <2>3
      <4> QED  BY <1>1, <3>1, <4>1 DEF Fits
    <3>2. CASE q # j + 1
      <4>1. q \in j + 2 .. m /\ q - 1 \in j + 1 .. m
        BY <1>1, <3>2
      <4> QED  BY <2>1, <2>3, <4>1 DEF Fits
    <3> QED  BY <3>1, <3>2
  <2> QED  BY <1>1, <2>1, <2>3, <2>4 DEF MatchesFrom, n, m
<1> QED  BY <1>2, <1>3 DEF n

\* Before another character: it is the next one of the string, or _.
LEMMA MatchesCharacter ==
  ASSUME NEW s \in Seq(Nat), NEW pat \in Seq(Nat), NEW i \in 0 .. Len(s),
         NEW j \in 0 .. Len(pat) - 1, pat[j + 1] # Percent
  PROVE  MatchesFrom(s, pat, i, j) <=>
           i < Len(s) /\ pat[j + 1] \in {Underscore, s[i + 1]} /\ MatchesFrom(s, pat, i + 1, j + 1)
<1> DEFINE n == Len(s)
           m == Len(pat)
<1>1. n \in Nat /\ m \in Nat /\ j \in Nat /\ i \in Nat /\ j + 1 \in 0 .. m /\ j + 1 \in j + 1 .. m
      /\ m \in j + 1 .. m /\ (j + 1) - 1 = j /\ (j + 1) + 1 = j + 2
  OBVIOUS
<1> HIDE DEF n, m
<1>2. ASSUME MatchesFrom(s, pat, i, j)
      PROVE  i < n /\ pat[j + 1] \in {Underscore, s[i + 1]} /\ MatchesFrom(s, pat, i + 1, j + 1)
  <2>1. PICK ends \in [j .. m -> 0 .. n] :
               /\ ends[j] = i /\ ends[m] = n
               /\ \A k \in j + 1 .. m : Fits(s, pat, ends, k)
    BY <1>2 DEF MatchesFrom, n, m
  <2> DEFINE g == [k \in j + 1 .. m |-> ends[k]]
  <2>2. g \in [j + 1 .. m -> 0 .. n] /\ \A k \in j + 1 .. m : g[k] = ends[k]
    BY <1>1
  <2> HIDE DEF g
  <2>3. ends[j + 1] = i + 1 /\ pat[j + 1] \in {Underscore, s[i + 1]}
    <3>1. Fits(s, pat, ends, j + 1)
      BY <1>1, <2>1
    <3> QED  BY <1>1, <2>1, <3>1 DEF Fits
  <2>4. i < n
    <3>1. ends[j + 1] \in 0 .. n
      BY <1>1
    <3> QED  BY <1>1, <2>3, <3>1
  <2>5. \A k \in j + 2 .. m : Fits(s, pat, g, k)
    <3>1. \A k \in j + 2 .. m : k \in j + 1 .. m /\ k - 1 \in j + 1 .. m
      BY <1>1
    <3> QED  BY <2>1, <2>2, <3>1 DEF Fits
  <2>6. MatchesFrom(s, pat, i + 1, j + 1)
    BY <1>1, <2>1, <2>2, <2>3, <2>5 DEF MatchesFrom, n, m
  <2> QED  BY <2>3, <2>4, <2>6
<1>3. ASSUME i < n, pat[j + 1] \in {Underscore, s[i + 1]}, MatchesFrom(s, pat, i + 1, j + 1)
      PROVE  MatchesFrom(s, pat, i, j)
  <2>1. PICK ends \in [j + 1 .. m -> 0 .. n] :
               /\ ends[j + 1] = i + 1 /\ ends[m] = n
               /\ \A q \in j + 2 .. m : Fits(s, pat, ends, q)
    BY <1>1, <1>3 DEF MatchesFrom, n, m
  <2> DEFINE g == [q \in j .. m |-> IF q = j THEN i ELSE ends[q]]
  <2>2. i \in 0 .. n
    BY DEF n
  <2>3. /\ g \in [j .. m -> 0 .. n] /\ g[j] = i
        /\ \A q \in j + 1 .. m : g[q] = ends[q]
    BY <1>1, <2>2
  <2> HIDE DEF g
  <2>4. ASSUME NEW q \in j + 1 .. m
        PROVE  Fits(s, pat, g, q)
    <3>1. CASE q = j + 1
      <4>1. g[j + 1] = g[j] + 1 /\ pat[j + 1] \in {Underscore, s[g[j + 1]]}
        BY <1>1, <1>3, <2>1, <2>3
      <4> QED  BY <1>1, <3>1, <4>1 DEF Fits
    <3>2. CASE q # j + 1
      <4>1. q \in j + 2 .. m /\ q - 1 \in j + 1 .. m
        BY <1>1, <3>2
      <4> QED  BY <2>1, <2>3, <4>1 DEF Fits
    <3> QED  BY <3>1, <3>2
  <2> QED  BY <1>1, <2>1, <2>3, <2>4 DEF MatchesFrom, n, m
<1> QED  BY <1>2, <1>3 DEF n

\* Some characters in a row take as many of the string.
LEMMA MatchesCharacters ==
  ASSUME NEW s \in Seq(Nat), NEW pat \in Seq(Nat), NEW i \in 0 .. Len(s),
         NEW a \in 0 .. Len(pat), NEW d \in Nat, a + d <= Len(pat),
         \A q \in a + 1 .. a + d : pat[q] # Percent, MatchesFrom(s, pat, i, a)
  PROVE  i + d <= Len(s) /\ MatchesFrom(s, pat, i + d, a + d)
<1> DEFINE n == Len(s)
           m == Len(pat)
           G == {c \in 0 .. d : i + c <= n /\ MatchesFrom(s, pat, i + c, a + c)}
<1>1. n \in Nat /\ m \in Nat /\ a \in Nat /\ i \in Nat
  OBVIOUS
<1>2. 0 \in G
  <2>1. i + 0 = i /\ a + 0 = a /\ i <= n
    BY <1>1
  <2> HIDE DEF n
  <2> QED  BY <2>1
<1>3. ASSUME NEW c \in 1 .. d, c - 1 \in G
      PROVE  c \in G
  <2> DEFINE x == i + (c - 1)
             y == a + (c - 1)
  <2>1. x <= n /\ MatchesFrom(s, pat, x, y)
    BY <1>3
  <2>2. /\ x \in 0 .. n /\ y \in 0 .. m - 1 /\ y + 1 \in a + 1 .. a + d
        /\ x + 1 = i + c /\ y + 1 = a + c /\ (x < n => x + 1 <= n)
    BY <1>1, <2>1
  <2> HIDE DEF x, y
  <2>3. pat[y + 1] # Percent
    BY <2>2
  <2>4. x < n /\ MatchesFrom(s, pat, x + 1, y + 1)
    BY <2>1, <2>2, <2>3, MatchesCharacter
  <2> HIDE DEF n
  <2>5. i + c <= n
    BY <2>2, <2>4
  <2>6. MatchesFrom(s, pat, i + c, a + c)
    BY <2>2, <2>4
  <2>7. c \in 0 .. d
    OBVIOUS
  <2> QED  BY <2>5, <2>6, <2>7
<1>4. \A c \in 0 .. d : c \in G
  <2> HIDE DEF G
  <2> QED  BY <1>2, <1>3, UpTo
<1>5. d \in G
  <2> HIDE DEF G
  <2> QED  BY <1>4
<1> QED  BY <1>5

\* After the whole string: the rest of the pattern is %.
LEMMA MatchesPercents ==
  ASSUME NEW s \in Seq(Nat), NEW pat \in Seq(Nat), NEW j \in 0 .. Len(pat)
  PROVE  MatchesFrom(s, pat, Len(s), j) <=> OnlyPercentsLeft(pat, j)
<1> DEFINE n == Len(s)
           m == Len(pat)
<1>1. n \in Nat /\ m \in Nat /\ j \in 0 .. m
  OBVIOUS
<1> HIDE DEF n, m
<1>2. ASSUME OnlyPercentsLeft(pat, j)
      PROVE  MatchesFrom(s, pat, n, j)
  <2> DEFINE ends == [k \in j .. m |-> n]
  <2>1. ends \in [j .. m -> 0 .. n] /\ ends[j] = n /\ ends[m] = n
    BY <1>1
  <2>2. \A k \in j + 1 .. m : ends[k - 1] <= ends[k]
    BY <1>1
  <2> HIDE DEF ends
  <2>3. \A k \in j + 1 .. m : Fits(s, pat, ends, k)
    BY <1>2, <2>2 DEF OnlyPercentsLeft, Fits, m
  <2> QED  BY <2>1, <2>3 DEF MatchesFrom, n, m
<1>3. ASSUME MatchesFrom(s, pat, n, j)
      PROVE  OnlyPercentsLeft(pat, j)
  <2>1. PICK ends \in [j .. m -> 0 .. n] :
               /\ ends[j] = n
               /\ \A k \in j + 1 .. m : Fits(s, pat, ends, k)
    BY <1>3 DEF MatchesFrom, n, m
  <2> DEFINE G == {d \in 0 .. m - j : ends[j + d] = n}
  <2>2. 0 \in G
    BY <1>1, <2>1
  <2>3. ASSUME NEW d \in 1 .. m - j, d - 1 \in G
        PROVE  d \in G /\ pat[j + d] = Percent
    <3> DEFINE k == j + d
    <3>1. k \in j + 1 .. m /\ k \in j .. m /\ k - 1 = j + (d - 1)
      BY <1>1
    <3>2. ends[k - 1] = n
      BY <2>3, <3>1
    <3> HIDE DEF k
    <3>3. Fits(s, pat, ends, k) /\ ends[k] \in 0 .. n
      BY <2>1, <3>1
    <3>4. ~(ends[k] = ends[k - 1] + 1)
      BY <1>1, <3>2, <3>3
    <3>5. pat[k] = Percent /\ n <= ends[k]
      BY <3>2, <3>3, <3>4 DEF Fits
    <3>6. ends[k] = n
      BY <1>1, <3>3, <3>5
    <3> QED  BY <3>5, <3>6 DEF k
  <2>4. \A d \in 0 .. m - j : d \in G
    <3>1. m - j \in Nat
      BY <1>1
    <3> HIDE DEF G
    <3> QED  BY <2>2, <2>3, <3>1, UpTo
  <2>5. ASSUME NEW k \in j + 1 .. m
        PROVE  pat[k] = Percent
    <3>1. k - j \in 1 .. m - j /\ (k - j) - 1 \in 0 .. m - j /\ j + (k - j) = k
      BY <1>1
    <3> HIDE DEF G
    <3> QED  BY <2>3, <2>4, <3>1
  <2> QED  BY <2>5 DEF OnlyPercentsLeft, m
<1> QED  BY <1>2, <1>3 DEF n

\* A bound on the steps the loop of like_match has left.
StepsLeft(s, pat, x) == (Len(s) - x[3]) * (Len(pat) + 1) + (Len(pat) - x[2])

LEMMA Product ==
  ASSUME NEW a \in Nat, NEW b \in Nat, NEW w \in Nat, a <= b
  PROVE  a * w \in Nat /\ b * w \in Nat /\ a * w <= b * w /\ (a < b => a * w + w <= b * w)
<1> DEFINE c == b - a
<1>1. c \in Nat /\ b = a + c /\ (a < b => c - 1 \in Nat)
  OBVIOUS
<1>2. a * w \in Nat /\ c * w \in Nat
  BY <1>1
<1>3. (a + c) * w = a * w + c * w
  BY <1>1
<1>4. ASSUME a < b
      PROVE  c * w >= w
  <2> DEFINE d == c - 1
  <2>1. d \in Nat /\ c = d + 1
    BY <1>1, <1>4
  <2> HIDE DEF c, d
  <2>2. (d + 1) * w = d * w + w /\ d * w \in Nat
    BY <2>1
  <2> QED  BY <2>1, <2>2
<1> HIDE DEF c
<1> QED  BY <1>1, <1>2, <1>3, <1>4

\* The loop's next states.
Advanced(x) == <<x[1] + 1, x[2] + 1, x[3], x[4]>>
Starred(x)  == <<x[1], x[2] + 1, x[1], x[2] + 1>>
Retried(x)  == <<x[3] + 1, x[4], x[3] + 1, x[4]>>

LEMMA Differences ==
  ASSUME NEW n \in Nat, NEW k \in 0 .. n
  PROVE  n - k \in Nat /\ n - k <= n
OBVIOUS

LEMMA LoopParts ==
  ASSUME NEW s \in Seq(Nat), NEW pat \in Seq(Nat), NEW x \in LoopStates(s, pat)
  PROVE  /\ x[1] \in 0 .. Len(s) /\ x[2] \in 0 .. Len(pat)
         /\ x[3] \in 0 .. Len(s) /\ x[4] \in 0 .. Len(pat) /\ x[3] <= x[1]
         /\ StepsLeft(s, pat, x) \in 0 .. Len(s) * (Len(pat) + 1) + Len(pat)
         /\ Len(s) * (Len(pat) + 1) + Len(pat) \in Nat
<1> DEFINE n == Len(s)
           w == Len(pat) + 1
<1>1. /\ x[1] \in 0 .. n /\ x[2] \in 0 .. Len(pat)
      /\ x[3] \in 0 .. n /\ x[4] \in 0 .. Len(pat) /\ x[3] <= x[1]
  <2>1. x \in (0 .. n) \X (0 .. Len(pat)) \X (0 .. n) \X (0 .. Len(pat)) /\ x[3] <= x[1]
    BY DEF LoopStates
  <2> HIDE DEF n
  <2> QED  BY <2>1
<1>2. n - x[3] \in Nat /\ n \in Nat /\ w \in Nat /\ n - x[3] <= n
      /\ Len(pat) - x[2] \in Nat /\ Len(pat) - x[2] <= Len(pat) /\ Len(pat) \in Nat
  <2>1. n \in Nat /\ Len(pat) \in Nat /\ w \in Nat
    OBVIOUS
  <2> HIDE DEF n, w
  <2> QED  BY <1>1, <2>1, Differences
<1> DEFINE a == n - x[3]
<1>3. StepsLeft(s, pat, x) = a * w + (Len(pat) - x[2])
  BY DEF StepsLeft
<1> HIDE DEF a, n, w
<1>4. a * w \in Nat /\ n * w \in Nat /\ a * w <= n * w
  BY <1>2, Product DEF a
<1>5. /\ StepsLeft(s, pat, x) \in 0 .. n * w + Len(pat)
      /\ n * w + Len(pat) \in Nat
  BY <1>2, <1>3, <1>4
<1> QED  BY <1>1, <1>5 DEF n, w

LEMMA LoopState ==
  ASSUME NEW s, NEW pat, NEW i \in 0 .. Len(s), NEW j \in 0 .. Len(pat),
         NEW from \in 0 .. Len(s), NEW star \in 0 .. Len(pat), from <= i
  PROVE  <<i, j, from, star>> \in LoopStates(s, pat)
BY DEF LoopStates

\* The arithmetic of the steps left.
LEMMA FewerLeft ==
  ASSUME NEW n \in Nat, NEW m \in Nat, NEW i \in 0 .. n, NEW j \in 0 .. m,
         NEW from \in 0 .. n, NEW star \in 0 .. m, from <= i, i < n
  PROVE  /\ j < m =>
              /\ (n - from) * (m + 1) + (m - (j + 1)) < (n - from) * (m + 1) + (m - j)
              /\ (n - i) * (m + 1) + (m - (j + 1)) < (n - from) * (m + 1) + (m - j)
         /\ (n - (from + 1)) * (m + 1) + (m - star) < (n - from) * (m + 1) + (m - j)
<1> DEFINE w == m + 1
           a == n - from
           b == n - i
           c == n - (from + 1)
<1>1. a \in Nat /\ b \in Nat /\ c \in Nat /\ b <= a /\ c <= a /\ c < a /\ w \in Nat
  OBVIOUS
<1>2. /\ j < m => m - (j + 1) < m - j
      /\ m - star < w /\ m - j \in Nat /\ m - (j + 1) \in Int /\ m - star \in Nat
  OBVIOUS
<1> HIDE DEF a, b, c, w
<1>3. a * w \in Nat /\ b * w \in Nat /\ c * w \in Nat /\ b * w <= a * w /\ c * w + w <= a * w
  BY <1>1, Product
<1> DEFINE aw == a * w
           bw == b * w
           cw == c * w
           l == m - j
           k == m - (j + 1)
           q == m - star
<1>4. /\ aw \in Nat /\ bw \in Nat /\ cw \in Nat /\ bw <= aw /\ cw + w <= aw
      /\ l \in Nat /\ k \in Int /\ q \in Nat /\ q < w /\ (j < m => k < l)
  BY <1>2, <1>3
<1> HIDE DEF aw, bw, cw, l, k, q
<1>5. /\ j < m => aw + k < aw + l /\ bw + k < aw + l
      /\ cw + q < aw + l
  BY <1>1, <1>4
<1> QED  BY <1>5 DEF aw, bw, cw, l, k, q, a, b, c, w

\* Each of them has fewer steps left.
LEMMA LoopEnds ==
  ASSUME NEW s \in Seq(Nat), NEW pat \in Seq(Nat), NEW x \in LoopStates(s, pat), x[1] < Len(s)
  PROVE  /\ x[2] < Len(pat) =>
              /\ Advanced(x) \in LoopStates(s, pat)
              /\ StepsLeft(s, pat, Advanced(x)) < StepsLeft(s, pat, x)
              /\ Starred(x) \in LoopStates(s, pat)
              /\ StepsLeft(s, pat, Starred(x)) < StepsLeft(s, pat, x)
         /\ Retried(x) \in LoopStates(s, pat)
         /\ StepsLeft(s, pat, Retried(x)) < StepsLeft(s, pat, x)
<1> DEFINE n == Len(s)
           m == Len(pat)
           i == x[1]
           j == x[2]
           from == x[3]
           star == x[4]
<1>1. i \in 0 .. n /\ j \in 0 .. m /\ from \in 0 .. n /\ star \in 0 .. m /\ from <= i /\ i < n
  BY LoopParts
<1>2. n \in Nat /\ m \in Nat
  OBVIOUS
<1>3. /\ StepsLeft(s, pat, x) = (n - from) * (m + 1) + (m - j)
      /\ StepsLeft(s, pat, Advanced(x)) = (n - from) * (m + 1) + (m - (j + 1))
      /\ StepsLeft(s, pat, Starred(x)) = (n - i) * (m + 1) + (m - (j + 1))
      /\ StepsLeft(s, pat, Retried(x)) = (n - (from + 1)) * (m + 1) + (m - star)
  BY DEF StepsLeft, Advanced, Starred, Retried
<1>4. /\ Advanced(x) = <<i + 1, j + 1, from, star>>
      /\ Starred(x) = <<i, j + 1, i, j + 1>>
      /\ Retried(x) = <<from + 1, star, from + 1, star>>
  BY DEF Advanced, Starred, Retried
<1> HIDE DEF i, j, from, star
<1>5. /\ i + 1 \in 0 .. n /\ from <= i + 1 /\ from + 1 \in 0 .. n /\ from + 1 <= from + 1 /\ i <= i
      /\ (j < m => j + 1 \in 0 .. m)
  <2> HIDE DEF n, m
  <2> QED  BY <1>1, <1>2
<1>6. /\ j < m => Advanced(x) \in LoopStates(s, pat) /\ Starred(x) \in LoopStates(s, pat)
      /\ Retried(x) \in LoopStates(s, pat)
  BY <1>1, <1>4, <1>5, LoopState
<1>7. /\ j < m => /\ StepsLeft(s, pat, Advanced(x)) < StepsLeft(s, pat, x)
                  /\ StepsLeft(s, pat, Starred(x)) < StepsLeft(s, pat, x)
      /\ StepsLeft(s, pat, Retried(x)) < StepsLeft(s, pat, x)
  <2> HIDE DEF n, m
  <2> QED  BY <1>1, <1>2, <1>3, FewerLeft
<1> QED  BY <1>6, <1>7 DEF j, m

\* What the loop does in state x, f being what it does in the others.
LoopStep(s, pat, f, x) ==
  LET i == x[1]
      j == x[2]
      from == x[3]
      star == x[4]
  IN  IF i = Len(s) THEN OnlyPercentsLeft(pat, j)
      ELSE IF j < Len(pat) /\ pat[j + 1] \in {Underscore, s[i + 1]}
           THEN f[<<i + 1, j + 1, from, star>>]
      ELSE IF j < Len(pat) /\ pat[j + 1] = Percent
           THEN f[<<i, j + 1, i, j + 1>>]
      ELSE star # 0 /\ f[<<from + 1, star, from + 1, star>>]

LEMMA LoopStepIs ==
  ASSUME NEW s, NEW pat, NEW f, NEW x
  PROVE  LoopStep(s, pat, f, x) =
           IF x[1] = Len(s) THEN OnlyPercentsLeft(pat, x[2])
           ELSE IF x[2] < Len(pat) /\ pat[x[2] + 1] \in {Underscore, s[x[1] + 1]}
                THEN f[Advanced(x)]
           ELSE IF x[2] < Len(pat) /\ pat[x[2] + 1] = Percent
                THEN f[Starred(x)]
           ELSE x[4] # 0 /\ f[Retried(x)]
BY DEF LoopStep, Advanced, Starred, Retried

LEMMA LoopLocal ==
  ASSUME NEW s \in Seq(Nat), NEW pat \in Seq(Nat), NEW x \in LoopStates(s, pat), NEW f, NEW g,
         \A y \in LoopStates(s, pat) :
           StepsLeft(s, pat, y) < StepsLeft(s, pat, x) => f[y] = g[y]
  PROVE  LoopStep(s, pat, f, x) = LoopStep(s, pat, g, x)
<1>1. CASE x[1] = Len(s)
  BY <1>1, LoopStepIs
<1>2. CASE x[1] # Len(s)
  <2>1. x[1] < Len(s)
    BY <1>2, LoopParts
  <2>2. f[Retried(x)] = g[Retried(x)]
        /\ (x[2] < Len(pat) => f[Advanced(x)] = g[Advanced(x)] /\ f[Starred(x)] = g[Starred(x)])
    BY <2>1, LoopEnds
  <2> QED  BY <1>2, <2>2, LoopStepIs
<1> QED  BY <1>1, <1>2

\* So the loop has a result in every state.
LEMMA LoopResults ==
  ASSUME NEW s \in Seq(Nat), NEW pat \in Seq(Nat)
  PROVE  \E f : f = [x \in LoopStates(s, pat) |-> LoopStep(s, pat, f, x)]
<1> DEFINE N == Len(s) * (Len(pat) + 1) + Len(pat)
           L == LoopStates(s, pat)
           S(x) == StepsLeft(s, pat, x)
           Right(r, f) == \A x \in L : S(x) < r => f[x] = LoopStep(s, pat, f, x)
           G == {r \in 0 .. N + 1 : \E f : Right(r, f)}
<1>1. \A x \in L : S(x) \in Nat /\ S(x) <= N
  BY LoopParts
<1>2. N \in Nat /\ N + 1 \in Nat
  <2>1. <<0, 0, 0, 0>> \in L
    BY DEF LoopStates
  <2>2. N \in Nat
    BY <2>1, LoopParts
  <2> HIDE DEF N
  <2> QED  BY <2>2
<1> HIDE DEF N, S
<1>3. 0 \in G
  <2>1. Right(0, 0)
    BY <1>1
  <2> HIDE DEF Right
  <2> QED  BY <1>2, <2>1
<1>4. ASSUME NEW r \in 1 .. N + 1, r - 1 \in G
      PROVE  r \in G
  <2>1. PICK f : Right(r - 1, f)
    <3> HIDE DEF Right
    <3> QED  BY <1>4
  <2> DEFINE g == [x \in L |-> IF S(x) < r - 1 THEN f[x] ELSE LoopStep(s, pat, f, x)]
  <2>2. \A x \in L : g[x] = IF S(x) < r - 1 THEN f[x] ELSE LoopStep(s, pat, f, x)
    OBVIOUS
  <2> HIDE DEF g
  <2>3. ASSUME NEW x \in L, S(x) < r
        PROVE  g[x] = LoopStep(s, pat, g, x)
    <3>1. \A y \in L : S(y) < S(x) => f[y] = g[y]
      <4>1. \A y \in L : S(y) < S(x) => S(y) < r - 1
        BY <1>1, <1>2, <2>3
      <4> QED  BY <2>2, <4>1
    <3>2. LoopStep(s, pat, f, x) = LoopStep(s, pat, g, x)
      BY <3>1, LoopLocal DEF S
    <3> QED  BY <2>1, <2>2, <3>2
  <2>4. Right(r, g)
    BY <2>3
  <2> HIDE DEF Right
  <2> QED  BY <1>2, <2>4
<1>5. \A r \in 0 .. N + 1 : r \in G
  <2> HIDE DEF G
  <2> QED  BY <1>2, <1>3, <1>4, UpTo
<1>6. PICK f : Right(N + 1, f)
  <2> HIDE DEF Right
  <2> QED  BY <1>2, <1>5
<1>7. \A x \in L : f[x] = LoopStep(s, pat, f, x)
  BY <1>1, <1>2, <1>6
<1> DEFINE g == [x \in L |-> f[x]]
<1>8. \A x \in L : g[x] = f[x]
  OBVIOUS
<1> HIDE DEF g
<1>9. \A x \in L : g[x] = LoopStep(s, pat, g, x)
  BY <1>7, <1>8, LoopLocal
<1>10. g = [x \in L |-> LoopStep(s, pat, g, x)]
  BY <1>9 DEF g
<1> QED  BY <1>10

\* What the loop promises in a state: before the first % whether the rest of
\* the string matches, after it whether the rest from some later place on does.
Promised(s, pat, i, j, from, star) ==
  IF star = 0 THEN MatchesFrom(s, pat, i, j)
  ELSE \E k \in from .. Len(s) : MatchesFrom(s, pat, k, star)

\* What is true of the states the loop comes to: since the last % it has taken
\* characters, one by one, and each where it could.
Reached(s, pat, i, j, from, star) ==
  star # 0 => /\ star \in 1 .. j /\ i - from = j - star
              /\ \A q \in star + 1 .. j : pat[q] # Percent
              /\ MatchesFrom(s, pat, from, star) <=> MatchesFrom(s, pat, i, j)

\* A later place to start from is a later place to be at.
LEMMA LaterStart ==
  ASSUME NEW s \in Seq(Nat), NEW pat \in Seq(Nat), NEW i \in 0 .. Len(s), NEW j \in 0 .. Len(pat),
         NEW from \in 0 .. Len(s), NEW star \in 1 .. Len(pat),
         Reached(s, pat, i, j, from, star),
         NEW k \in from .. Len(s), MatchesFrom(s, pat, k, star)
  PROVE  \E r \in i .. Len(s) : MatchesFrom(s, pat, r, j) /\ (r = i => k = from)
<1> DEFINE n == Len(s)
           m == Len(pat)
           d == j - star
           r == k + d
<1>1. star \in 1 .. j /\ i - from = d /\ \A q \in star + 1 .. j : pat[q] # Percent
  BY DEF Reached
<1>2. n \in Nat /\ m \in Nat /\ j \in 0 .. m
  OBVIOUS
<1>3. /\ d \in Nat /\ star + d = j /\ star + d <= m /\ k \in 0 .. n /\ star \in 0 .. m
      /\ i = from + d
  <2>1. star \in Nat /\ j \in Nat /\ star <= j /\ j <= m /\ from \in Nat /\ i \in Nat /\ k \in Nat
    BY <1>1, <1>2
  <2>2. d \in Nat /\ star + d = j
    BY <2>1
  <2>3. i = from + d
    BY <1>1, <2>1, <2>2
  <2>4. k \in 0 .. n
    BY <1>2, <2>1
  <2> QED  BY <1>2, <2>1, <2>2, <2>3, <2>4
<1> HIDE DEF d
<1>4. \A q \in star + 1 .. star + d : pat[q] # Percent
  BY <1>1, <1>3
<1>5. r <= n /\ MatchesFrom(s, pat, r, star + d)
  BY <1>3, <1>4, MatchesCharacters
<1>6. r \in i .. n /\ (r = i => k = from)
  <2> HIDE DEF n, m
  <2> QED  BY <1>2, <1>3, <1>5
<1> QED  BY <1>3, <1>5, <1>6

\* The string has ended.
LEMMA EndKeeps ==
  ASSUME NEW s \in Seq(Nat), NEW pat \in Seq(Nat), NEW i \in 0 .. Len(s), NEW j \in 0 .. Len(pat),
         NEW from \in 0 .. Len(s), NEW star \in 0 .. Len(pat),
         Reached(s, pat, i, j, from, star), i = Len(s)
  PROVE  Promised(s, pat, i, j, from, star) <=> OnlyPercentsLeft(pat, j)
<1>1. MatchesFrom(s, pat, i, j) <=> OnlyPercentsLeft(pat, j)
  BY MatchesPercents
<1>2. CASE star = 0
  BY <1>1, <1>2 DEF Promised
<1>3. CASE star # 0
  <2>1. star \in 1 .. Len(pat) /\ from \in from .. Len(s) /\ i .. Len(s) = {i}
    BY <1>3
  <2>2. MatchesFrom(s, pat, from, star) <=> MatchesFrom(s, pat, i, j)
    BY <1>3 DEF Reached
  <2>3. ASSUME NEW k \in from .. Len(s), MatchesFrom(s, pat, k, star)
        PROVE  MatchesFrom(s, pat, i, j)
    <3>1. \E r \in i .. Len(s) : MatchesFrom(s, pat, r, j)
      <4>1. /\ s \in Seq(Nat) /\ pat \in Seq(Nat) /\ i \in 0 .. Len(s) /\ j \in 0 .. Len(pat)
            /\ from \in 0 .. Len(s) /\ star \in 1 .. Len(pat) /\ k \in from .. Len(s)
            /\ Reached(s, pat, i, j, from, star) /\ MatchesFrom(s, pat, k, star)
        BY <2>1, <2>3
      <4>2. \E r \in i .. Len(s) : MatchesFrom(s, pat, r, j) /\ (r = i => k = from)
        BY ONLY <4>1, LaterStart
      <4> QED  BY <4>2
    <3> QED  BY <2>1, <3>1
  <2>4. (\E k \in from .. Len(s) : MatchesFrom(s, pat, k, star)) <=> MatchesFrom(s, pat, i, j)
    BY <2>1, <2>2, <2>3
  <2> QED  BY <1>1, <1>3, <2>4 DEF Promised
<1> QED  BY <1>2, <1>3

\* The next place is the next character, or _.
LEMMA CharacterKeeps ==
  ASSUME NEW s \in Seq(Nat), NEW pat \in Seq(Nat), NEW i \in 0 .. Len(s) - 1,
         NEW j \in 0 .. Len(pat) - 1, NEW from \in 0 .. Len(s), NEW star \in 0 .. Len(pat),
         Reached(s, pat, i, j, from, star),
         pat[j + 1] \in {Underscore, s[i + 1]}, pat[j + 1] # Percent
  PROVE  /\ Reached(s, pat, i + 1, j + 1, from, star)
         /\ Promised(s, pat, i, j, from, star) <=> Promised(s, pat, i + 1, j + 1, from, star)
<1>1. i \in 0 .. Len(s) /\ i < Len(s)
  OBVIOUS
<1>2. MatchesFrom(s, pat, i, j) <=> MatchesFrom(s, pat, i + 1, j + 1)
  BY <1>1, MatchesCharacter
<1>3. CASE star = 0
  BY <1>2, <1>3 DEF Reached, Promised
<1>4. CASE star # 0
  <2>1. /\ star \in 1 .. j /\ i - from = j - star
        /\ \A q \in star + 1 .. j : pat[q] # Percent
        /\ MatchesFrom(s, pat, from, star) <=> MatchesFrom(s, pat, i, j)
    BY <1>4 DEF Reached
  <2>2. star \in 1 .. j + 1 /\ (i + 1) - from = (j + 1) - star
    <3>1. i \in Nat /\ j \in Nat /\ from \in Nat /\ star \in Nat /\ 1 <= star /\ star <= j
      BY <2>1
    <3>2. star \in 1 .. j + 1
      BY <3>1
    <3>3. i = from + (j - star)
      BY <2>1, <3>1
    <3>4. (i + 1) - from = (j + 1) - star
      BY <3>1, <3>3
    <3> QED  BY <3>2, <3>4
  <2>3. \A q \in star + 1 .. j + 1 : q \in star + 1 .. j \/ q = j + 1
    OBVIOUS
  <2>4. \A q \in star + 1 .. j + 1 : pat[q] # Percent
    BY <2>1, <2>3
  <2>5. Reached(s, pat, i + 1, j + 1, from, star)
    BY <1>2, <2>1, <2>2, <2>4 DEF Reached
  <2> QED  BY <1>4, <2>5 DEF Promised
<1> QED  BY <1>3, <1>4

\* The next place is a %.
LEMMA PercentKeeps ==
  ASSUME NEW s \in Seq(Nat), NEW pat \in Seq(Nat), NEW i \in 0 .. Len(s),
         NEW j \in 0 .. Len(pat) - 1, NEW from \in 0 .. Len(s), NEW star \in 0 .. Len(pat),
         Reached(s, pat, i, j, from, star), pat[j + 1] = Percent
  PROVE  /\ Reached(s, pat, i, j + 1, i, j + 1)
         /\ Promised(s, pat, i, j, from, star) <=> Promised(s, pat, i, j + 1, i, j + 1)
<1>1. j \in Nat /\ j + 1 # 0 /\ j + 1 \in 1 .. j + 1 /\ j \in 0 .. Len(pat)
      /\ i - i = (j + 1) - (j + 1) /\ (j + 1) + 1 .. j + 1 = {}
  OBVIOUS
<1>2. Reached(s, pat, i, j + 1, i, j + 1)
  BY <1>1 DEF Reached
<1>3. Promised(s, pat, i, j + 1, i, j + 1) <=> MatchesFrom(s, pat, i, j)
  BY <1>1, MatchesPercent DEF Promised
<1>4. CASE star = 0
  BY <1>2, <1>3, <1>4 DEF Promised
<1>5. CASE star # 0
  <2>1. star \in 1 .. Len(pat) /\ from \in from .. Len(s)
    BY <1>5
  <2>2. MatchesFrom(s, pat, from, star) <=> MatchesFrom(s, pat, i, j)
    BY <1>5 DEF Reached
  <2>3. ASSUME NEW k \in from .. Len(s), MatchesFrom(s, pat, k, star)
        PROVE  MatchesFrom(s, pat, i, j)
    <3>1. PICK r \in i .. Len(s) : MatchesFrom(s, pat, r, j)
      BY <1>1, <2>1, <2>3, LaterStart
    <3>2. r \in 0 .. Len(s)
      OBVIOUS
    <3>3. PICK l \in r .. Len(s) : MatchesFrom(s, pat, l, j + 1)
      BY <3>1, <3>2, MatchesPercent
    <3>4. l \in i .. Len(s)
      BY <3>2
    <3> QED  BY <3>3, <3>4, MatchesPercent
  <2>4. (\E k \in from .. Len(s) : MatchesFrom(s, pat, k, star)) <=> MatchesFrom(s, pat, i, j)
    BY <2>1, <2>2, <2>3
  <2> QED  BY <1>2, <1>3, <1>5, <2>4 DEF Promised
<1> QED  BY <1>4, <1>5

\* The rest of the string does not match: the last % takes one more character.
LEMMA RetryKeeps ==
  ASSUME NEW s \in Seq(Nat), NEW pat \in Seq(Nat), NEW i \in 0 .. Len(s), NEW j \in 0 .. Len(pat),
         NEW from \in 0 .. Len(s), NEW star \in 0 .. Len(pat), from <= i, i < Len(s),
         Reached(s, pat, i, j, from, star),
         j < Len(pat) => pat[j + 1] # Percent /\ pat[j + 1] \notin {Underscore, s[i + 1]}
  PROVE  IF star = 0 THEN ~Promised(s, pat, i, j, from, star)
         ELSE /\ Reached(s, pat, from + 1, star, from + 1, star)
              /\ Promised(s, pat, i, j, from, star) <=> Promised(s, pat, from + 1, star, from + 1, star)
<1>1. ~MatchesFrom(s, pat, i, j)
  <2>1. CASE j = Len(pat)
    BY <2>1, MatchesNothing
  <2>2. CASE j < Len(pat)
    <3>1. j \in 0 .. Len(pat) - 1
      BY <2>2
    <3> QED  BY <2>2, <3>1, MatchesCharacter
  <2> QED  BY <2>1, <2>2
<1>2. CASE star = 0
  BY <1>1, <1>2 DEF Promised
<1>3. CASE star # 0
  <2>1. ~MatchesFrom(s, pat, from, star)
    BY <1>1, <1>3 DEF Reached
  <2>2. /\ star \in 1 .. star /\ (from + 1) - (from + 1) = star - star
        /\ star + 1 .. star = {}
    BY <1>3
  <2>3. Reached(s, pat, from + 1, star, from + 1, star)
    BY <2>2 DEF Reached
  <2>4. from .. Len(s) = {from} \cup (from + 1 .. Len(s))
    OBVIOUS
  <2> QED  BY <1>3, <2>1, <2>3, <2>4 DEF Promised
<1> QED  BY <1>2, <1>3

\* The result of the loop in a state it comes to is what it promises there.
LEMMA LoopStepKeeps ==
  ASSUME NEW s \in Seq(Nat), NEW pat \in Seq(Nat), \A q \in 1 .. Len(s) : s[q] # Percent,
         NEW f, NEW x \in LoopStates(s, pat), Reached(s, pat, x[1], x[2], x[3], x[4]),
         f[x] = LoopStep(s, pat, f, x),
         \A y \in LoopStates(s, pat) :
           /\ StepsLeft(s, pat, y) < StepsLeft(s, pat, x)
           /\ Reached(s, pat, y[1], y[2], y[3], y[4])
           => (f[y] <=> Promised(s, pat, y[1], y[2], y[3], y[4]))
  PROVE  f[x] <=> Promised(s, pat, x[1], x[2], x[3], x[4])
<1> DEFINE i == x[1]
           j == x[2]
           from == x[3]
           star == x[4]
<1>1. /\ i \in 0 .. Len(s) /\ j \in 0 .. Len(pat)
      /\ from \in 0 .. Len(s) /\ star \in 0 .. Len(pat) /\ from <= i
  BY LoopParts
<1>2. f[x] = IF i = Len(s) THEN OnlyPercentsLeft(pat, j)
             ELSE IF j < Len(pat) /\ pat[j + 1] \in {Underscore, s[i + 1]}
                  THEN f[Advanced(x)]
             ELSE IF j < Len(pat) /\ pat[j + 1] = Percent
                  THEN f[Starred(x)]
             ELSE star # 0 /\ f[Retried(x)]
  BY LoopStepIs
<1>3. /\ Advanced(x) = <<i + 1, j + 1, from, star>>
      /\ Starred(x) = <<i, j + 1, i, j + 1>>
      /\ Retried(x) = <<from + 1, star, from + 1, star>>
  BY DEF Advanced, Starred, Retried
<1>4. Reached(s, pat, i, j, from, star)
  OBVIOUS
<1>5. SUFFICES f[x] <=> Promised(s, pat, i, j, from, star)
  OBVIOUS
<1>6. i < Len(s) =>
        /\ j < Len(pat) =>
             /\ Advanced(x) \in LoopStates(s, pat)
             /\ StepsLeft(s, pat, Advanced(x)) < StepsLeft(s, pat, x)
             /\ Starred(x) \in LoopStates(s, pat)
             /\ StepsLeft(s, pat, Starred(x)) < StepsLeft(s, pat, x)
        /\ Retried(x) \in LoopStates(s, pat)
        /\ StepsLeft(s, pat, Retried(x)) < StepsLeft(s, pat, x)
  BY LoopEnds
<1> HIDE DEF i, j, from, star
<1>7. CASE i = Len(s)
  <2>1. f[x] <=> OnlyPercentsLeft(pat, j)
    BY <1>2, <1>7
  <2> QED  BY <1>1, <1>4, <1>7, <2>1, EndKeeps
<1>8. CASE i # Len(s)
  <2>1. i < Len(s) /\ i \in 0 .. Len(s) - 1 /\ (j < Len(pat) => j \in 0 .. Len(pat) - 1)
    BY <1>1, <1>8
  <2>2. CASE j < Len(pat) /\ pat[j + 1] \in {Underscore, s[i + 1]}
    <3>1. f[x] <=> f[Advanced(x)]
      BY <1>2, <1>8, <2>2
    <3>2. pat[j + 1] # Percent
      <4>1. i + 1 \in 1 .. Len(s)
        BY <2>1
      <4>2. Underscore # Percent
        BY DEF Underscore, Percent
      <4> QED  BY <2>2, <4>1, <4>2
    <3>3. /\ Reached(s, pat, i + 1, j + 1, from, star)
          /\ Promised(s, pat, i, j, from, star) <=> Promised(s, pat, i + 1, j + 1, from, star)
      BY <1>1, <1>4, <2>1, <2>2, <3>2, CharacterKeeps
    <3> DEFINE y == Advanced(x)
    <3>4. y[1] = i + 1 /\ y[2] = j + 1 /\ y[3] = from /\ y[4] = star
      BY <1>3
    <3>5. y \in LoopStates(s, pat) /\ StepsLeft(s, pat, y) < StepsLeft(s, pat, x)
      BY <1>6, <2>1, <2>2
    <3> HIDE DEF y
    <3>6. f[y] <=> Promised(s, pat, y[1], y[2], y[3], y[4])
      BY <3>3, <3>4, <3>5
    <3>7. f[y] <=> Promised(s, pat, i + 1, j + 1, from, star)
      BY <3>4, <3>6
    <3> QED  BY <3>1, <3>3, <3>7 DEF y
  <2>3. CASE /\ ~(j < Len(pat) /\ pat[j + 1] \in {Underscore, s[i + 1]})
             /\ j < Len(pat) /\ pat[j + 1] = Percent
    <3>1. f[x] <=> f[Starred(x)]
      BY <1>2, <1>8, <2>3
    <3>3. /\ Reached(s, pat, i, j + 1, i, j + 1)
          /\ Promised(s, pat, i, j, from, star) <=> Promised(s, pat, i, j + 1, i, j + 1)
      BY <1>1, <1>4, <2>1, <2>3, PercentKeeps
    <3> DEFINE y == Starred(x)
    <3>4. y[1] = i /\ y[2] = j + 1 /\ y[3] = i /\ y[4] = j + 1
      BY <1>3
    <3>5. y \in LoopStates(s, pat) /\ StepsLeft(s, pat, y) < StepsLeft(s, pat, x)
      BY <1>6, <2>1, <2>3
    <3> HIDE DEF y
    <3>6. f[y] <=> Promised(s, pat, y[1], y[2], y[3], y[4])
      BY <3>3, <3>4, <3>5
    <3>7. f[y] <=> Promised(s, pat, i, j + 1, i, j + 1)
      BY <3>4, <3>6
    <3> QED  BY <3>1, <3>3, <3>7 DEF y
  <2>4. CASE /\ ~(j < Len(pat) /\ pat[j + 1] \in {Underscore, s[i + 1]})
             /\ ~(j < Len(pat) /\ pat[j + 1] = Percent)
    <3>1. f[x] <=> star # 0 /\ f[Retried(x)]
      BY <1>2, <1>8, <2>4
    <3>2. j < Len(pat) => pat[j + 1] # Percent /\ pat[j + 1] \notin {Underscore, s[i + 1]}
      BY <2>4
    <3>3. IF star = 0 THEN ~Promised(s, pat, i, j, from, star)
          ELSE /\ Reached(s, pat, from + 1, star, from + 1, star)
               /\ Promised(s, pat, i, j, from, star) <=>
                    Promised(s, pat, from + 1, star, from + 1, star)
      BY <1>1, <1>4, <2>1, <3>2, RetryKeeps
    <3>4. CASE star = 0
      BY <3>1, <3>3, <3>4
    <3>5. CASE star # 0
      <4> DEFINE y == Retried(x)
      <4>1. y[1] = from + 1 /\ y[2] = star /\ y[3] = from + 1 /\ y[4] = star
        BY <1>3
      <4>2. y \in LoopStates(s, pat) /\ StepsLeft(s, pat, y) < StepsLeft(s, pat, x)
        BY <1>6, <2>1
      <4> HIDE DEF y
      <4>3. Reached(s, pat, y[1], y[2], y[3], y[4])
        BY <3>3, <3>5, <4>1
      <4>4. f[y] <=> Promised(s, pat, y[1], y[2], y[3], y[4])
        BY <4>2, <4>3
      <4>5. f[y] <=> Promised(s, pat, from + 1, star, from + 1, star)
        BY <4>1, <4>4
      <4> QED  BY <3>1, <3>3, <3>5, <4>5 DEF y
    <3> QED  BY <3>4, <3>5
  <2> QED  BY <2>2, <2>3, <2>4
<1> QED  BY <1>7, <1>8

LEMMA LoopKeeps ==
  ASSUME NEW s \in Seq(Nat), NEW pat \in Seq(Nat), \A q \in 1 .. Len(s) : s[q] # Percent,
         NEW f, \A x \in LoopStates(s, pat) : f[x] = LoopStep(s, pat, f, x)
  PROVE  \A x \in LoopStates(s, pat) :
           Reached(s, pat, x[1], x[2], x[3], x[4]) =>
             (f[x] <=> Promised(s, pat, x[1], x[2], x[3], x[4]))
<1> DEFINE N == Len(s) * (Len(pat) + 1) + Len(pat)
           L == LoopStates(s, pat)
           S(x) == StepsLeft(s, pat, x)
           Kept(x) == Reached(s, pat, x[1], x[2], x[3], x[4]) =>
                        (f[x] <=> Promised(s, pat, x[1], x[2], x[3], x[4]))
           G == {r \in 0 .. N + 1 : \A x \in L : S(x) < r => Kept(x)}
<1>1. \A x \in L : S(x) \in Nat /\ S(x) <= N
  BY LoopParts
<1>2. N \in Nat /\ N + 1 \in Nat
  <2>1. <<0, 0, 0, 0>> \in L
    BY DEF LoopStates
  <2>2. N \in Nat
    BY <2>1, LoopParts
  <2> HIDE DEF N
  <2> QED  BY <2>2
<1> HIDE DEF N
<1>3. 0 \in G
  <2> HIDE DEF S, Kept
  <2> QED  BY <1>1, <1>2
<1>4. ASSUME NEW r \in 1 .. N + 1, r - 1 \in G
      PROVE  r \in G
  <2>1. ASSUME NEW x \in L, S(x) < r
        PROVE  Kept(x)
    <3>1. \A y \in L : S(y) < S(x) => S(y) < r - 1
      <4> HIDE DEF S
      <4> QED  BY <1>1, <1>2, <2>1
    <3>2. \A y \in L : S(y) < S(x) => Kept(y)
      <4> HIDE DEF S, Kept
      <4> QED  BY <1>4, <3>1
    <3>3. SUFFICES ASSUME Reached(s, pat, x[1], x[2], x[3], x[4])
                   PROVE  f[x] <=> Promised(s, pat, x[1], x[2], x[3], x[4])
      OBVIOUS
    <3>4. \A y \in LoopStates(s, pat) :
            /\ StepsLeft(s, pat, y) < StepsLeft(s, pat, x)
            /\ Reached(s, pat, y[1], y[2], y[3], y[4])
            => (f[y] <=> Promised(s, pat, y[1], y[2], y[3], y[4]))
      BY <3>2
    <3>5. f[x] = LoopStep(s, pat, f, x) /\ x \in LoopStates(s, pat)
      OBVIOUS
    <3> QED  BY <3>3, <3>4, <3>5, LoopStepKeeps
  <2> HIDE DEF S, Kept
  <2> QED  BY <2>1
<1>5. \A r \in 0 .. N + 1 : r \in G
  <2> HIDE DEF G
  <2> QED  BY <1>2, <1>3, <1>4, UpTo
<1>6. \A x \in L : Kept(x)
  <2>1. N + 1 \in G
    <3> HIDE DEF G
    <3> QED  BY <1>2, <1>5
  <2> HIDE DEF S, Kept
  <2> QED  BY <1>1, <1>2, <2>1
<1> QED  BY <1>6

\* like_match misses no match and finds no other: a string that has no % in it.
LEMMA LikeLoopMatches ==
  ASSUME NEW s \in Seq(Nat), NEW pat \in Seq(Nat), Percent \notin ToSet(s)
  PROVE  LikeLoop(s, pat) <=> Matches(s, pat)
<1> DEFINE Solves(f) ==
             f = [x \in LoopStates(s, pat) |->
                    LET i == x[1]
                        j == x[2]
                        from == x[3]
                        star == x[4]
                    IN  IF i = Len(s) THEN OnlyPercentsLeft(pat, j)
                        ELSE IF j < Len(pat) /\ pat[j + 1] \in {Underscore, s[i + 1]}
                             THEN f[<<i + 1, j + 1, from, star>>]
                        ELSE IF j < Len(pat) /\ pat[j + 1] = Percent
                             THEN f[<<i, j + 1, i, j + 1>>]
                        ELSE star # 0 /\ f[<<from + 1, star, from + 1, star>>]]
           matches[x \in LoopStates(s, pat)] ==
             LET i == x[1]
                 j == x[2]
                 from == x[3]
                 star == x[4]
             IN  IF i = Len(s) THEN OnlyPercentsLeft(pat, j)
                 ELSE IF j < Len(pat) /\ pat[j + 1] \in {Underscore, s[i + 1]}
                      THEN matches[<<i + 1, j + 1, from, star>>]
                 ELSE IF j < Len(pat) /\ pat[j + 1] = Percent
                      THEN matches[<<i, j + 1, i, j + 1>>]
                 ELSE star # 0 /\ matches[<<from + 1, star, from + 1, star>>]
<1>1. \E f : Solves(f)
  <2>1. PICK f : f = [x \in LoopStates(s, pat) |-> LoopStep(s, pat, f, x)]
    BY LoopResults
  <2> QED  BY <2>1 DEF LoopStep
<1>2. Solves(matches)
  BY <1>1
<1>3. LikeLoop(s, pat) = matches[<<0, 0, 0, 0>>]
  BY DEF LikeLoop
<1> HIDE DEF matches
<1>4. \A x \in LoopStates(s, pat) : matches[x] = LoopStep(s, pat, matches, x)
  BY <1>2 DEF LoopStep
<1> DEFINE x == <<0, 0, 0, 0>>
<1>5. x[1] = 0 /\ x[2] = 0 /\ x[3] = 0 /\ x[4] = 0
  OBVIOUS
<1>6. x \in LoopStates(s, pat)
  BY DEF LoopStates
<1>7. \A q \in 1 .. Len(s) : s[q] # Percent
  BY DEF ToSet
<1> HIDE DEF x
<1>8. Reached(s, pat, x[1], x[2], x[3], x[4])
  BY <1>5 DEF Reached
<1>9. matches[x] <=> Promised(s, pat, x[1], x[2], x[3], x[4])
  BY <1>4, <1>6, <1>7, <1>8, LoopKeeps
<1>10. Promised(s, pat, x[1], x[2], x[3], x[4]) <=> MatchesFrom(s, pat, 0, 0)
  BY <1>5 DEF Promised
<1> QED  BY <1>3, <1>9, <1>10, MatchesAll DEF x

\* What evaluate_with_row compares for `column LIKE string`: a symbol of the
\* pattern is taken for its string again.
LEMMA LikeOfRow ==
  ASSUME IInv, NEW e \in Likes, NEW p \in Positions(table)
  PROVE  EvaluateWithRow(e, p) =
           Boolean(LikeMatch(Resolved(table.data[p][Nodes[Nodes[e].left].name]),
                             Nodes[Nodes[e].right].value))
<1> DEFINE n == Nodes[e]
           c == Nodes[n.left].name
           cell == table.data[p][c]
           lit == Nodes[n.right].value
           sides == Comparable(cell, lit)
<1>1. /\ e \in Expressions /\ n.node = "binary" /\ n.op = "LIKE"
      /\ Nodes[n.left].node = "column" /\ c \in Cols
      /\ Nodes[n.right].node = "literal" /\ IsString(lit)
  BY DEF Likes, IsLike
<1>2. n.left \in Expressions /\ n.right \in Expressions
  BY <1>1, PartsBefore
<1>3. EvaluateWithRow(n.left, p) = cell /\ EvaluateWithRow(n.right, p) = lit
  <2>1. EvaluateWithRow(n.left, p) = cell
    BY <1>1, <1>2, RowParts
  <2>2. EvaluateWithRow(n.right, p) = lit
    BY <1>1, <1>2, RowParts
  <2> QED  BY <2>1, <2>2
<1>4. EvaluateWithRow(e, p) = ApplyToRow("LIKE", cell, lit)
  <2>1. EvaluateWithRow(e, p) =
          ApplyToRow(n.op, EvaluateWithRow(n.left, p), EvaluateWithRow(n.right, p))
    BY <1>1, RowParts
  <2> QED  BY <1>1, <1>3, <2>1
<1>5. IF cell.type = "interned"
      THEN Resolved(cell) = String(pool[cell.symbol + 1])
      ELSE Resolved(cell) = cell /\ cell.type # "string"
  BY <1>1, ResolvedCell
<1>6. lit.type = "string" /\ lit = String(lit.chars)
  BY <1>1 DEF IsString
<1>7. PoolInv(pool)
  BY DEF IInv
<1> HIDE DEF cell, lit, n, c
<1>8. Resolved(Resolved(cell)) = Resolved(cell) /\ Resolved(lit) = lit
  BY <1>5, <1>6, Constructors DEF Resolved
<1>9. Resolved(sides[1]) = Resolved(cell) /\ Resolved(sides[2]) = lit
  <2>1. CASE cell.type = "interned" /\ Pooled(lit.chars)
    <3> DEFINE k == SymbolOf(pool, lit.chars)
    <3>1. pool[k + 1] = lit.chars
      BY <1>7, <2>1, SymbolStands DEF Pooled
    <3>2. sides = <<cell, InternedString(k)>>
      BY <1>6, <2>1 DEF Comparable
    <3> HIDE DEF k
    <3>3. Resolved(InternedString(k)) = String(pool[k + 1])
      BY Constructors DEF Resolved
    <3> QED  BY <1>6, <3>1, <3>2, <3>3
  <2>2. CASE cell.type = "interned" /\ ~Pooled(lit.chars)
    <3>1. sides = <<Resolved(cell), lit>>
      BY <1>6, <2>2 DEF Comparable
    <3> QED  BY <1>8, <3>1
  <2>3. CASE cell.type # "interned"
    <3>1. sides = <<cell, lit>>
      BY <1>5, <1>6, <2>3 DEF Comparable
    <3> QED  BY <1>8, <3>1
  <2> QED  BY <2>1, <2>2, <2>3
<1>10. ApplyToRow("LIKE", cell, lit) = Apply("LIKE", Resolved(cell), lit)
  BY <1>9 DEF ApplyToRow
<1>11. Apply("LIKE", Resolved(cell), lit) = Boolean(LikeMatch(Resolved(cell), lit))
  BY DEF Apply
<1> QED  BY <1>4, <1>10, <1>11 DEF cell, lit, n, c

\* `column LIKE string` has the rows whose string, looked up in the pool,
\* matches the pattern.
LEMMA LikeMeans ==
  ASSUME IInv, NEW e \in Likes, NEW p \in Positions(table)
  PROVE  LET v   == Resolved(table.data[p][Nodes[Nodes[e].left].name])
             pat == Nodes[Nodes[e].right].value.chars
         IN  IF v.type # "string" THEN ~IsTrue(e, p)
             ELSE Percent \in ToSet(v.chars) \/ (IsTrue(e, p) <=> Matches(v.chars, pat))
<1> DEFINE c == Nodes[Nodes[e].left].name
           cell == table.data[p][c]
           v == Resolved(cell)
           lit == Nodes[Nodes[e].right].value
           found == LikeMatch(v, lit)
<1>1. EvaluateWithRow(e, p) = Boolean(found)
  BY LikeOfRow
<1>2. c \in Cols /\ IsString(lit)
  BY DEF Likes, IsLike
<1>3. IF cell.type = "interned"
      THEN v = String(pool[cell.symbol + 1]) /\ pool[cell.symbol + 1] \in Texts
      ELSE v = cell /\ cell.type # "string"
  BY <1>2, ResolvedCell
<1> HIDE DEF c, cell, v, lit
<1>4. found \in BOOLEAN /\ (found <=> /\ v.type = "string" /\ lit.type = "string"
                                      /\ LikeLoop(v.chars, lit.chars))
  BY DEF LikeMatch
<1>5. v.type = "string" => v.chars \in Seq(Nat)
  BY <1>3, ValuesAssumption, Constructors
<1>6. lit.type = "string" /\ lit.chars \in Seq(Nat)
  BY <1>2 DEF IsString
<1> HIDE DEF found
<1>7. IsTrue(e, p) <=> found
  BY <1>1, <1>4, BooleanTruth DEF IsTrue
<1>8. v.type = "string" /\ Percent \notin ToSet(v.chars) =>
        (LikeLoop(v.chars, lit.chars) <=> Matches(v.chars, lit.chars))
  BY <1>5, <1>6, LikeLoopMatches
<1>9. IF v.type # "string" THEN ~IsTrue(e, p)
      ELSE Percent \in ToSet(v.chars) \/ (IsTrue(e, p) <=> Matches(v.chars, lit.chars))
  BY <1>4, <1>6, <1>7, <1>8
<1> QED  BY <1>9 DEF v, cell, c, lit

\* like_match, on the strings the cells stand for, finds the rows whose string
\* can be given out to the pattern: going back to the last % misses none.
THEOREM LikeIsSound == SqlSpec => []LikeSound
<1>1. IInv => LikeSound
  BY LikeMeans DEF LikeSound
<1> QED  BY <1>1, QueriesInv, PTL

-----------------------------------------------------------------------------
(* The readers *)

\* There are no more rows than ids that were given: each row has one of its own.
LEMMA RowCount ==
  ASSUME IInv
  PROVE  Len(table.ids) \in Nat /\ Len(table.ids) <= AutoLimit /\ Positions(table) = 1 .. Len(table.ids)
<1> DEFINE n == Len(table.ids)
           k == table.nextId
           f == [p \in 1 .. n |-> table.ids[p]]
<1>1. Inv(table) /\ Owned(table, {}) /\ RowsInv(table, pool)
  BY DEF IInv, TableInv
<1>2. n \in Nat /\ k \in Nat /\ k <= AutoLimit /\ Positions(table) = 1 .. n
  BY <1>1, Fields DEF Inv
<1> HIDE DEF n
<1>3. \A p \in 1 .. n : table.ids[p] \in 0 .. k - 1
  <2>1. \A p \in 1 .. n : table.ids[p] \in Nat /\ table.ids[p] < k
    BY <1>1, <1>2 DEF RowsInv, Owned
  <2> HIDE DEF k
  <2> QED  BY <1>2, <2>1
<1>4. \A p, q \in 1 .. n : table.ids[p] = table.ids[q] => p = q
  <2>1. \A p \in 1 .. n : table.ids[p] \notin {}
    OBVIOUS
  <2> QED  BY <1>1, <1>2, <2>1, OwnedOnce
<1>5. f \in Injection(1 .. n, 0 .. k - 1)
  BY <1>3, <1>4 DEF Injection, IsInjective
<1> HIDE DEF k, f
<1>6. IsFiniteSet(0 .. k - 1) /\ Cardinality(0 .. k - 1) = k
  BY <1>2, FS_Interval
<1>7. Cardinality(1 .. n) = n
  BY <1>2, FS_Interval
<1>8. Cardinality(1 .. n) <= Cardinality(0 .. k - 1)
  BY <1>5, <1>6, FS_Injection
<1>9. n <= AutoLimit
  BY <1>2, <1>6, <1>7, <1>8, AutoLimitAssumption
<1> QED  BY <1>2, <1>9 DEF n

\* p is where the row with the id is, 0 when there is none.
IsRowOf(t, id, p) ==
  IF p = 0 THEN \A q \in Positions(t) : t.ids[q] # id
  ELSE p \in Positions(t) /\ \A q \in Positions(t) : t.ids[q] = id <=> q = p

LEMMA LookupFinds ==
  ASSUME NEW t, Inv(t), Owned(t, {}), NEW id \in Id
  PROVE  Get(t, id) = GetIndex(t, id) /\ IsRowOf(t, id, GetIndex(t, id))
<1> DEFINE p == GetIndex(t, id)
<1>1. Get(t, id) = p /\ (p # 0 => p \in Positions(t) /\ t.ids[p] = id)
  BY GetIndexFinds
<1>2. \A q \in Positions(t) : t.ids[q] \notin {}
  OBVIOUS
<1>3. ASSUME NEW q \in Positions(t), t.ids[q] = id
      PROVE  p = q /\ q # 0
  <2>1. p = q
    BY <1>2, <1>3, OwnedFound
  <2> QED  BY <2>1 DEF Positions
<1> HIDE DEF p
<1> QED  BY <1>1, <1>3 DEF p, IsRowOf

\* The row is found with id_map and without, and while it is being filled.
LEMMA FoundById ==
  ASSUME IInv, NEW id \in Id
  PROVE  /\ IsRowOf(table, id, GetIndex(table, id))
         /\ Get(table, id) = GetIndex(table, id)
         /\ Get(LeaveSequential(table), id) = GetIndex(table, id)
<1> DEFINE w == LeaveSequential(table)
           p == GetIndex(table, id)
           q == GetIndex(w, id)
<1>1. Inv(table) /\ Owned(table, {})
  BY DEF IInv, TableInv
<1>2. Inv(w) /\ Owned(w, {}) /\ w.ids = table.ids
  BY <1>1, LeaveSequentialInv, LeaveSequentialOwned
<1>3. Get(table, id) = p /\ IsRowOf(table, id, p)
  BY <1>1, LookupFinds
<1>4. Get(w, id) = q /\ IsRowOf(w, id, q)
  BY <1>2, LookupFinds
<1>5. IsRowOf(table, id, q)
  BY <1>2, <1>4 DEF IsRowOf, Positions
<1> HIDE DEF p, q, w
<1>6. p = q
  BY <1>3, <1>5 DEF IsRowOf
<1> QED  BY <1>3, <1>4, <1>6 DEF p, w

LEMMA SingleRange ==
  ASSUME NEW x
  PROVE  Range(<<x>>) = {x} /\ Range(<<>>) = {}
BY DEF Range

\* By id: get_row_by_id, and the first WHERE id = n of an executor.
LEMMA ByIdReads ==
  ASSUME IInv, NEW id \in Id
  PROVE  LET rows == {RowToJson(p) : p \in {q \in Positions(table) : table.ids[q] = id}}
         IN  Range(GetRowById(id)) = rows /\ {r.cells : r \in rows} = Range(FirstById(id))
<1> DEFINE p == GetIndex(table, id)
           S == {q \in Positions(table) : table.ids[q] = id}
           rows == {RowToJson(q) : q \in S}
<1>1. IsRowOf(table, id, p) /\ Get(LeaveSequential(table), id) = p
  BY FoundById
<1>2. /\ GetRowById(id) = IF p = 0 THEN <<>> ELSE <<RowToJson(p)>>
      /\ FirstById(id) = IF p = 0 THEN <<>> ELSE <<StarRow(p)>>
  BY <1>1 DEF GetRowById, FirstById
<1> HIDE DEF p
<1>3. S = IF p = 0 THEN {} ELSE {p}
  BY <1>1 DEF IsRowOf
<1> HIDE DEF S
<1>4. CASE p = 0
  <2>1. rows = {} /\ {r.cells : r \in rows} = {}
    BY <1>3, <1>4
  <2> QED  BY <1>2, <1>4, <2>1, SingleRange DEF S
<1>5. CASE p # 0
  <2>1. rows = {RowToJson(p)}
    BY <1>3, <1>5
  <2>2. RowToJson(p).cells = StarRow(p)
    BY DEF RowToJson
  <2>3. {r.cells : r \in rows} = {StarRow(p)}
    <3> HIDE DEF rows
    <3> QED  BY <2>1, <2>2
  <2> QED  BY <1>2, <1>5, <2>1, <2>3, SingleRange DEF S
<1> QED  BY <1>4, <1>5

\* The rows of a condition that names an id.
LEMMA NamedMeans ==
  ASSUME IInv, NEW e \in Conditions, NamesId(e)
  PROVE  LET n == EqLiteral(e)[2].n
         IN  /\ Meaning(e) = {q \in Positions(table) : table.ids[q] = n}
             /\ DirectId(e) = Meaning(e)
<1> DEFINE v == EqLiteral(e)[2]
           n == v.n
<1>1. EqLiteral(e) # <<>> /\ EqLiteral(e)[1] = "id" /\ v.type = "integer"
  BY DEF NamesId
<1>2. v = Integer(n)
  <2>1. IsLiteral(v)
    BY <1>1, EqMeaning
  <2> QED  BY <1>1, <2>1, Constructors DEF IsLiteral, IsString, IsCell
<1>3. \A q : Holds(e, q) <=> Integer(table.ids[q]) = v
  BY <1>1, EqMeaning, ColumnTerm, RowsAssumption
<1>4. \A i : Integer(i) = v <=> i = n
  BY <1>2, Constructors
<1>5. Meaning(e) = {q \in Positions(table) : table.ids[q] = n}
  BY <1>3, <1>4 DEF Meaning
<1>6. DirectId(e) = Meaning(e)
  <2>1. CASE DirectId(e) # {}
    BY <2>1, DirectMeans
  <2>2. CASE DirectId(e) = {}
    <3>1. ASSUME NEW q \in Positions(table), table.ids[q] = n
          PROVE  FALSE
      <4>1. n \in Id /\ Inv(table)
        BY <3>1, Fields DEF IInv, TableInv
      <4>2. DirectId(e) = {Get(table, n)} \ {0}
        BY <1>1, <4>1 DEF DirectId
      <4>3. IsRowOf(table, n, Get(table, n))
        BY <4>1, FoundById
      <4>4. Get(table, n) # 0
        BY <3>1, <4>3 DEF IsRowOf
      <4> QED  BY <2>2, <4>2, <4>4
    <3> QED  BY <1>5, <2>2, <3>1
  <2> QED  BY <2>1, <2>2
<1> QED  BY <1>5, <1>6

\* The first query of an executor answers as the ones after it.
LEMMA FirstAsLater ==
  ASSUME IInv, NEW id \in Id, NEW e \in Conditions, NamesId(e), EqLiteral(e)[2].n = id
  PROVE  FirstById(id) = Answer(<<>>, SetToSeq(Where(e)))
<1> DEFINE p == GetIndex(table, id)
           S == {q \in Positions(table) : table.ids[q] = id}
           rows == SetToSeq(S)
<1>1. Where(e) = S
  BY NamedMeans, WhereMeans
<1>2. IsRowOf(table, id, p) /\ Get(LeaveSequential(table), id) = p
  BY FoundById
<1>3. FirstById(id) = IF p = 0 THEN <<>> ELSE <<StarRow(p)>>
  BY <1>2 DEF FirstById
<1> HIDE DEF p
<1>4. S = IF p = 0 THEN {} ELSE {p}
  BY <1>2 DEF IsRowOf
<1> HIDE DEF S
<1>5. Answer(<<>>, rows) = [i \in DOMAIN rows |-> StarRow(rows[i])]
  BY DEF Answer
<1>6. CASE p = 0
  <2>1. IsFiniteSet({}) /\ Cardinality({}) = 0
    BY FS_EmptySet
  <2>2. rows \in Seq(S) /\ Len(rows) = 0
    BY <1>4, <1>6, <2>1, SetToSeqProperties
  <2> HIDE DEF rows
  <2>3. [i \in DOMAIN rows |-> StarRow(rows[i])] = <<>>
    BY <2>2
  <2> QED  BY <1>1, <1>3, <1>5, <1>6, <2>3 DEF rows
<1>7. CASE p # 0
  <2>1. IsFiniteSet({p}) /\ Cardinality({p}) = 1
    BY FS_Singleton
  <2>2. rows \in Seq(S) /\ Len(rows) = 1
    BY <1>4, <1>7, <2>1, SetToSeqProperties
  <2> HIDE DEF rows
  <2>3. DOMAIN rows = 1 .. 1 /\ rows[1] = p
    BY <1>4, <1>7, <2>2
  <2>4. [i \in DOMAIN rows |-> StarRow(rows[i])] = <<StarRow(p)>>
    BY <2>3
  <2> QED  BY <1>1, <1>3, <1>5, <1>7, <2>4 DEF rows
<1> QED  BY <1>6, <1>7

\* By a value of a column: the id found leads back to the row it was found for.
LEMMA ByColumnReads ==
  ASSUME IInv, NEW c \in Cols, NEW v, IsLiteral(v)
  PROVE  GetRowByColumn(c, v) =
           {RowToJson(p) : p \in {q \in Positions(table) : Resolved(table.data[q][c]) = v}}
<1> DEFINE found == {q \in Positions(table) : Resolved(table.data[q][c]) = v}
<1>1. FindByColumn(c, v) = found
  <2>1. FindByColumn(c, v) = {p \in Positions(table) : Term(Column(c), p) = v}
    BY FindsColumn
  <2> QED  BY <2>1, ColumnTerm
<1>2. ASSUME NEW p \in found
      PROVE  RowFound(table.ids[p]) = RowToJson(p)
  <2>1. p \in Positions(table) /\ table.ids[p] \in Id /\ p # 0
    BY Fields DEF IInv, TableInv, Positions
  <2>2. IsRowOf(table, table.ids[p], GetIndex(table, table.ids[p]))
    BY <2>1, FoundById
  <2>3. GetIndex(table, table.ids[p]) = p
    BY <2>1, <2>2 DEF IsRowOf
  <2> QED  BY <2>1, <2>3 DEF RowFound
<1>3. GetRowByColumn(c, v) = {RowFound(id) : id \in {table.ids[p] : p \in found}}
  BY <1>1 DEF GetRowByColumn, FindBy
<1> HIDE DEF found
<1>4. GetRowByColumn(c, v) = {RowToJson(p) : p \in found}
  BY <1>2, <1>3
<1> QED  BY <1>4 DEF found

\* What callers write is a literal.
LEMMA WrittenIsLiteral ==
  ASSUME NEW v \in Written
  PROVE  IsLiteral(v)
<1>1. CASE v \in Values /\ v.type # "interned"
  BY <1>1, ValuesAssumption DEF IsLiteral
<1>2. CASE \E s \in Texts : v = String(s)
  BY <1>2, ValuesAssumption, Constructors DEF IsLiteral, IsString
<1> QED  BY <1>1, <1>2 DEF Written

LEMMA WrittenLiteral ==
  ASSUME NEW row \in Rows, NEW c \in Cols
  PROVE  IsLiteral(row[c])
BY RowsAssumption, WrittenIsLiteral

\* All positions in their order are 1, 2, ...
LEMMA AscendingAll ==
  ASSUME NEW n \in Nat
  PROVE  Ascending(1 .. n) = [p \in 1 .. n |-> p]
<1> DEFINE f == Ascending(1 .. n)
<1>1. Cardinality(1 .. n) = n
  BY FS_Interval
<1>2. /\ f \in Seq(1 .. n) /\ Len(f) = n
      /\ \A i, j \in 1 .. n : i < j => f[i] < f[j]
      /\ \A x \in 1 .. n : \E i \in 1 .. n : f[i] = x
  BY <1>1, AscendingProperties
<1> HIDE DEF f
<1>3. DOMAIN f = 1 .. n /\ f = [p \in 1 .. n |-> f[p]] /\ \A p \in 1 .. n : f[p] \in 1 .. n
  BY <1>2
<1> DEFINE G == {m \in 1 .. n : f[m] = m}
<1>4. ASSUME NEW m \in 1 .. n, \A k \in 1 .. m - 1 : k \in G
      PROVE  m \in G
  <2>1. \A k \in 1 .. m - 1 : f[k] = k
    BY <1>4
  <2>2. PICK i \in 1 .. n : f[i] = m
    BY <1>2
  <2>3. ~(i < m)
    BY <2>1, <2>2
  <2>4. ~(f[m] < m)
    <3> SUFFICES ASSUME f[m] < m  PROVE FALSE
      OBVIOUS
    <3>1. f[m] \in 1 .. m - 1 /\ f[m] \in 1 .. n
      BY <1>3
    <3>2. f[f[m]] = f[m]
      BY <2>1, <3>1
    <3>3. f[f[m]] < f[m]
      BY <1>2, <3>1
    <3> QED  BY <3>1, <3>2, <3>3
  <2>5. i = m
    <3> SUFFICES ASSUME m < i  PROVE FALSE
      BY <2>3
    <3>1. f[m] < f[i]
      BY <1>2
    <3> QED  BY <1>3, <2>2, <2>4, <3>1
  <2> QED  BY <2>2, <2>5
<1>5. \A m \in 1 .. n : m \in G
  <2> HIDE DEF G
  <2> QED  BY <1>4, AllBefore
<1>6. \A m \in 1 .. n : f[m] = m
  BY <1>5
<1> QED  BY <1>3, <1>6 DEF f

\* A column read as a whole, and through a condition.
LEMMA ColumnReads ==
  ASSUME IInv, NEW c \in Cols
  PROVE  /\ ExportI64(c) = ExecuteI64(c, NoClause)
         /\ \A clause \in Clauses :
              LET rows == Ascending(Meaning(clause))
              IN  ExecuteI64(c, clause) = [i \in DOMAIN rows |-> ExportI64(c)[rows[i]]]
<1> DEFINE n == Len(table.ids)
<1>1. n \in Nat /\ Positions(table) = 1 .. n
  BY RowCount
<1> HIDE DEF n
<1>2. ExportI64(c) = ExecuteI64(c, NoClause)
  <2> DEFINE rows == Ascending(Positions(table))
  <2>1. ExecuteI64(c, NoClause) = [i \in DOMAIN rows |-> IntegerOr0(table.data[rows[i]][c])]
    BY DEF ExecuteI64
  <2>2. rows = [p \in 1 .. n |-> p]
    BY <1>1, AscendingAll
  <2> HIDE DEF rows
  <2>3. DOMAIN rows = 1 .. n /\ \A p \in 1 .. n : rows[p] = p
    BY <2>2
  <2> QED  BY <1>1, <2>1, <2>3 DEF ExportI64
<1>3. ASSUME NEW clause \in Clauses
      PROVE  LET rows == Ascending(Meaning(clause))
             IN  ExecuteI64(c, clause) = [i \in DOMAIN rows |-> ExportI64(c)[rows[i]]]
  <2> DEFINE rows == Ascending(Meaning(clause))
  <2>1. clause \in Conditions /\ clause # NoClause
    BY ClausesAssumption
  <2>2. (IF NamesId(clause) THEN DirectId(clause) ELSE Select(clause)) = Meaning(clause)
    BY <2>1, NamedMeans, SelectMeans
  <2>3. ExecuteI64(c, clause) = [i \in DOMAIN rows |-> IntegerOr0(table.data[rows[i]][c])]
    BY <2>1, <2>2 DEF ExecuteI64
  <2>4. \A i \in DOMAIN rows : rows[i] \in Positions(table)
    <3>1. Meaning(clause) \in SUBSET (1 .. n)
      BY <1>1 DEF Meaning
    <3>2. rows \in Seq(Meaning(clause))
      BY <1>1, <3>1, AscendingProperties
    <3> QED  BY <1>1, <3>1, <3>2
  <2> HIDE DEF rows
  <2>5. \A i \in DOMAIN rows : ExportI64(c)[rows[i]] = IntegerOr0(table.data[rows[i]][c])
    BY <2>4 DEF ExportI64
  <2>6. ExecuteI64(c, clause) = [i \in DOMAIN rows |-> ExportI64(c)[rows[i]]]
    BY <2>3, <2>5
  <2> QED  BY <2>6 DEF rows
<1> QED  BY <1>2, <1>3

\* A page of one row is the row at its offset.
LEMMA OneRowPage ==
  ASSUME IInv, NEW p \in Positions(table)
  PROVE  GetRows(1, p - 1)[1] = RowToJson(p)
<1> DEFINE n == Len(table.ids)
           rows == Page(AllRows, 1, p - 1)
           o == p - 1
<1>1. n \in Nat /\ n <= AutoLimit /\ Positions(table) = 1 .. n
  BY RowCount
<1>2. AllRows \in Seq(1 .. n) /\ Len(AllRows) = n /\ \A q \in 1 .. n : AllRows[q] = q
  BY <1>1 DEF AllRows
<1> HIDE DEF n
<1>3. o \in Nat /\ o < n /\ o + 1 = p /\ p \in 1 .. n /\ p <= MaxSize
  BY <1>1, SizesAssumption, AutoLimitAssumption
<1> HIDE DEF o
<1>4. Min({p, n}) = p
  <2>1. \A y \in {p, n} : p <= y
    BY <1>1, <1>3
  <2>2. \A x \in {p, n} : (\A y \in {p, n} : x <= y) => x = p
    BY <1>1, <1>3
  <2> QED  BY <2>1, <2>2 DEF Min
<1>5. Page(AllRows, 1, o) = SubSeq(AllRows, p, p)
  <2>1. ~(o >= Len(AllRows)) /\ ~(o + 1 > MaxSize)
    BY <1>1, <1>2, <1>3, SizesAssumption
  <2> QED  BY <1>2, <1>3, <1>4, <2>1 DEF Page
<1>6. SubSeq(AllRows, p, p)[1] = p /\ 1 \in DOMAIN SubSeq(AllRows, p, p)
  BY <1>1, <1>2, <1>3
<1>7. GetRows(1, o) = [i \in DOMAIN Page(AllRows, 1, o) |-> RowToJson(Page(AllRows, 1, o)[i])]
  BY DEF GetRows
<1>8. GetRows(1, o)[1] = RowToJson(p)
  BY <1>5, <1>6, <1>7
<1> QED  BY <1>8 DEF o

\* The pairs of a join lead to the rows they were made of.
LEMMA JoinReads ==
  ASSUME IInv, NEW u \in Others, NEW c \in Cols \ StringCols, NEW x \in HashJoinI64(c, u, c)
  PROVE  \E r \in {RowToJson(p) : p \in {q \in Positions(table) : table.ids[q] = x[1]}},
            q \in Positions(u) :
              u.ids[q] = x[2] /\ u.data[q][c] = r.cells[c]
<1>1. PICK y \in HashJoin(table, c, u, c) : x = <<table.ids[y[1]], u.ids[y[2]]>>
  BY DEF HashJoinI64
<1>2. y[1] \in Positions(table) /\ y[2] \in Positions(u)
      /\ ValueAt(table, c, y[1]) = ValueAt(u, c, y[2])
  BY JoinHolds DEF JoinExact
<1>3. table.data[y[1]][c] = u.data[y[2]][c]
  BY <1>2, RowsAssumption DEF ValueAt
<1> DEFINE r == RowToJson(y[1])
<1>4. r.cells[c] = Resolved(table.data[y[1]][c])
  BY DEF RowToJson, StarRow
<1>5. Resolved(table.data[y[1]][c]) = table.data[y[1]][c]
  BY <1>2, ResolvedCell
<1>6. r \in {RowToJson(p) : p \in {q \in Positions(table) : table.ids[q] = x[1]}}
  BY <1>1, <1>2
<1> HIDE DEF r
<1>7. u.ids[y[2]] = x[2] /\ u.data[y[2]][c] = r.cells[c]
  BY <1>1, <1>3, <1>4, <1>5
<1> QED  BY <1>2, <1>6, <1>7

LEMMA ReadersHold == IInv => ReadersAgree
<1> SUFFICES ASSUME IInv  PROVE ReadersAgree
  OBVIOUS
<1>1. ASSUME NEW c \in Cols, NEW p \in Positions(table)
      PROVE  LET v == GetRows(1, p - 1)[1].cells[c]
             IN  ExportString(c)[p] = (IF v.type = "string" THEN v.chars ELSE <<>>)
  <2>1. GetRows(1, p - 1)[1].cells[c] = Resolved(table.data[p][c])
    <3>1. GetRows(1, p - 1)[1] = RowToJson(p)
      BY OneRowPage
    <3>2. RowToJson(p).cells = StarRow(p)
      BY DEF RowToJson
    <3>3. StarRow(p)[c] = Resolved(table.data[p][c])
      BY DEF StarRow
    <3> QED  BY <3>1, <3>2, <3>3
  <2>2. ExportString(c)[p] = IF Resolved(table.data[p][c]).type = "string"
                             THEN Resolved(table.data[p][c]).chars ELSE <<>>
    BY DEF ExportString
  <2> QED  BY <2>1, <2>2
<1>2. ASSUME NEW c \in Cols, NEW row \in Rows
      PROVE  GetRowByColumn(c, row[c]) =
               {RowToJson(p) : p \in {q \in Positions(table) : Resolved(table.data[q][c]) = row[c]}}
  BY WrittenLiteral, ByColumnReads
<1> QED  BY <1>1, <1>2, ByIdReads, FirstAsLater, ColumnReads, JoinReads DEF ReadersAgree

\* Rows read with SQL, by id, by a value of a column, page by page, as a column
\* or as a side of a join are the rows that are there: the id a find gives leads
\* back to its row, and a query that fills id_map on its way answers as others.
THEOREM ReadersDoAgree == SqlSpec => []ReadersAgree
BY ReadersHold, QueriesInv, PTL

-----------------------------------------------------------------------------
(* The order of values *)

LEMMA StringLessNever ==
  ASSUME NEW s \in Seq(Nat)
  PROVE  ~StringLess(s, s)
BY DEF StringLess

LEMMA LessTransitive ==
  ASSUME NEW p \in Nat, NEW q \in Nat, NEW r \in Nat, p < q, q < r
  PROVE  p < r
OBVIOUS

LEMMA StringLessTransitive ==
  ASSUME NEW s \in Seq(Nat), NEW t \in Seq(Nat), NEW u \in Seq(Nat),
         StringLess(s, t), StringLess(t, u)
  PROVE  StringLess(s, u)
<1>1. PICK k \in 0 .. Len(s) : /\ k < Len(t) /\ \A i \in 1 .. k : s[i] = t[i]
                               /\ k = Len(s) \/ s[k + 1] < t[k + 1]
  BY DEF StringLess
<1>2. PICK l \in 0 .. Len(t) : /\ l < Len(u) /\ \A i \in 1 .. l : t[i] = u[i]
                               /\ l = Len(t) \/ t[l + 1] < u[l + 1]
  BY DEF StringLess
<1>3. CASE k < l
  <2>1. k + 1 \in 1 .. l /\ k < Len(u) /\ \A i \in 1 .. k : i \in 1 .. l
    BY <1>1, <1>2, <1>3
  <2>2. t[k + 1] = u[k + 1] /\ \A i \in 1 .. k : s[i] = u[i]
    BY <1>1, <1>2, <2>1
  <2> QED  BY <1>1, <2>1, <2>2 DEF StringLess
<1>4. CASE k = l
  <2>1. k = Len(s) \/ s[k + 1] < u[k + 1]
    <3> SUFFICES ASSUME k # Len(s)  PROVE s[k + 1] < u[k + 1]
      OBVIOUS
    <3>1. s[k + 1] < t[k + 1] /\ t[k + 1] < u[k + 1]
      BY <1>1, <1>2, <1>4
    <3>2. k + 1 \in 1 .. Len(s) /\ k + 1 \in 1 .. Len(t) /\ k + 1 \in 1 .. Len(u)
      BY <1>1, <1>2, <1>4
    <3>3. s[k + 1] \in Nat /\ t[k + 1] \in Nat /\ u[k + 1] \in Nat
      BY <3>2, ElementOfSeq
    <3> QED  BY <3>1, <3>3, LessTransitive
  <2>2. \A i \in 1 .. k : s[i] = u[i]
    <3>1. \A i \in 1 .. k : s[i] = t[i]
      BY <1>1
    <3>2. \A i \in 1 .. k : t[i] = u[i]
      BY <1>2, <1>4
    <3> QED  BY <3>1, <3>2
  <2> QED  BY <1>2, <1>4, <2>1, <2>2 DEF StringLess
<1>5. CASE l < k
  <2>1. l \in 0 .. Len(s) /\ l + 1 \in 1 .. k /\ l # Len(t) /\ \A i \in 1 .. l : i \in 1 .. k
    <3>1. Len(s) \in Nat /\ Len(t) \in Nat
      OBVIOUS
    <3>2. k \in 0 .. Len(s) /\ k < Len(t) /\ l \in 0 .. Len(t)
      BY <1>1, <1>2
    <3> QED  BY <1>5, <3>1, <3>2
  <2>2. s[l + 1] = t[l + 1] /\ t[l + 1] < u[l + 1] /\ \A i \in 1 .. l : s[i] = u[i]
    BY <1>1, <1>2, <2>1
  <2> QED  BY <1>2, <2>1, <2>2 DEF StringLess
<1> QED  BY <1>3, <1>4, <1>5

LEMMA StringLessTotal ==
  ASSUME NEW s \in Seq(Nat), NEW t \in Seq(Nat), s # t
  PROVE  StringLess(s, t) \/ StringLess(t, s)
<1> DEFINE Same(k) == k < Len(s) /\ k < Len(t) /\ s[k + 1] = t[k + 1]
           D == {k \in Nat : ~Same(k)}
<1>1. Len(s) \in Nat /\ Len(t) \in Nat
  OBVIOUS
<1>2. Len(s) \in D
  BY <1>1
<1>3. PICK k \in D : \A l \in D : k <= l
  <2>1. D \subseteq Nat
    OBVIOUS
  <2> HIDE DEF D
  <2> QED  BY <1>2, <2>1, LeastElement
<1>4. k \in Nat /\ ~Same(k)
  OBVIOUS
<1>5. ASSUME NEW i \in 1 .. k
      PROVE  i <= Len(s) /\ i <= Len(t) /\ s[i] = t[i]
  <2> DEFINE j == i - 1
  <2>1. j \in Nat /\ j < k /\ j + 1 = i
    BY <1>4
  <2> HIDE DEF j
  <2>2. j \notin D
    <3> HIDE DEF D, Same
    <3> QED  BY <1>3, <1>4, <2>1
  <2>3. Same(j)
    <3> HIDE DEF Same
    <3> QED  BY <2>1, <2>2
  <2>4. j < Len(s) /\ j < Len(t) /\ s[j + 1] = t[j + 1]
    BY <2>3
  <2>5. i <= Len(s) /\ i <= Len(t)
    BY <1>1, <2>1, <2>4
  <2> QED  BY <2>1, <2>4, <2>5
<1>6. k <= Len(s) /\ k <= Len(t)
  <2>1. CASE k = 0
    BY <1>1, <2>1
  <2>2. CASE k # 0
    <3>1. k \in 1 .. k
      BY <1>4, <2>2
    <3> QED  BY <1>5, <3>1
  <2> QED  BY <2>1, <2>2
<1>7. CASE k = Len(s)
  <2>1. Len(s) # Len(t)
    <3> SUFFICES ASSUME Len(s) = Len(t)  PROVE FALSE
      OBVIOUS
    <3>1. \A i \in 1 .. Len(s) : s[i] = t[i]
      BY <1>5, <1>7
    <3> QED  BY <3>1
  <2>2. k < Len(t) /\ k \in 0 .. Len(s)
    BY <1>1, <1>4, <1>6, <1>7, <2>1
  <2> QED  BY <1>5, <1>7, <2>2 DEF StringLess
<1>8. CASE k # Len(s) /\ k = Len(t)
  <2>1. k < Len(s) /\ k \in 0 .. Len(t)
    BY <1>1, <1>4, <1>6, <1>8
  <2> QED  BY <1>5, <1>8, <2>1 DEF StringLess
<1>9. CASE k # Len(s) /\ k # Len(t)
  <2>1. k < Len(s) /\ k < Len(t) /\ k \in 0 .. Len(s) /\ k \in 0 .. Len(t)
    BY <1>1, <1>4, <1>6, <1>9
  <2>2. s[k + 1] # t[k + 1] /\ s[k + 1] \in Nat /\ t[k + 1] \in Nat
    BY <1>4, <2>1
  <2>3. s[k + 1] < t[k + 1] \/ t[k + 1] < s[k + 1]
    BY <2>2
  <2> QED  BY <1>5, <2>1, <2>3 DEF StringLess
<1> QED  BY <1>7, <1>8, <1>9

\* Ord for Value between two values of one type.
SameTypeLess(l, r) ==
  \/ l.type = "integer" /\ l.n < r.n
  \/ l.type = "string" /\ StringLess(l.chars, r.chars)
  \/ l.type = "boolean" /\ ~l.b /\ r.b

\* What a literal is.
LEMMA LiteralKinds ==
  ASSUME NEW v, IsLiteral(v)
  PROVE  /\ v.type \in {"null", "integer", "string", "boolean"}
         /\ v.type = "null" => v = Null
         /\ v.type = "integer" => v = Integer(v.n) /\ v.n \in Int
         /\ v.type = "string" => v = String(v.chars) /\ v.chars \in Seq(Nat)
         /\ v.type = "boolean" => v = Boolean(v.b) /\ v.b \in BOOLEAN
BY Constructors DEF IsLiteral, IsString, IsCell

LEMMA ValueLessMeans ==
  ASSUME NEW l, IsLiteral(l), NEW r, IsLiteral(r)
  PROVE  /\ Rank[l.type] \in Nat
         /\ l.type = r.type <=> Rank[l.type] = Rank[r.type]
         /\ ValueLess(l, r) <=> \/ Rank[l.type] < Rank[r.type]
                                \/ (l.type = r.type /\ SameTypeLess(l, r))
<1>1. /\ l.type \in {"null", "integer", "string", "boolean"}
      /\ r.type \in {"null", "integer", "string", "boolean"}
  BY LiteralKinds
<1>2. /\ Rank["null"] = 0 /\ Rank["integer"] = 1 /\ Rank["string"] = 2 /\ Rank["boolean"] = 4
  BY DEF Rank
<1>3. Rank[l.type] \in Nat /\ (l.type = r.type <=> Rank[l.type] = Rank[r.type])
  BY <1>1, <1>2
<1> DEFINE Part == CASE l.type = "null"     -> FALSE
                     [] l.type = "integer"  -> l.n < r.n
                     [] l.type = "string"   -> StringLess(l.chars, r.chars)
                     [] l.type = "interned" -> l.symbol < r.symbol
                     [] l.type = "boolean"  -> ~l.b /\ r.b
<1>4. ValueLess(l, r) <=> Rank[l.type] < Rank[r.type] \/ (l.type = r.type /\ Part)
  BY Zenon DEF ValueLess
<1>5. CASE l.type = "null"
  <2>1. ~Part /\ ~SameTypeLess(l, r)
    BY <1>5 DEF SameTypeLess
  <2> HIDE DEF Part
  <2> QED  BY <1>3, <1>4, <2>1
<1>6. CASE l.type = "integer"
  <2>1. Part <=> SameTypeLess(l, r)
    BY <1>6 DEF SameTypeLess
  <2> HIDE DEF Part
  <2> QED  BY <1>3, <1>4, <2>1
<1>7. CASE l.type = "string"
  <2>1. Part <=> SameTypeLess(l, r)
    BY <1>7 DEF SameTypeLess
  <2> HIDE DEF Part
  <2> QED  BY <1>3, <1>4, <2>1
<1>8. CASE l.type = "boolean"
  <2>1. Part <=> SameTypeLess(l, r)
    BY <1>8 DEF SameTypeLess
  <2> HIDE DEF Part
  <2> QED  BY <1>3, <1>4, <2>1
<1> QED  BY <1>1, <1>5, <1>6, <1>7, <1>8

\* The values callers know are in a strict order.
LEMMA ValueOrder ==
  /\ \A v : IsLiteral(v) => ~ValueLess(v, v)
  /\ \A l, m, r : IsLiteral(l) /\ IsLiteral(m) /\ IsLiteral(r) /\ ValueLess(l, m) /\ ValueLess(m, r)
                    => ValueLess(l, r)
  /\ \A l, r : IsLiteral(l) /\ IsLiteral(r) /\ l # r => ValueLess(l, r) \/ ValueLess(r, l)
<1>1. ASSUME NEW v, IsLiteral(v)
      PROVE  ~ValueLess(v, v)
  <2>1. ~SameTypeLess(v, v)
    BY <1>1, LiteralKinds, StringLessNever DEF SameTypeLess
  <2> QED  BY <1>1, <2>1, ValueLessMeans
<1>2. ASSUME NEW l, NEW m, NEW r, IsLiteral(l), IsLiteral(m), IsLiteral(r),
             ValueLess(l, m), ValueLess(m, r)
      PROVE  ValueLess(l, r)
  <2> DEFINE a == Rank[l.type]
             b == Rank[m.type]
             c == Rank[r.type]
  <2>1. /\ a \in Nat /\ b \in Nat /\ c \in Nat
        /\ l.type = m.type <=> a = b
        /\ m.type = r.type <=> b = c
        /\ a < b \/ (l.type = m.type /\ SameTypeLess(l, m))
        /\ b < c \/ (m.type = r.type /\ SameTypeLess(m, r))
        /\ ValueLess(l, r) <=> a < c \/ (l.type = r.type /\ SameTypeLess(l, r))
    BY <1>2, ValueLessMeans
  <2> HIDE DEF a, b, c
  <2>2. CASE a < b \/ b < c
    <3>1. a < c
      BY <2>1, <2>2
    <3> QED  BY <2>1, <3>1
  <2>3. CASE ~(a < b) /\ ~(b < c)
    <3>1. l.type = m.type /\ m.type = r.type /\ SameTypeLess(l, m) /\ SameTypeLess(m, r)
      BY <2>1, <2>3
    <3>2. CASE l.type = "integer"
      <4>1. l.n < m.n /\ m.n < r.n /\ l.n \in Int /\ m.n \in Int /\ r.n \in Int
        BY <1>2, <3>1, <3>2, LiteralKinds DEF SameTypeLess
      <4>2. l.n < r.n
        BY <4>1
      <4> QED  BY <2>1, <3>1, <3>2, <4>2 DEF SameTypeLess
    <3>3. CASE l.type = "string"
      <4>1. /\ StringLess(l.chars, m.chars) /\ StringLess(m.chars, r.chars)
            /\ l.chars \in Seq(Nat) /\ m.chars \in Seq(Nat) /\ r.chars \in Seq(Nat)
        BY <1>2, <3>1, <3>3, LiteralKinds DEF SameTypeLess
      <4>2. StringLess(l.chars, r.chars)
        BY <4>1, StringLessTransitive
      <4> QED  BY <2>1, <3>1, <3>3, <4>2 DEF SameTypeLess
    <3>4. CASE l.type = "boolean"
      BY <3>1, <3>4 DEF SameTypeLess
    <3> QED  BY <3>1, <3>2, <3>3, <3>4 DEF SameTypeLess
  <2> QED  BY <2>2, <2>3
<1>3. ASSUME NEW l, NEW r, IsLiteral(l), IsLiteral(r), l # r
      PROVE  ValueLess(l, r) \/ ValueLess(r, l)
  <2>1. CASE l.type # r.type
    <3>1. /\ Rank[l.type] \in Nat /\ Rank[r.type] \in Nat /\ Rank[l.type] # Rank[r.type]
          /\ Rank[l.type] < Rank[r.type] => ValueLess(l, r)
          /\ Rank[r.type] < Rank[l.type] => ValueLess(r, l)
      BY <1>3, <2>1, ValueLessMeans
    <3> QED  BY <3>1
  <2>2. CASE l.type = r.type
    <3>1. SameTypeLess(l, r) \/ SameTypeLess(r, l)
      <4>1. CASE l.type = "integer"
        <5>1. l.n \in Int /\ r.n \in Int /\ l.n # r.n
          BY <1>3, <2>2, <4>1, LiteralKinds
        <5> QED  BY <2>2, <4>1, <5>1 DEF SameTypeLess
      <4>2. CASE l.type = "string"
        <5>1. l.chars \in Seq(Nat) /\ r.chars \in Seq(Nat) /\ l.chars # r.chars
          BY <1>3, <2>2, <4>2, LiteralKinds
        <5>2. StringLess(l.chars, r.chars) \/ StringLess(r.chars, l.chars)
          BY <5>1, StringLessTotal
        <5> QED  BY <2>2, <4>2, <5>2 DEF SameTypeLess
      <4>3. CASE l.type = "boolean"
        <5>1. /\ l.b \in BOOLEAN /\ l = Boolean(l.b)
              /\ r.b \in BOOLEAN /\ r = Boolean(r.b)
          BY <1>3, <2>2, <4>3, LiteralKinds
        <5>2. l.b # r.b
          BY <1>3, <5>1
        <5> QED  BY <2>2, <4>3, <5>1, <5>2 DEF SameTypeLess
      <4>4. CASE l.type = "null"
        BY <1>3, <2>2, <4>4, LiteralKinds
      <4> QED  BY <1>3, <4>1, <4>2, <4>3, <4>4, LiteralKinds
    <3> QED  BY <1>3, <2>2, <3>1, ValueLessMeans
  <2> QED  BY <2>1, <2>2
<1> QED  BY <1>1, <1>2, <1>3

-----------------------------------------------------------------------------
(* ORDER BY, LIMIT and OFFSET *)

IsStrictOrder(n, R) ==
  /\ \A i \in 1 .. n : <<i, i>> \notin R
  /\ \A i, j, k \in 1 .. n : <<i, j>> \in R /\ <<j, k>> \in R => <<i, k>> \in R
  /\ \A i, j \in 1 .. n : i # j => <<i, j>> \in R \/ <<j, i>> \in R

Arranged(s, R) == \A i, j \in DOMAIN s : i < j => <<s[i], s[j]>> \in R

\* 1, 2, ..., n can be put in any strict order: each at the place that is the
\* number of those not after it.
LEMMA SortExists ==
  ASSUME NEW n \in Nat, NEW R, IsStrictOrder(n, R)
  PROVE  \E s \in SetToSeqs(1 .. n) : Arranged(s, R)
<1> USE DEF IsStrictOrder
<1> DEFINE Upto(i) == {j \in 1 .. n : <<j, i>> \in R \/ j = i}
           rank == [i \in 1 .. n |-> Cardinality(Upto(i))]
<1>1. IsFiniteSet(1 .. n) /\ Cardinality(1 .. n) = n
  BY FS_Interval
<1>2. ASSUME NEW i \in 1 .. n
      PROVE  IsFiniteSet(Upto(i)) /\ Cardinality(Upto(i)) \in 1 .. n
  <2>1. Upto(i) \in SUBSET (1 .. n) /\ i \in Upto(i)
    OBVIOUS
  <2> HIDE DEF Upto
  <2>2. IsFiniteSet(Upto(i)) /\ Cardinality(Upto(i)) <= n
    BY <1>1, <2>1, FS_Subset
  <2>3. Cardinality(Upto(i)) \in Nat /\ Cardinality(Upto(i)) # 0
    BY <2>1, <2>2, FS_CardinalityType, FS_EmptySet
  <2> QED  BY <2>2, <2>3
<1>3. ASSUME NEW i \in 1 .. n, NEW j \in 1 .. n, <<i, j>> \in R
      PROVE  rank[i] < rank[j]
  <2>1. Upto(i) \in SUBSET Upto(j) /\ j \in Upto(j) /\ j \notin Upto(i)
    BY <1>3
  <2> HIDE DEF Upto
  <2>2. Cardinality(Upto(i)) <= Cardinality(Upto(j)) /\ Cardinality(Upto(i)) # Cardinality(Upto(j))
    BY <1>2, <2>1, FS_Subset
  <2>3. Cardinality(Upto(i)) \in Nat /\ Cardinality(Upto(j)) \in Nat
    BY <1>2
  <2> QED  BY <2>2, <2>3
<1>4. rank \in [1 .. n -> 1 .. n]
  <2> HIDE DEF Upto
  <2> QED  BY <1>2
<1> HIDE DEF rank
<1>5. \A i, j \in 1 .. n : rank[i] = rank[j] => i = j
  <2> SUFFICES ASSUME NEW i \in 1 .. n, NEW j \in 1 .. n, i # j
               PROVE  rank[i] # rank[j]
    OBVIOUS
  <2>1. rank[i] < rank[j] \/ rank[j] < rank[i]
    BY <1>3
  <2>2. rank[i] \in Nat /\ rank[j] \in Nat
    BY <1>4
  <2> QED  BY <2>1, <2>2
<1>6. \A k \in 1 .. n : \E i \in 1 .. n : rank[i] = k
  <2>1. rank \in [1 .. Cardinality(1 .. n) -> 1 .. n]
    BY <1>1, <1>4
  <2>2. \A i, j \in 1 .. Cardinality(1 .. n) : rank[i] = rank[j] => i = j
    BY <1>1, <1>5
  <2>3. Len(rank) = n /\ \A x \in 1 .. n : \E i \in 1 .. Len(rank) : rank[i] = x
    BY <1>1, <2>1, <2>2, Enumeration
  <2> QED  BY <2>3
<1> DEFINE s == [k \in 1 .. n |-> CHOOSE i \in 1 .. n : rank[i] = k]
<1>7. \A k \in 1 .. n : s[k] \in 1 .. n /\ rank[s[k]] = k
  BY <1>6
<1>8. s \in [1 .. n -> 1 .. n] /\ DOMAIN s = 1 .. n
  BY <1>7
<1> HIDE DEF s
<1>9. \A i, j \in 1 .. n : i # j => s[i] # s[j]
  BY <1>7
<1>10. s \in SetToSeqs(1 .. n)
  BY <1>1, <1>8, <1>9 DEF SetToSeqs
<1>11. ASSUME NEW i \in 1 .. n, NEW j \in 1 .. n, i < j
       PROVE  <<s[i], s[j]>> \in R
  <2>1. s[i] \in 1 .. n /\ s[j] \in 1 .. n /\ rank[s[i]] = i /\ rank[s[j]] = j /\ s[i] # s[j]
    BY <1>7, <1>11
  <2>2. <<s[j], s[i]>> \notin R
    <3>1. <<s[j], s[i]>> \in R => j < i
      BY <1>3, <2>1
    <3> QED  BY <1>11, <3>1
  <2> QED  BY <2>1, <2>2
<1> QED  BY <1>8, <1>10, <1>11 DEF Arranged

\* The rows of a clause, in an order they may come in: each of them, once.
LEMMA ArrangedRows ==
  ASSUME IInv, NEW clause \in Clauses \cup {NoClause}, NEW rows \in Arrangements(clause)
  PROVE  LET S == Taken(clause)
         IN  /\ S \in SUBSET Positions(table) /\ IsFiniteSet(S)
             /\ rows \in [1 .. Cardinality(S) -> S]
             /\ \A i, j \in 1 .. Cardinality(S) : rows[i] = rows[j] => i = j
             /\ Cardinality(S) \in Nat /\ Cardinality(S) <= AutoLimit
<1> DEFINE n == Len(table.ids)
           S == Taken(clause)
<1>1. n \in Nat /\ n <= AutoLimit /\ Positions(table) = 1 .. n
  BY RowCount
<1> HIDE DEF n
<1>2. IsFiniteSet(1 .. n) /\ Cardinality(1 .. n) = n
  BY <1>1, FS_Interval
<1>3. S \in SUBSET (1 .. n)
  BY <1>1 DEF Taken, Meaning
<1>4. IsFiniteSet(S) /\ Cardinality(S) \in Nat /\ Cardinality(S) <= AutoLimit
  <2> HIDE DEF S
  <2>1. IsFiniteSet(S) /\ Cardinality(S) <= n
    BY <1>2, <1>3, FS_Subset
  <2>2. Cardinality(S) \in Nat
    BY <2>1, FS_CardinalityType
  <2> QED  BY <1>1, <2>1, <2>2, AutoLimitAssumption
<1>5. /\ rows \in [1 .. Cardinality(S) -> S]
      /\ \A i, j \in 1 .. Cardinality(S) : rows[i] = rows[j] => i = j
  <2>1. CASE clause = NoClause
    <3>1. rows = [p \in 1 .. n |-> p] /\ S = 1 .. n
      BY <1>1, <2>1 DEF Arrangements, AllRows, Taken
    <3> HIDE DEF S
    <3> QED  BY <1>2, <3>1
  <2>2. CASE clause # NoClause
    <3>1. clause \in Conditions /\ S = Meaning(clause) /\ Where(clause) = S
      BY <2>2, ClausesAssumption, WhereMeans DEF Taken
    <3>2. rows \in SetToSeqs(S) \/ rows = Ascending(S)
      <4> HIDE DEF S
      <4> QED  BY <2>2, <3>1 DEF Arrangements
    <3> HIDE DEF S
    <3>3. CASE rows \in SetToSeqs(S)
      BY <3>3 DEF SetToSeqs
    <3>4. CASE rows = Ascending(S)
      <4>1. /\ rows \in Seq(S) /\ Len(rows) = Cardinality(S)
            /\ \A i, j \in 1 .. Len(rows) : i < j => rows[i] < rows[j]
        BY <1>1, <1>3, <3>4, AscendingProperties
      <4>2. rows \in [1 .. Cardinality(S) -> S]
        BY <4>1
      <4>3. \A i \in 1 .. Cardinality(S) : rows[i] \in Nat
        <5>1. S \in SUBSET Nat
          <6> HIDE DEF S
          <6>1. 1 .. n \in SUBSET Nat
            BY <1>1
          <6> QED  BY <1>3, <6>1
        <5> HIDE DEF S
        <5> QED  BY <4>2, <5>1
      <4>4. ASSUME NEW i \in 1 .. Cardinality(S), NEW j \in 1 .. Cardinality(S), i # j
            PROVE  rows[i] # rows[j]
        <5>1. i < j \/ j < i
          BY <1>4, <4>4
        <5>2. rows[i] < rows[j] \/ rows[j] < rows[i]
          BY <4>1, <5>1
        <5>3. rows[i] \in Nat /\ rows[j] \in Nat
          BY <4>3
        <5> QED  BY <5>2, <5>3
      <4> QED  BY <4>2, <4>4
    <3> QED  BY <3>2, <3>3, <3>4
  <2> QED  BY <2>1, <2>2
<1> QED  BY <1>1, <1>3, <1>4, <1>5

\* ORDER BY does not tell two rows apart.
Tied(ob, p, q) ==
  \/ ob.column \notin Cols
  \/ Resolved(table.data[p][ob.column]) = Resolved(table.data[q][ob.column])

\* Rows that are not before each other are tied, and those before one of two
\* tied rows are before the other.
LEMMA BeforeOrder ==
  ASSUME IInv, NEW ob \in Orders
  PROVE  /\ \A p \in Positions(table) : ~Before(ob, p, p)
         /\ \A p, q, r \in Positions(table) : Before(ob, p, q) /\ Before(ob, q, r) => Before(ob, p, r)
         /\ \A p, q \in Positions(table) : Before(ob, p, q) \/ Before(ob, q, p) \/ Tied(ob, p, q)
         /\ \A p, q, r \in Positions(table) :
              Tied(ob, p, q) => /\ Before(ob, p, r) <=> Before(ob, q, r)
                                /\ Before(ob, r, p) <=> Before(ob, r, q)
<1> DEFINE Cell(p) == Resolved(table.data[p][ob.column])
<1>1. CASE ob.column \notin Cols
  <2>1. \A p, q \in Positions(table) : ~Before(ob, p, q) /\ Tied(ob, p, q)
    BY <1>1 DEF Before, Tied
  <2> QED  BY <2>1
<1>2. CASE ob.column \in Cols
  <2>1. \A p \in Positions(table) : IsLiteral(Cell(p))
    BY <1>2, ResolvedCell, WrittenIsLiteral
  <2>2. \A p, q : Tied(ob, p, q) <=> Cell(p) = Cell(q)
    BY <1>2 DEF Tied
  <2>3. CASE ob.descending
    <3>1. \A p, q : Before(ob, p, q) <=> ValueLess(Cell(q), Cell(p))
      BY <1>2, <2>3 DEF Before
    <3> HIDE DEF Cell
    <3> QED  BY <2>1, <2>2, <3>1, ValueOrder
  <2>4. CASE ~ob.descending
    <3>1. \A p, q : Before(ob, p, q) <=> ValueLess(Cell(p), Cell(q))
      BY <1>2, <2>4 DEF Before
    <3> HIDE DEF Cell
    <3> QED  BY <2>1, <2>2, <3>1, ValueOrder
  <2> QED  BY <2>3, <2>4
<1> QED  BY <1>1, <1>2

\* The order of sort_by, which keeps tied rows as they were.
Earlier(ob, rows, i, j) ==
  \/ Before(ob, rows[i], rows[j])
  \/ ~Before(ob, rows[j], rows[i]) /\ i < j

\* What sort_by gives is the same rows in that order.
LEMMA SortedRows ==
  ASSUME IInv, NEW ob \in Orders, NEW N \in Nat, NEW rows \in [1 .. N -> Positions(table)]
  PROVE  \E order \in SetToSeqs(1 .. N) :
           /\ Sorted(rows, ob) = [k \in 1 .. N |-> rows[order[k]]]
           /\ \A i, j \in 1 .. N : i < j => Earlier(ob, rows, order[i], order[j])
<1> DEFINE R == {x \in (1 .. N) \X (1 .. N) : Earlier(ob, rows, x[1], x[2])}
<1>1. \A i, j \in 1 .. N : <<i, j>> \in R <=> Earlier(ob, rows, i, j)
  OBVIOUS
<1>2. \A i \in 1 .. N : rows[i] \in Positions(table)
  OBVIOUS
<1> HIDE DEF R
<1>3. \A i \in 1 .. N : <<i, i>> \notin R
  BY <1>1, <1>2, BeforeOrder DEF Earlier
<1>4. ASSUME NEW i \in 1 .. N, NEW j \in 1 .. N, NEW k \in 1 .. N, <<i, j>> \in R, <<j, k>> \in R
      PROVE  <<i, k>> \in R
  <2> DEFINE p == rows[i]
             q == rows[j]
             r == rows[k]
  <2>1. Earlier(ob, rows, i, j) /\ Earlier(ob, rows, j, k)
    BY <1>1, <1>4
  <2>2. /\ Before(ob, p, q) \/ (~Before(ob, q, p) /\ i < j)
        /\ Before(ob, q, r) \/ (~Before(ob, r, q) /\ j < k)
    BY <2>1 DEF Earlier
  <2>3. p \in Positions(table) /\ q \in Positions(table) /\ r \in Positions(table)
    BY <1>2
  <2>4. i < j /\ j < k => i < k
    OBVIOUS
  <2>5. Before(ob, p, r) \/ (~Before(ob, r, p) /\ i < k)
    <3> HIDE DEF p, q, r
    <3>1. CASE Before(ob, p, q) /\ Before(ob, q, r)
      BY <2>3, <3>1, BeforeOrder
    <3>2. CASE Before(ob, p, q) /\ ~Before(ob, q, r)
      <4>1. Tied(ob, q, r)
        BY <2>2, <2>3, <3>2, BeforeOrder
      <4> QED  BY <2>3, <3>2, <4>1, BeforeOrder
    <3>3. CASE ~Before(ob, p, q)
      <4>1. Tied(ob, p, q)
        BY <2>2, <2>3, <3>3, BeforeOrder
      <4>2. Before(ob, p, r) <=> Before(ob, q, r)
        BY <2>3, <4>1, BeforeOrder
      <4>3. Before(ob, r, p) <=> Before(ob, r, q)
        BY <2>3, <4>1, BeforeOrder
      <4> QED  BY <2>2, <2>4, <3>3, <4>2, <4>3
    <3> QED  BY <3>1, <3>2, <3>3
  <2>6. Earlier(ob, rows, i, k)
    BY <2>5 DEF Earlier
  <2> QED  BY <1>1, <2>6
<1>5. ASSUME NEW i \in 1 .. N, NEW j \in 1 .. N, i # j
      PROVE  <<i, j>> \in R \/ <<j, i>> \in R
  <2>1. i < j \/ j < i
    BY <1>5
  <2>2. Earlier(ob, rows, i, j) \/ Earlier(ob, rows, j, i)
    BY <2>1 DEF Earlier
  <2> QED  BY <1>1, <2>2
<1>6. \E s \in SetToSeqs(1 .. N) : Arranged(s, R)
  <2>1. \A i, j, k \in 1 .. N : <<i, j>> \in R /\ <<j, k>> \in R => <<i, k>> \in R
    BY <1>4
  <2>2. \A i, j \in 1 .. N : i # j => <<i, j>> \in R \/ <<j, i>> \in R
    BY <1>5
  <2>3. IsStrictOrder(N, R)
    BY <1>3, <2>1, <2>2 DEF IsStrictOrder
  <2> QED  BY <2>3, SortExists
<1>7. \A s \in SetToSeqs(1 .. N) : DOMAIN s = 1 .. N /\ \A k \in 1 .. N : s[k] \in 1 .. N
  <2>1. Cardinality(1 .. N) = N
    BY FS_Interval
  <2> QED  BY <2>1 DEF SetToSeqs
<1> DEFINE First(i, j) == \/ Before(ob, rows[i], rows[j])
                          \/ ~Before(ob, rows[j], rows[i]) /\ i < j
           order == CHOOSE s \in SetToSeqs(DOMAIN rows) :
                      \A i, j \in DOMAIN s : i < j => First(s[i], s[j])
<1>8. DOMAIN rows = 1 .. N
  OBVIOUS
<1>9. \E s \in SetToSeqs(DOMAIN rows) : \A i, j \in DOMAIN s : i < j => First(s[i], s[j])
  <2>1. PICK s \in SetToSeqs(1 .. N) : \A i, j \in DOMAIN s : i < j => <<s[i], s[j]>> \in R
    BY <1>6 DEF Arranged
  <2>2. \A i, j \in DOMAIN s : i < j => Earlier(ob, rows, s[i], s[j])
    BY <1>1, <1>7, <2>1
  <2>3. \A i, j \in DOMAIN s : i < j => First(s[i], s[j])
    BY <2>2 DEF Earlier
  <2> HIDE DEF First
  <2> QED  BY <1>8, <2>3
<1>10. Sorted(rows, ob) = [k \in DOMAIN rows |-> rows[order[k]]]
  BY DEF Sorted
<1>11. order \in SetToSeqs(DOMAIN rows) /\ \A i, j \in DOMAIN order : i < j => First(order[i], order[j])
  <2> HIDE DEF First
  <2> QED  BY <1>9
<1>12. \A i, j : First(i, j) <=> Earlier(ob, rows, i, j)
  BY DEF Earlier
<1> HIDE DEF order, First
<1>13. \A i, j \in 1 .. N : i < j => Earlier(ob, rows, order[i], order[j])
  BY <1>7, <1>8, <1>11, <1>12
<1> QED  BY <1>8, <1>10, <1>11, <1>13

AtMost(x, n) == IF x < n THEN x ELSE n

\* A prefix and what follows it make a longer prefix.
LEMMA LongerPrefix ==
  ASSUME NEW S, NEW s \in Seq(S), NEW b \in 0 .. Len(s), NEW e \in b .. Len(s)
  PROVE  /\ SubSeq(s, 1, b) \o SubSeq(s, b + 1, e) = SubSeq(s, 1, e)
         /\ SubSeq(s, b + 1, e) \in Seq(S)
<1> DEFINE x == SubSeq(s, 1, b)
           y == SubSeq(s, b + 1, e)
           z == SubSeq(s, 1, e)
<1>1. Len(s) \in Nat /\ b \in Nat /\ e \in Nat /\ b <= e /\ e <= Len(s)
  OBVIOUS
<1>2. \A i \in 1 .. Len(s) : s[i] \in S
  BY ElementOfSeq
<1>3. x \in Seq(S) /\ Len(x) = b /\ \A i \in 1 .. b : x[i] = s[i]
  BY <1>1, <1>2
<1>4. y \in Seq(S) /\ Len(y) = e - b /\ \A i \in 1 .. e - b : y[i] = s[b + i]
  BY <1>1, <1>2
<1>5. z \in Seq(S) /\ Len(z) = e /\ \A i \in 1 .. e : z[i] = s[i]
  BY <1>1, <1>2
<1> HIDE DEF x, y, z
<1>6. x \o y \in Seq(S) /\ Len(x \o y) = e
  <2>1. x \in Seq(S) /\ y \in Seq(S)
    BY <1>3, <1>4
  <2>2. x \o y \in Seq(S) /\ Len(x \o y) = Len(x) + Len(y)
    BY ONLY <2>1, ConcatProperties
  <2>3. b + (e - b) = e
    BY <1>1
  <2> QED  BY <1>3, <1>4, <2>2, <2>3
<1>7. ASSUME NEW i \in 1 .. e
      PROVE  (x \o y)[i] = z[i]
  <2>1. CASE i <= b
    BY <1>1, <1>3, <1>4, <1>5, <2>1
  <2>2. CASE b < i
    <3>1. i - b \in 1 .. e - b /\ b + (i - b) = i
      BY <1>1, <2>2
    <3>2. (x \o y)[i] = y[i - b]
      BY <1>1, <1>3, <1>4, <2>2
    <3> QED  BY <1>4, <1>5, <3>1, <3>2
  <2>3. i <= b \/ b < i
    BY <1>1
  <2> QED  BY <2>1, <2>2, <2>3
<1>8. x \o y = z
  BY <1>5, <1>6, <1>7
<1> QED  BY <1>4, <1>8 DEF x, y, z

\* A page is what follows the rows before its offset.
LEMMA NextPage ==
  ASSUME NEW S, NEW s \in Seq(S), Len(s) <= AutoLimit, NEW size \in PageSizes, NEW o \in Nat
  PROVE  /\ Page(s, size, o) \in Seq(S)
         /\ SubSeq(s, 1, AtMost(o, Len(s))) \o Page(s, size, o) = SubSeq(s, 1, AtMost(o + size, Len(s)))
<1> DEFINE N == Len(s)
           e == AtMost(o + size, N)
<1>1. N \in Nat /\ o \in Nat /\ size \in Nat /\ size >= 1 /\ N + size <= MaxSize /\ MaxSize \in Nat
  BY SizesAssumption, PagesAssumption, AutoLimitAssumption
<1> HIDE DEF N
<1>2. CASE o >= N
  <2>1. Page(s, size, o) = <<>>
    BY <1>2 DEF Page, N
  <2>2. AtMost(o, N) = N /\ e = N
    BY <1>1, <1>2 DEF AtMost
  <2>3. SubSeq(s, 1, N) \in Seq(S)
    BY <1>1, LongerPrefix DEF N
  <2>4. SubSeq(s, 1, N) \o <<>> = SubSeq(s, 1, N)
    BY <2>3
  <2> QED  BY <2>1, <2>2, <2>4 DEF N
<1>3. CASE o < N
  <2>1. Min({o + size, N}) = e
    <3>1. \A y \in {o + size, N} : e <= y
      BY <1>1 DEF AtMost
    <3>2. e \in {o + size, N} /\ \A x \in {o + size, N} : (\A y \in {o + size, N} : x <= y) => x = e
      BY <1>1 DEF AtMost
    <3> HIDE DEF e
    <3> QED  BY <3>1, <3>2 DEF Min
  <2>2. ~(o >= N) /\ ~(o + size > MaxSize)
    BY <1>1, <1>3
  <2>3. Page(s, size, o) = SubSeq(s, o + 1, e)
    BY <2>1, <2>2 DEF Page, N
  <2>4. AtMost(o, N) = o /\ o \in 0 .. N /\ e \in o .. N
    BY <1>1, <1>3 DEF AtMost
  <2> HIDE DEF e
  <2>5. SubSeq(s, 1, o) \o SubSeq(s, o + 1, e) = SubSeq(s, 1, e) /\ SubSeq(s, o + 1, e) \in Seq(S)
    BY <2>4, LongerPrefix DEF N
  <2> QED  BY <2>3, <2>4, <2>5 DEF N, e
<1>4. o >= N \/ o < N
  BY <1>1
<1> QED  BY <1>2, <1>3, <1>4

LEMMA NextMultiple ==
  ASSUME NEW i \in Nat, NEW n \in Nat
  PROVE  /\ i * n \in Nat /\ i * n + n = (i + 1) * n
         /\ i >= 1 => (i - 1) * n \in Nat /\ (i - 1) * n + n = i * n
OBVIOUS

LEMMA MultipleNotLess ==
  ASSUME NEW i \in Nat, NEW n \in Nat, 1 <= n
  PROVE  i <= i * n
OBVIOUS

\* The pages one after the other are the rows.
LEMMA PagesJoin ==
  ASSUME NEW S, NEW s \in Seq(S), Len(s) <= AutoLimit, NEW size \in PageSizes
  PROVE  /\ FlattenSeq([k \in 1 .. Len(s) + 1 |-> Page(s, size, (k - 1) * size)]) = s
         /\ Page(s, NoLimit, 0) = s
<1> DEFINE N == Len(s)
           pages == [k \in 1 .. Len(s) + 1 |-> Page(s, size, (k - 1) * size)]
           Read(i) == SubSeq(s, 1, AtMost(i * size, N))
<1>1. N \in Nat /\ N < MaxSize /\ MaxSize \in Nat /\ size \in Nat /\ 1 <= size
  BY SizesAssumption, PagesAssumption, AutoLimitAssumption
<1>2. SubSeq(s, 1, N) = s
  <2>1. SubSeq(s, 1, N) \in Seq(S) /\ Len(SubSeq(s, 1, N)) = N
        /\ \A i \in 1 .. N : SubSeq(s, 1, N)[i] = s[i]
    BY <1>1, ElementOfSeq
  <2> QED  BY <2>1
<1>3. Page(s, NoLimit, 0) = s
  <2>1. CASE N = 0
    <3>1. Page(s, NoLimit, 0) = <<>>
      BY <2>1 DEF Page
    <3> QED  BY <2>1, <3>1
  <2>2. CASE N # 0
    <3>1. ~(0 >= N) /\ 0 + MaxSize = MaxSize /\ ~(0 + MaxSize > MaxSize) /\ 0 + 1 = 1
      BY <1>1, <2>2
    <3>2. Min({MaxSize, N}) = N
      <4> HIDE DEF N
      <4>1. N \in {MaxSize, N} /\ \A y \in {MaxSize, N} : N <= y
        BY <1>1
      <4>2. \A x \in {MaxSize, N} : (\A y \in {MaxSize, N} : x <= y) => x = N
        BY <1>1
      <4> QED  BY <4>1, <4>2 DEF Min
    <3>3. Page(s, NoLimit, 0) = SubSeq(s, 1, N)
      BY <3>1, <3>2 DEF Page, NoLimit
    <3> QED  BY <1>2, <3>3
  <2> QED  BY <2>1, <2>2
<1>4. Len(pages) = N + 1 /\ \A k \in 1 .. N + 1 : pages[k] = Page(s, size, (k - 1) * size)
  BY <1>1
<1> HIDE DEF N, pages
<1>5. pages[1] = Read(1)
  <2>1. 1 \in 1 .. N + 1 /\ (1 - 1) * size = 0 /\ 1 * size = size /\ 0 + size = size
    BY <1>1
  <2>2. AtMost(0, N) = 0
    BY <1>1 DEF AtMost
  <2>3. /\ Page(s, size, 0) \in Seq(S)
        /\ SubSeq(s, 1, 0) \o Page(s, size, 0) = SubSeq(s, 1, AtMost(size, N))
    BY <2>1, <2>2, NextPage DEF N
  <2>4. SubSeq(s, 1, 0) = <<>>
    OBVIOUS
  <2>5. SubSeq(s, 1, 0) \o Page(s, size, 0) = Page(s, size, 0)
    BY <2>3, <2>4
  <2> QED  BY <1>4, <2>1, <2>3, <2>5
<1>6. ASSUME NEW i \in 2 .. N + 1
      PROVE  Read(i - 1) \o pages[i] = Read(i)
  <2> DEFINE o == (i - 1) * size
  <2>1. o \in Nat /\ o + size = i * size /\ i \in 1 .. N + 1
    <3>1. i \in Nat /\ i - 1 \in Nat /\ i \in 1 .. N + 1
      BY <1>1
    <3>2. (i - 1) * size \in Nat /\ (i - 1) * size + size = i * size
      BY <1>1, <3>1, NextMultiple
    <3> QED  BY <3>1, <3>2
  <2>2. pages[i] = Page(s, size, o)
    BY <1>4, <2>1
  <2>3. Read(i - 1) = SubSeq(s, 1, AtMost(o, N)) /\ Read(i) = SubSeq(s, 1, AtMost(o + size, N))
    BY <2>1
  <2> HIDE DEF o, Read
  <2>4. SubSeq(s, 1, AtMost(o, N)) \o Page(s, size, o) = SubSeq(s, 1, AtMost(o + size, N))
    BY <2>1, NextPage DEF N
  <2> QED  BY <2>2, <2>3, <2>4
<1>7. Read(N + 1) = s
  <2>1. ~((N + 1) * size < N)
    <3>1. N * size + size = (N + 1) * size /\ N <= N * size /\ N * size \in Nat
      BY <1>1, NextMultiple, MultipleNotLess
    <3> QED  BY <1>1, <3>1
  <2> QED  BY <1>2, <2>1 DEF AtMost
<1> DEFINE flatten[i \in 1 .. Len(pages)] == IF i = 1 THEN pages[i] ELSE flatten[i - 1] \o pages[i]
           Solves(f) == f = [i \in 1 .. Len(pages) |-> IF i = 1 THEN pages[i] ELSE f[i - 1] \o pages[i]]
<1> HIDE DEF Read
<1>8. \E f : Solves(f)
  <2> DEFINE g == [i \in 1 .. Len(pages) |-> Read(i)]
  <2>1. ASSUME NEW i \in 1 .. Len(pages)
        PROVE  Read(i) = IF i = 1 THEN pages[i] ELSE g[i - 1] \o pages[i]
    <3>1. CASE i = 1
      BY <1>5, <3>1
    <3>2. CASE i # 1
      <4>1. i \in 2 .. N + 1 /\ i - 1 \in 1 .. Len(pages)
        BY <1>1, <1>4, <3>2
      <4>2. g[i - 1] = Read(i - 1)
        BY <4>1
      <4> QED  BY <1>6, <3>2, <4>1, <4>2
    <3> QED  BY <3>1, <3>2
  <2>2. g = [i \in 1 .. Len(pages) |-> IF i = 1 THEN pages[i] ELSE g[i - 1] \o pages[i]]
    BY <2>1
  <2> HIDE DEF g
  <2> QED  BY <2>2
<1>9. Solves(flatten)
  BY <1>8
<1>10. FlattenSeq(pages) = flatten[Len(pages)]
  <2>1. Len(pages) # 0
    BY <1>1, <1>4
  <2> QED  BY <2>1 DEF FlattenSeq
<1> HIDE DEF flatten
<1>11. \A i \in 1 .. N + 1 : flatten[i] = IF i = 1 THEN pages[i] ELSE flatten[i - 1] \o pages[i]
  BY <1>4, <1>9
<1> DEFINE G == {i \in 1 .. N + 1 : flatten[i] = Read(i)}
<1>12. ASSUME NEW m \in 1 .. N + 1, \A k \in 1 .. m - 1 : k \in G
       PROVE  m \in G
  <2>1. CASE m = 1
    BY <1>5, <1>11, <2>1
  <2>2. CASE m # 1
    <3>1. m \in 2 .. N + 1 /\ m - 1 \in 1 .. m - 1
      BY <1>1, <2>2
    <3>2. flatten[m - 1] = Read(m - 1)
      BY <1>12, <3>1
    <3> QED  BY <1>6, <1>11, <2>2, <3>1, <3>2
  <2> QED  BY <2>1, <2>2
<1>13. \A m \in 1 .. N + 1 : m \in G
  <2>1. N + 1 \in Nat
    BY <1>1
  <2> HIDE DEF G
  <2> QED  BY <1>12, <2>1, AllBefore
<1>14. FlattenSeq(pages) = s
  <2>1. N + 1 \in 1 .. N + 1
    BY <1>1
  <2> QED  BY <1>4, <1>7, <1>10, <1>13, <2>1
<1> QED  BY <1>3, <1>14 DEF pages

\* ORDER BY keeps the rows and puts them in its order.
LEMMA SortedTaken ==
  ASSUME IInv, NEW clause \in Clauses \cup {NoClause}, NEW rows \in Arrangements(clause),
         NEW ob \in Orders
  PROVE  LET sorted  == Sorted(rows, ob)
             S       == Taken(clause)
             Cell(p) == Resolved(table.data[p][ob.column])
             Place(p) == CHOOSE i \in DOMAIN rows : rows[i] = p
         IN  /\ sorted \in Seq(S) /\ Len(sorted) <= AutoLimit /\ Len(rows) = Len(sorted)
             /\ Range(sorted) = S /\ Len(sorted) = Cardinality(S)
             /\ \A i, j \in DOMAIN sorted : i < j =>
                  LET p == sorted[i]
                      q == sorted[j]
                  IN  IF ob.column \notin Cols \/ Cell(p) = Cell(q) THEN Place(p) < Place(q)
                      ELSE IF ob.descending THEN ValueLess(Cell(q), Cell(p))
                                            ELSE ValueLess(Cell(p), Cell(q))
<1> DEFINE sorted  == Sorted(rows, ob)
           S       == Taken(clause)
           N       == Cardinality(S)
           Cell(p) == Resolved(table.data[p][ob.column])
           Place(p) == CHOOSE i \in DOMAIN rows : rows[i] = p
<1>1. /\ S \in SUBSET Positions(table) /\ IsFiniteSet(S)
      /\ rows \in [1 .. N -> S]
      /\ \A i, j \in 1 .. N : rows[i] = rows[j] => i = j
      /\ N \in Nat /\ N <= AutoLimit
  BY ArrangedRows
<1> HIDE DEF S, N
<1>2. /\ rows \in [1 .. N -> Positions(table)] /\ DOMAIN rows = 1 .. N
      /\ \A i \in 1 .. N : rows[i] \in Positions(table)
  BY <1>1
<1>3. Len(rows) = N
  BY <1>1, Enumeration DEF N
<1>4. PICK order \in SetToSeqs(1 .. N) :
         /\ sorted = [k \in 1 .. N |-> rows[order[k]]]
         /\ \A i, j \in 1 .. N : i < j => Earlier(ob, rows, order[i], order[j])
  BY <1>1, <1>2, SortedRows
<1> HIDE DEF sorted
<1>5. order \in [1 .. N -> 1 .. N] /\ \A i, j \in 1 .. N : i # j => order[i] # order[j]
  <2>1. Cardinality(1 .. N) = N
    BY <1>1, FS_Interval
  <2> QED  BY <2>1 DEF SetToSeqs
<1>6. sorted \in [1 .. N -> S] /\ \A i, j \in 1 .. N : sorted[i] = sorted[j] => i = j
  <2>1. \A k \in 1 .. N : order[k] \in 1 .. N
    BY <1>5
  <2>2. \A k \in 1 .. N : rows[order[k]] \in S
    BY <1>1, <2>1
  <2> QED  BY <1>1, <1>4, <1>5, <2>1, <2>2
<1>7. /\ sorted \in Seq(S) /\ Len(sorted) = N /\ DOMAIN sorted = 1 .. N
      /\ \A x \in S : \E i \in 1 .. N : sorted[i] = x
  BY <1>1, <1>6, Enumeration DEF N
<1>8. Range(sorted) = S
  BY <1>6, <1>7 DEF Range
<1>9. Len(sorted) <= AutoLimit
  BY <1>1, <1>7, SizesAssumption, AutoLimitAssumption
<1>10. \A a \in 1 .. N : Place(rows[a]) = a
  BY <1>1, <1>2
<1>11. ASSUME NEW i \in 1 .. N, NEW j \in 1 .. N, i < j
       PROVE  LET p == sorted[i]
                  q == sorted[j]
              IN  IF ob.column \notin Cols \/ Cell(p) = Cell(q) THEN Place(p) < Place(q)
                  ELSE IF ob.descending THEN ValueLess(Cell(q), Cell(p))
                                        ELSE ValueLess(Cell(p), Cell(q))
  <2> DEFINE a == order[i]
             b == order[j]
             p == sorted[i]
             q == sorted[j]
  <2>1. a \in 1 .. N /\ b \in 1 .. N
    BY <1>5
  <2>2. p = rows[a] /\ q = rows[b] /\ p \in Positions(table) /\ q \in Positions(table)
    BY <1>2, <1>4, <2>1
  <2>3. Before(ob, p, q) \/ (~Before(ob, q, p) /\ a < b)
    BY <1>4, <1>11, <2>2 DEF Earlier
  <2>4. Place(p) = a /\ Place(q) = b
    BY <1>10, <2>1, <2>2
  <2>5. Tied(ob, p, q) <=> ob.column \notin Cols \/ Cell(p) = Cell(q)
    BY DEF Tied
  <2>6. Before(ob, p, q) => IF ob.descending THEN ValueLess(Cell(q), Cell(p))
                                             ELSE ValueLess(Cell(p), Cell(q))
    BY DEF Before
  <2> HIDE DEF a, b, p, q, Cell, Place
  <2>7. CASE Tied(ob, p, q)
    <3>1. ~Before(ob, p, q)
      BY <2>2, <2>7, BeforeOrder
    <3>2. a < b
      BY <2>3, <3>1
    <3>3. Place(p) < Place(q)
      BY <2>4, <3>2
    <3> QED  BY <2>5, <2>7, <3>3 DEF p, q
  <2>8. CASE ~Tied(ob, p, q)
    <3>1. Before(ob, p, q)
      BY <2>2, <2>3, <2>8, BeforeOrder
    <3> QED  BY <2>5, <2>6, <2>8, <3>1 DEF p, q
  <2> QED  BY <2>7, <2>8
<1> HIDE DEF Cell, Place
<1>12. \A i, j \in DOMAIN sorted : i < j =>
         LET p == sorted[i]
             q == sorted[j]
         IN  IF ob.column \notin Cols \/ Cell(p) = Cell(q) THEN Place(p) < Place(q)
             ELSE IF ob.descending THEN ValueLess(Cell(q), Cell(p))
                                   ELSE ValueLess(Cell(p), Cell(q))
  BY <1>7, <1>11
<1> QED  BY <1>3, <1>7, <1>8, <1>9, <1>12 DEF sorted, S, N, Cell, Place

LEMMA PagesHold == IInv => PagesPartition
<1> SUFFICES ASSUME IInv, NEW clause \in Clauses \cup {NoClause}, NEW ob \in Orders,
                    NEW size \in PageSizes, NEW rows \in Arrangements(clause)
             PROVE  LET sorted == Sorted(rows, ob)
                        pages  == [k \in 1 .. Len(rows) + 1 |-> Page(sorted, size, (k - 1) * size)]
                        Cell(p) == Resolved(table.data[p][ob.column])
                        Place(p) == CHOOSE i \in DOMAIN rows : rows[i] = p
                    IN  /\ FlattenSeq(pages) = sorted
                        /\ Page(sorted, NoLimit, 0) = sorted
                        /\ Range(sorted) = Taken(clause) /\ Len(sorted) = Cardinality(Taken(clause))
                        /\ \A i, j \in DOMAIN sorted : i < j =>
                             LET p == sorted[i]
                                 q == sorted[j]
                             IN  IF ob.column \notin Cols \/ Cell(p) = Cell(q) THEN Place(p) < Place(q)
                                 ELSE IF ob.descending THEN ValueLess(Cell(q), Cell(p))
                                                       ELSE ValueLess(Cell(p), Cell(q))
  BY DEF PagesPartition
<1> DEFINE sorted == Sorted(rows, ob)
<1>1. sorted \in Seq(Taken(clause)) /\ Len(sorted) <= AutoLimit /\ Len(rows) = Len(sorted)
  BY SortedTaken
<1>2. /\ FlattenSeq([k \in 1 .. Len(rows) + 1 |-> Page(sorted, size, (k - 1) * size)]) = sorted
      /\ Page(sorted, NoLimit, 0) = sorted
  <2> HIDE DEF sorted
  <2> QED  BY <1>1, PagesJoin
<1> QED  BY <1>2, SortedTaken

\* A client that reads page after page of a result gets the rows its condition
\* has, each once, in the order that was asked for, and tied rows as they were:
\* sort_by is given a strict order, and OFFSET plus LIMIT never leaves usize.
THEOREM PagesDoPartition == SqlSpec => []PagesPartition
BY PagesHold, QueriesInv, PTL

-----------------------------------------------------------------------------
(* Aggregates *)

\* A finite set of positions has a last one.
LEMMA LastOf ==
  ASSUME NEW n \in Nat, NEW s \in SUBSET (1 .. n), s # {}
  PROVE  Max(s) \in s /\ \A x \in s : x <= Max(s)
<1> DEFINE T == {n - x : x \in s}
<1>1. T \subseteq Nat /\ T # {}
  <2>1. PICK x \in s : TRUE
    OBVIOUS
  <2>2. n - x \in T
    BY <2>1
  <2>3. \A y \in 1 .. n : n - y \in Nat
    OBVIOUS
  <2> QED  BY <2>2, <2>3
<1>2. PICK m \in T : \A k \in T : m <= k
  <2> HIDE DEF T
  <2> QED  BY <1>1, LeastElement
<1>3. PICK x \in s : m = n - x
  BY <1>2
<1>4. \A y \in s : x >= y
  <2> SUFFICES ASSUME NEW y \in s  PROVE x >= y
    OBVIOUS
  <2>1. n - y \in T /\ x \in Nat /\ y \in Nat
    OBVIOUS
  <2>2. n - x <= n - y
    BY <1>2, <1>3, <2>1
  <2> QED  BY <2>1, <2>2
<1>5. \E z \in s : \A y \in s : z >= y
  BY <1>4
<1>6. Max(s) \in s /\ \A y \in s : Max(s) >= y
  BY <1>5 DEF Max
<1>7. \A y \in s : y \in Nat
  OBVIOUS
<1> QED  BY <1>6, <1>7

\* What the loops over some of the positions 1, 2, ..., n have after each step.
AreRuns(r, n, start, step) ==
  /\ r \in [SUBSET (1 .. n) -> [0 .. n -> Int]]
  /\ \A s \in SUBSET (1 .. n) :
       /\ r[s][0] = start
       /\ \A k \in 1 .. n : r[s][k] = IF k \in s THEN step[k][r[s][k - 1]] ELSE r[s][k - 1]

LEMMA RunsExist ==
  ASSUME NEW n \in Nat, NEW start \in Int, NEW step \in [1 .. n -> [Int -> Int]]
  PROVE  \E r : AreRuns(r, n, start, step)
<1> DEFINE some(s) == [k \in 1 .. n |-> IF k \in s THEN step[k] ELSE [a \in Int |-> a]]
           R(s, f) == IsRun(f, Int, start, n, some(s))
           chosen(s) == CHOOSE f : R(s, f)
           r == [s \in SUBSET (1 .. n) |-> chosen(s)]
<1>1. ASSUME NEW s \in SUBSET (1 .. n)
      PROVE  R(s, chosen(s))
  <2>1. some(s) \in [1 .. n -> [Int -> Int]]
    OBVIOUS
  <2>2. \E f : R(s, f)
    <3> HIDE DEF some
    <3> QED  BY <2>1, Run
  <2> HIDE DEF R
  <2> QED  BY <2>2
<1> HIDE DEF chosen
<1>2. r = [s \in SUBSET (1 .. n) |-> r[s]] /\ \A s \in SUBSET (1 .. n) : r[s] = chosen(s)
  OBVIOUS
<1> HIDE DEF r
<1>3. ASSUME NEW s \in SUBSET (1 .. n)
      PROVE  /\ r[s] \in [0 .. n -> Int] /\ r[s][0] = start
             /\ \A k \in 1 .. n : r[s][k] = IF k \in s THEN step[k][r[s][k - 1]] ELSE r[s][k - 1]
  <2>1. /\ r[s] \in [0 .. n -> Int] /\ r[s][0] = start
        /\ \A k \in 1 .. n : r[s][k] = some(s)[k][r[s][k - 1]]
    <3> HIDE DEF some
    <3>1. r[s] = chosen(s)
      BY <1>2
    <3>2. IsRun(chosen(s), Int, start, n, some(s))
      BY <1>1
    <3>3. IsRun(r[s], Int, start, n, some(s))
      BY <3>1, <3>2
    <3> QED  BY <3>3 DEF IsRun
  <2>2. ASSUME NEW k \in 1 .. n
        PROVE  some(s)[k][r[s][k - 1]] = IF k \in s THEN step[k][r[s][k - 1]] ELSE r[s][k - 1]
    <3>1. k - 1 \in 0 .. n
      OBVIOUS
    <3>2. r[s][k - 1] \in Int
      BY <2>1, <3>1
    <3> QED  BY <3>2
  <2> HIDE DEF some
  <2> QED  BY <2>1, <2>2
<1>4. AreRuns(r, n, start, step)
  BY <1>2, <1>3 DEF AreRuns
<1> QED  BY <1>4

\* Loops over positions that begin alike are alike so far.
LEMMA RunsAgree ==
  ASSUME NEW n \in Nat, NEW start, NEW step, NEW r, AreRuns(r, n, start, step),
         NEW s \in SUBSET (1 .. n), NEW t \in SUBSET (1 .. n), NEW a \in 0 .. n,
         \A k \in 1 .. a : k \in s <=> k \in t
  PROVE  r[s][a] = r[t][a]
<1> DEFINE G == {k \in 0 .. a : r[s][k] = r[t][k]}
<1>1. 0 \in G
  BY DEF AreRuns
<1>2. ASSUME NEW m \in 1 .. a, m - 1 \in G
      PROVE  m \in G
  <2>1. m \in 1 .. n /\ r[s][m - 1] = r[t][m - 1] /\ (m \in s <=> m \in t)
    BY <1>2
  <2>2. r[s][m] = IF m \in s THEN step[m][r[s][m - 1]] ELSE r[s][m - 1]
    BY <2>1 DEF AreRuns
  <2>3. r[t][m] = IF m \in t THEN step[m][r[t][m - 1]] ELSE r[t][m - 1]
    BY <2>1 DEF AreRuns
  <2> QED  BY <2>1, <2>2, <2>3
<1>3. \A k \in 0 .. a : k \in G
  <2>1. a \in Nat
    OBVIOUS
  <2> HIDE DEF G
  <2> QED  BY <1>1, <1>2, <2>1, UpTo
<1>4. a \in 0 .. a
  OBVIOUS
<1> QED  BY <1>3, <1>4

Within(s, a) == \A k \in s : k <= a

\* After its last position a loop changes nothing.
LEMMA RunsEnd ==
  ASSUME NEW n \in Nat, NEW start, NEW step, NEW r, AreRuns(r, n, start, step),
         NEW s \in SUBSET (1 .. n), NEW a \in 0 .. n, Within(s, a)
  PROVE  \A b \in a .. n : r[s][b] = r[s][a]
<1> DEFINE G == {k \in 0 .. n : k >= a => r[s][k] = r[s][a]}
<1>1. 0 \in G
  OBVIOUS
<1>2. ASSUME NEW m \in 1 .. n, m - 1 \in G
      PROVE  m \in G
  <2>1. CASE m <= a
    BY <2>1
  <2>2. CASE m > a
    <3>1. m - 1 >= a /\ m \notin s
      BY <2>2 DEF Within
    <3>2. r[s][m - 1] = r[s][a]
      BY <1>2, <3>1
    <3>3. r[s][m] = r[s][m - 1]
      BY <3>1 DEF AreRuns
    <3> QED  BY <3>2, <3>3
  <2> QED  BY <2>1, <2>2
<1>3. \A k \in 0 .. n : k \in G
  <2> HIDE DEF G
  <2> QED  BY <1>1, <1>2, UpTo
<1> QED  BY <1>3

Loops == {"SUM", "MIN", "MAX"}

LEMMA StepInt ==
  ASSUME NEW func \in Loops
  PROVE  /\ Start(func) \in Int
         /\ \A a \in Int : \A v : (v.type = "integer" => v.n \in Int) => Step(func, a, v) \in Int
BY SizesAssumption DEF Loops, Start, Step, Saturated

ReadsInt(n, e, rows) ==
  \A k \in 1 .. n : CellOf(e, rows[k]).type = "integer" => CellOf(e, rows[k]).n \in Int

\* f is what the loop has after each row.
IsLoop(f, n, func, e, rows) ==
  /\ f \in [0 .. n -> Int] /\ f[0] = Start(func)
  /\ \A k \in 1 .. n : f[k] = Step(func, f[k - 1], CellOf(e, rows[k]))
  /\ Loop(func, e, rows) = f[n]

LEMMA LoopRuns ==
  ASSUME NEW n \in Nat, NEW rows, DOMAIN rows = 1 .. n, NEW func \in Loops, NEW e,
         ReadsInt(n, e, rows)
  PROVE  \E f : IsLoop(f, n, func, e, rows)
<1> DEFINE v(k) == CellOf(e, rows[k])
           step == [k \in 1 .. n |-> [a \in Int |-> Step(func, a, v(k))]]
           iter[s \in SUBSET (DOMAIN rows)] ==
             IF s = {} THEN Start(func)
             ELSE LET x == Max(s) IN Step(func, iter[s \ {x}], CellOf(e, rows[x]))
           Solves(i) == i = [s \in SUBSET (DOMAIN rows) |->
             IF s = {} THEN Start(func)
             ELSE LET x == Max(s) IN Step(func, i[s \ {x}], CellOf(e, rows[x]))]
<1>1. Loop(func, e, rows) = iter[DOMAIN rows]
  BY DEF Loop, FoldLeft, MapThenFoldSet
<1>2. Start(func) \in Int /\ \A a \in Int, k \in 1 .. n : Step(func, a, v(k)) \in Int
  BY StepInt DEF ReadsInt
<1> HIDE DEF v
<1>3. step \in [1 .. n -> [Int -> Int]] /\ \A k \in 1 .. n, a \in Int : step[k][a] = Step(func, a, v(k))
  BY <1>2
<1> HIDE DEF step
<1>4. PICK r : AreRuns(r, n, Start(func), step)
  BY <1>2, <1>3, RunsExist
<1>5. ASSUME NEW s \in SUBSET (1 .. n)
      PROVE  /\ r[s] \in [0 .. n -> Int] /\ r[s][0] = Start(func)
             /\ \A k \in 1 .. n : r[s][k] = IF k \in s THEN Step(func, r[s][k - 1], v(k)) ELSE r[s][k - 1]
  <2>1. /\ r[s] \in [0 .. n -> Int] /\ r[s][0] = Start(func)
        /\ \A k \in 1 .. n : r[s][k] = IF k \in s THEN step[k][r[s][k - 1]] ELSE r[s][k - 1]
    BY <1>4 DEF AreRuns
  <2>2. \A k \in 1 .. n : k - 1 \in 0 .. n
    OBVIOUS
  <2>3. \A k \in 1 .. n : r[s][k - 1] \in Int
    BY <2>1, <2>2
  <2> QED  BY <1>3, <2>1, <2>3
<1> DEFINE g == [s \in SUBSET (1 .. n) |-> r[s][n]]
<1>6. ASSUME NEW s \in SUBSET (1 .. n)
      PROVE  g[s] = IF s = {} THEN Start(func)
                    ELSE LET x == Max(s) IN Step(func, g[s \ {x}], v(x))
  <2>1. 0 \in 0 .. n /\ n \in 0 .. n
    OBVIOUS
  <2>2. CASE s = {}
    <3>1. \A b \in 0 .. n : r[s][b] = r[s][0]
      <4>1. Within(s, 0)
        BY <2>2 DEF Within
      <4> HIDE DEF g, iter, Solves
      <4> QED  BY <1>4, <2>1, <4>1, RunsEnd
    <3> QED  BY <1>5, <2>1, <2>2, <3>1
  <2>3. CASE s # {}
    <3> DEFINE x == Max(s)
               t == s \ {x}
    <3>1. x \in s /\ \A y \in s : y <= x
      BY <2>3, LastOf
    <3>2. t \in SUBSET (1 .. n)
      OBVIOUS
    <3>3. x \in 1 .. n /\ x \in 0 .. n /\ x - 1 \in 0 .. n /\ n \in x .. n /\ n \in x - 1 .. n
      <4> HIDE DEF x
      <4>1. x \in 1 .. n
        BY <3>1
      <4> QED  BY <4>1
    <3>4. r[s][n] = r[s][x]
      <4> HIDE DEF x
      <4>1. Within(s, x)
        BY <3>1 DEF Within
      <4> QED  BY <1>4, <3>3, <4>1, RunsEnd
    <3>5. r[t][n] = r[t][x - 1]
      <4>1. ASSUME NEW y \in t
            PROVE  y <= x - 1
        <5> HIDE DEF x
        <5>1. y \in s /\ y # x /\ y <= x /\ y \in 1 .. n
          BY <3>1, <4>1
        <5> QED  BY <3>3, <5>1
      <4> HIDE DEF x, t
      <4>2. Within(t, x - 1)
        BY <4>1 DEF Within
      <4> QED  BY <1>4, <3>2, <3>3, <4>2, RunsEnd
    <3>6. r[t][x - 1] = r[s][x - 1]
      <4>1. \A k \in 1 .. x - 1 : k \in t <=> k \in s
        BY <3>3
      <4>2. x - 1 \in 0 .. n /\ s \in SUBSET (1 .. n) /\ t \in SUBSET (1 .. n)
        BY <3>2, <3>3
      <4> HIDE DEF x, t, g, iter, Solves
      <4>3. r[s][x - 1] = r[t][x - 1]
        BY <1>4, <4>1, <4>2, RunsAgree
      <4> QED  BY <4>3
    <3>7. r[s][x] = Step(func, r[s][x - 1], v(x))
      <4> HIDE DEF x
      <4> QED  BY <1>5, <3>1, <3>3
    <3>8. g[s] = r[s][n] /\ g[t] = r[t][n]
      BY <3>2
    <3> HIDE DEF g
    <3>9. g[s] = Step(func, g[t], v(x))
      <4> HIDE DEF x, t
      <4> QED  BY <3>4, <3>5, <3>6, <3>7, <3>8
    <3> QED  BY <2>3, <3>9
  <2> QED  BY <2>2, <2>3
<1>7. Solves(g)
  BY <1>6 DEF v
<1>8. \E i : Solves(i)
  <2> HIDE DEF Solves, g
  <2> QED  BY <1>7
<1>9. Solves(iter)
  BY <1>8
<1> HIDE DEF iter
<1>10. \A s \in SUBSET (1 .. n) :
         iter[s] = IF s = {} THEN Start(func)
                   ELSE LET x == Max(s) IN Step(func, iter[s \ {x}], v(x))
  BY <1>9 DEF v
<1> DEFINE all == 1 .. n
           G == {k \in 0 .. n : iter[1 .. k] = r[all][k]}
<1>11. all \in SUBSET (1 .. n)
  OBVIOUS
<1>12. 0 \in G
  <2>1. 1 .. 0 = {}
    OBVIOUS
  <2>2. iter[{}] = Start(func)
    BY <1>10
  <2> QED  BY <1>5, <2>1, <2>2
<1>13. ASSUME NEW m \in 1 .. n, m - 1 \in G
       PROVE  m \in G
  <2>1. 1 .. m \in SUBSET (1 .. n) /\ 1 .. m # {} /\ m \in 1 .. m
    <3>1. m \in 1 .. m
      OBVIOUS
    <3>2. 1 .. m \subseteq 1 .. n
      OBVIOUS
    <3> QED  BY <3>1, <3>2
  <2>2. Max(1 .. m) = m
    <3>1. Max(1 .. m) \in 1 .. m /\ m <= Max(1 .. m)
      BY <2>1, LastOf
    <3> QED  BY <3>1
  <2>3. (1 .. m) \ {m} = 1 .. m - 1
    OBVIOUS
  <2>4. iter[1 .. m] = Step(func, iter[(1 .. m) \ {m}], v(m))
    BY <1>10, <2>1, <2>2
  <2>5. iter[1 .. m - 1] = r[all][m - 1]
    BY <1>13
  <2>6. m \in all /\ r[all][m] = Step(func, r[all][m - 1], v(m))
    BY <1>5, <1>11
  <2>7. iter[1 .. m] = r[all][m]
    BY <2>3, <2>4, <2>5, <2>6
  <2> QED  BY <2>7
<1>14. \A k \in 0 .. n : k \in G
  <2> HIDE DEF G
  <2> QED  BY <1>12, <1>13, UpTo
<1>15. Loop(func, e, rows) = r[all][n]
  BY <1>1, <1>14
<1>16. /\ r[all] \in [0 .. n -> Int] /\ r[all][0] = Start(func)
       /\ \A k \in 1 .. n : r[all][k] = Step(func, r[all][k - 1], v(k))
  BY <1>5, <1>11
<1> HIDE DEF all
<1> QED  BY <1>15, <1>16 DEF v, IsLoop

\* The cells of a column, as the loops read them.
LEMMA ColumnCells ==
  ASSUME IInv, NEW c \in Cols
  PROVE  /\ Len(table.ids) \in Nat /\ Positions(table) = 1 .. Len(table.ids)
         /\ DOMAIN AllRows = 1 .. Len(table.ids) /\ Len(AllRows) = Len(table.ids)
         /\ \A p \in 1 .. Len(table.ids) :
              /\ CellOf(Column(c), AllRows[p]) = table.data[p][c]
              /\ table.data[p][c].type = "integer" =>
                   /\ table.data[p][c].n \in Int
                   /\ IntMin <= table.data[p][c].n /\ table.data[p][c].n <= IntMax
<1> DEFINE n == Len(table.ids)
<1>1. n \in Nat /\ Positions(table) = 1 .. n
  BY RowCount
<1> HIDE DEF n
<1>2. AllRows = [p \in 1 .. n |-> p]
  BY <1>1 DEF AllRows
<1>3. DOMAIN AllRows = 1 .. n /\ Len(AllRows) = n
  BY <1>1, <1>2
<1>4. ASSUME NEW p \in 1 .. n
      PROVE  /\ CellOf(Column(c), AllRows[p]) = table.data[p][c]
             /\ table.data[p][c].type = "integer" =>
                  /\ table.data[p][c].n \in Int
                  /\ IntMin <= table.data[p][c].n /\ table.data[p][c].n <= IntMax
  <2>1. AllRows[p] = p
    BY <1>2
  <2>2. Column(c).node = "column" /\ Column(c).name = c
    BY DEF Column
  <2>3. CellOf(Column(c), p) = table.data[p][c]
    BY <2>2 DEF CellOf
  <2>4. table.data[p][c] \in Values
    BY <1>1, ResolvedCell
  <2>5. table.data[p][c].type = "integer" => table.data[p][c].n \in IntMin .. IntMax
    BY <2>4, SizesAssumption
  <2>6. \A x \in IntMin .. IntMax : x \in Int /\ IntMin <= x /\ x <= IntMax
    BY SizesAssumption
  <2> QED  BY <2>1, <2>3, <2>5, <2>6
<1> QED  BY <1>1, <1>3, <1>4 DEF n

\* MIN ends with the least integer, MAX with the greatest, or as they started.
LEMMA MinLoop ==
  ASSUME IInv, NEW c \in Cols
  PROVE  LET cells == {p \in Positions(table) : table.data[p][c].type = "integer"}
             N(p)  == table.data[p][c].n
             least == {N(p) : p \in cells} \ {IntMax}
             m     == Loop("MIN", Column(c), AllRows)
         IN  /\ m \in Int
             /\ m = IntMax <=> least = {}
             /\ least # {} => m = Min(least)
<1> DEFINE n     == Len(table.ids)
           cells == {p \in Positions(table) : table.data[p][c].type = "integer"}
           N(p)  == table.data[p][c].n
           least == {N(p) : p \in cells} \ {IntMax}
           m     == Loop("MIN", Column(c), AllRows)
           e     == Column(c)
<1>1. /\ n \in Nat /\ Positions(table) = 1 .. n /\ DOMAIN AllRows = 1 .. n
      /\ \A p \in 1 .. n : /\ CellOf(e, AllRows[p]) = table.data[p][c]
                           /\ table.data[p][c].type = "integer" =>
                                N(p) \in Int /\ IntMin <= N(p) /\ N(p) <= IntMax
  BY ColumnCells
<1> HIDE DEF n, e
<1>2. PICK f : IsLoop(f, n, "MIN", e, AllRows)
  <2>1. ReadsInt(n, e, AllRows)
    BY <1>1 DEF ReadsInt
  <2>2. "MIN" \in Loops
    BY DEF Loops
  <2> QED  BY <1>1, <2>1, <2>2, LoopRuns
<1>3. f \in [0 .. n -> Int] /\ m = f[n]
  BY <1>2 DEF IsLoop, e
<1> HIDE DEF m
<1>4. /\ f[0] = IntMax
      /\ \A k \in 1 .. n : f[k] = IF k \in cells /\ N(k) < f[k - 1] THEN N(k) ELSE f[k - 1]
  BY <1>1, <1>2 DEF IsLoop, Start, Step
<1>5. cells \in SUBSET (1 .. n) /\ \A p \in cells : N(p) \in Int /\ N(p) <= IntMax
  BY <1>1
<1> HIDE DEF cells, N
<1> DEFINE Least(k) == /\ f[k] <= IntMax /\ (f[k] = IntMax \/ \E p \in cells : f[k] = N(p))
                       /\ \A p \in cells : p <= k => f[k] <= N(p)
           G == {k \in 0 .. n : Least(k)}
<1>6. 0 \in G
  <2>1. \A p \in cells : ~(p <= 0)
    BY <1>5
  <2> QED  BY <1>1, <1>4, <2>1, SizesAssumption
<1>7. ASSUME NEW k \in 1 .. n, k - 1 \in G
      PROVE  k \in G
  <2>1. /\ f[k - 1] <= IntMax /\ (f[k - 1] = IntMax \/ \E p \in cells : f[k - 1] = N(p))
        /\ \A p \in cells : p <= k - 1 => f[k - 1] <= N(p)
    BY <1>7
  <2>2. f[k - 1] \in Int /\ f[k] \in Int
    <3>1. k - 1 \in 0 .. n /\ k \in 0 .. n
      BY <1>1
    <3> QED  BY <1>3, <3>1
  <2>3. \A p \in cells : p <= k => p <= k - 1 \/ p = k
    BY <1>5
  <2>4. CASE k \in cells /\ N(k) < f[k - 1]
    <3>1. f[k] = N(k) /\ N(k) \in Int
      BY <1>4, <1>5, <2>4
    <3>2. \A p \in cells : p <= k => f[k] <= N(p)
      <4> SUFFICES ASSUME NEW p \in cells, p <= k  PROVE f[k] <= N(p)
        OBVIOUS
      <4>1. CASE p = k
        BY <3>1, <4>1
      <4>2. CASE p <= k - 1
        <5>1. f[k - 1] <= N(p) /\ N(p) \in Int
          BY <1>5, <2>1, <4>2
        <5> QED  BY <2>2, <2>4, <3>1, <5>1
      <4> QED  BY <2>3, <4>1, <4>2
    <3>3. f[k] <= IntMax
      BY <1>5, <2>4, <3>1
    <3> QED  BY <2>4, <3>1, <3>2, <3>3
  <2>5. CASE ~(k \in cells /\ N(k) < f[k - 1])
    <3>1. f[k] = f[k - 1]
      BY <1>4, <2>5
    <3>2. \A p \in cells : p <= k => f[k] <= N(p)
      <4> SUFFICES ASSUME NEW p \in cells, p <= k  PROVE f[k] <= N(p)
        OBVIOUS
      <4>1. CASE p = k
        <5>1. N(k) \in Int /\ ~(N(k) < f[k - 1])
          BY <1>5, <2>5, <4>1
        <5> QED  BY <2>2, <3>1, <4>1, <5>1
      <4>2. CASE p <= k - 1
        BY <2>1, <3>1, <4>2
      <4> QED  BY <2>3, <4>1, <4>2
    <3> QED  BY <2>1, <3>1, <3>2
  <2> QED  BY <2>4, <2>5
<1>8. \A k \in 0 .. n : k \in G
  <2> HIDE DEF G
  <2> QED  BY <1>1, <1>6, <1>7, UpTo
<1>9. Least(n) /\ \A p \in cells : p <= n
  BY <1>1, <1>5, <1>8
<1>10. /\ m \in Int /\ m <= IntMax /\ (m = IntMax \/ \E p \in cells : m = N(p))
      /\ \A p \in cells : m <= N(p)
  <2>1. n \in 0 .. n
    BY <1>1
  <2> QED  BY <1>3, <1>9, <2>1
<1>11. \A x \in least : x \in Int /\ m <= x /\ x # IntMax /\ x <= IntMax
  BY <1>5, <1>10
<1>12. m # IntMax => m \in least
  BY <1>10
<1> HIDE DEF least
<1>13. m = IntMax <=> least = {}
  <2>1. ASSUME m = IntMax, NEW x \in least
        PROVE  FALSE
    BY <1>11, <2>1, SizesAssumption
  <2> QED  BY <1>12, <2>1
<1>14. least # {} => m = Min(least)
  <2> SUFFICES ASSUME least # {}  PROVE m = Min(least)
    OBVIOUS
  <2>1. m \in least /\ \A y \in least : m <= y
    BY <1>11, <1>12, <1>13
  <2>2. \A x \in least : (\A y \in least : x <= y) => x = m
    BY <1>10, <1>11, <2>1
  <2> QED  BY <2>1, <2>2 DEF Min
<1> QED  BY <1>10, <1>13, <1>14 DEF m, least, cells, N, e

LEMMA MaxLoop ==
  ASSUME IInv, NEW c \in Cols
  PROVE  LET cells == {p \in Positions(table) : table.data[p][c].type = "integer"}
             N(p)  == table.data[p][c].n
             greatest == {N(p) : p \in cells} \ {IntMin}
             m        == Loop("MAX", Column(c), AllRows)
         IN  /\ m \in Int
             /\ m = IntMin <=> greatest = {}
             /\ greatest # {} => m = Max(greatest)
<1> DEFINE n     == Len(table.ids)
           cells == {p \in Positions(table) : table.data[p][c].type = "integer"}
           N(p)  == table.data[p][c].n
           greatest == {N(p) : p \in cells} \ {IntMin}
           m     == Loop("MAX", Column(c), AllRows)
           e     == Column(c)
<1>1. /\ n \in Nat /\ Positions(table) = 1 .. n /\ DOMAIN AllRows = 1 .. n
      /\ \A p \in 1 .. n : /\ CellOf(e, AllRows[p]) = table.data[p][c]
                           /\ table.data[p][c].type = "integer" =>
                                N(p) \in Int /\ IntMin <= N(p) /\ N(p) <= IntMax
  BY ColumnCells
<1> HIDE DEF n, e
<1>2. PICK f : IsLoop(f, n, "MAX", e, AllRows)
  <2>1. ReadsInt(n, e, AllRows)
    BY <1>1 DEF ReadsInt
  <2>2. "MAX" \in Loops
    BY DEF Loops
  <2> QED  BY <1>1, <2>1, <2>2, LoopRuns
<1>3. f \in [0 .. n -> Int] /\ m = f[n]
  BY <1>2 DEF IsLoop, e
<1> HIDE DEF m
<1>4. /\ f[0] = IntMin
      /\ \A k \in 1 .. n : f[k] = IF k \in cells /\ N(k) > f[k - 1] THEN N(k) ELSE f[k - 1]
  BY <1>1, <1>2 DEF IsLoop, Start, Step
<1>5. cells \in SUBSET (1 .. n) /\ \A p \in cells : N(p) \in Int /\ IntMin <= N(p)
  BY <1>1
<1> HIDE DEF cells, N
<1> DEFINE Greatest(k) == /\ f[k] >= IntMin /\ (f[k] = IntMin \/ \E p \in cells : f[k] = N(p))
                          /\ \A p \in cells : p <= k => f[k] >= N(p)
           G == {k \in 0 .. n : Greatest(k)}
<1>6. 0 \in G
  <2>1. \A p \in cells : ~(p <= 0)
    BY <1>5
  <2> QED  BY <1>1, <1>4, <2>1, SizesAssumption
<1>7. ASSUME NEW k \in 1 .. n, k - 1 \in G
      PROVE  k \in G
  <2>1. /\ f[k - 1] >= IntMin /\ (f[k - 1] = IntMin \/ \E p \in cells : f[k - 1] = N(p))
        /\ \A p \in cells : p <= k - 1 => f[k - 1] >= N(p)
    BY <1>7
  <2>2. f[k - 1] \in Int /\ f[k] \in Int
    <3>1. k - 1 \in 0 .. n /\ k \in 0 .. n
      BY <1>1
    <3> QED  BY <1>3, <3>1
  <2>3. \A p \in cells : p <= k => p <= k - 1 \/ p = k
    BY <1>5
  <2>4. CASE k \in cells /\ N(k) > f[k - 1]
    <3>1. f[k] = N(k) /\ N(k) \in Int
      BY <1>4, <1>5, <2>4
    <3>2. \A p \in cells : p <= k => f[k] >= N(p)
      <4> SUFFICES ASSUME NEW p \in cells, p <= k  PROVE f[k] >= N(p)
        OBVIOUS
      <4>1. CASE p = k
        BY <3>1, <4>1
      <4>2. CASE p <= k - 1
        <5>1. f[k - 1] >= N(p) /\ N(p) \in Int
          BY <1>5, <2>1, <4>2
        <5> QED  BY <2>2, <2>4, <3>1, <5>1
      <4> QED  BY <2>3, <4>1, <4>2
    <3>3. f[k] >= IntMin
      BY <1>5, <2>4, <3>1
    <3> QED  BY <2>4, <3>1, <3>2, <3>3
  <2>5. CASE ~(k \in cells /\ N(k) > f[k - 1])
    <3>1. f[k] = f[k - 1]
      BY <1>4, <2>5
    <3>2. \A p \in cells : p <= k => f[k] >= N(p)
      <4> SUFFICES ASSUME NEW p \in cells, p <= k  PROVE f[k] >= N(p)
        OBVIOUS
      <4>1. CASE p = k
        <5>1. N(k) \in Int /\ ~(N(k) > f[k - 1])
          BY <1>5, <2>5, <4>1
        <5> QED  BY <2>2, <3>1, <4>1, <5>1
      <4>2. CASE p <= k - 1
        BY <2>1, <3>1, <4>2
      <4> QED  BY <2>3, <4>1, <4>2
    <3> QED  BY <2>1, <3>1, <3>2
  <2> QED  BY <2>4, <2>5
<1>8. \A k \in 0 .. n : k \in G
  <2> HIDE DEF G
  <2> QED  BY <1>1, <1>6, <1>7, UpTo
<1>9. Greatest(n) /\ \A p \in cells : p <= n
  BY <1>1, <1>5, <1>8
<1>10. /\ m \in Int /\ m >= IntMin /\ (m = IntMin \/ \E p \in cells : m = N(p))
      /\ \A p \in cells : m >= N(p)
  <2>1. n \in 0 .. n
    BY <1>1
  <2> QED  BY <1>3, <1>9, <2>1
<1>11. \A x \in greatest : x \in Int /\ m >= x /\ x # IntMin /\ x >= IntMin
  BY <1>5, <1>10
<1>12. m # IntMin => m \in greatest
  BY <1>10
<1> HIDE DEF greatest
<1>13. m = IntMin <=> greatest = {}
  <2>1. ASSUME m = IntMin, NEW x \in greatest
        PROVE  FALSE
    BY <1>11, <2>1, SizesAssumption
  <2> QED  BY <1>12, <2>1
<1>14. greatest # {} => m = Max(greatest)
  <2> SUFFICES ASSUME greatest # {}  PROVE m = Max(greatest)
    OBVIOUS
  <2>1. m \in greatest /\ \A y \in greatest : m >= y
    BY <1>11, <1>12, <1>13
  <2>2. \A x \in greatest : (\A y \in greatest : x >= y) => x = m
    BY <1>10, <1>11, <2>1
  <2> QED  BY <2>1, <2>2 DEF Max
<1> QED  BY <1>10, <1>13, <1>14 DEF m, greatest, cells, N, e

Adds(s, step, value) == \A k \in s, a \in Int : step[k][a] = a + value[k]

AreInts(s, value) == \A k \in s : value[k] \in Int

\* What the values of some positions add up to does not depend on the order.
LEMMA RunsRemove ==
  ASSUME NEW n \in Nat, NEW step, NEW value, NEW r, AreRuns(r, n, 0, step),
         NEW s \in SUBSET (1 .. n), Adds(s, step, value), AreInts(s, value), NEW x \in s
  PROVE  r[s][n] = value[x] + r[s \ {x}][n]
<1> DEFINE t == s \ {x}
           G == {k \in 0 .. n : k >= x => r[s][k] = value[x] + r[t][k]}
<1>1. t \in SUBSET s /\ t \in SUBSET (1 .. n) /\ x \in 1 .. n /\ \A k \in 1 .. n : k # x => (k \in t <=> k \in s)
  OBVIOUS
<1>2. ASSUME NEW u \in SUBSET s
      PROVE  /\ r[u] \in [0 .. n -> Int]
             /\ \A k \in 1 .. n : r[u][k] = IF k \in u THEN r[u][k - 1] + value[k] ELSE r[u][k - 1]
  <2>1. r[u] \in [0 .. n -> Int]
        /\ \A k \in 1 .. n : r[u][k] = IF k \in u THEN step[k][r[u][k - 1]] ELSE r[u][k - 1]
    BY DEF AreRuns
  <2>2. \A k \in 1 .. n : k - 1 \in 0 .. n
    OBVIOUS
  <2>3. \A k \in 1 .. n : r[u][k - 1] \in Int
    BY <2>1, <2>2
  <2>4. \A k \in 1 .. n : k \in u => step[k][r[u][k - 1]] = r[u][k - 1] + value[k]
    BY <2>3 DEF Adds
  <2> QED  BY <2>1, <2>4
<1>3. 0 \in G
  BY <1>1
<1>4. ASSUME NEW m \in 1 .. n, m - 1 \in G
      PROVE  m \in G
  <2>1. CASE m < x
    BY <1>1, <2>1
  <2>2. CASE m = x
    <3>1. x - 1 \in 0 .. n /\ \A k \in 1 .. x - 1 : k \in s <=> k \in t
      BY <1>1
    <3> HIDE DEF t
    <3>2. r[s][x - 1] = r[t][x - 1]
      BY <1>1, <3>1, RunsAgree
    <3>3. x \in s /\ x \notin t
      BY DEF t
    <3>4. r[s][x] = r[s][x - 1] + value[x] /\ r[t][x] = r[t][x - 1]
      BY <1>1, <1>2, <3>3
    <3>5. r[t][x - 1] \in Int /\ value[x] \in Int
      <4>1. r[t] \in [0 .. n -> Int]
        BY <1>1, <1>2
      <4>2. r[t][x - 1] \in Int
        BY <3>1, <4>1
      <4> QED  BY <4>2 DEF AreInts
    <3>6. r[s][x] = value[x] + r[t][x]
      BY <3>2, <3>4, <3>5
    <3> QED  BY <2>2, <3>6
  <2>3. CASE m > x
    <3>1. m - 1 >= x /\ m - 1 \in 0 .. n /\ m # x
      BY <1>1, <2>3
    <3>2. r[s][m - 1] = value[x] + r[t][m - 1]
      BY <1>4, <3>1
    <3>3. m \in t <=> m \in s
      BY <3>1
    <3> HIDE DEF t
    <3>4. /\ r[s][m] = IF m \in s THEN r[s][m - 1] + value[m] ELSE r[s][m - 1]
          /\ r[t][m] = IF m \in t THEN r[t][m - 1] + value[m] ELSE r[t][m - 1]
      BY <1>1, <1>2
    <3>5. r[t][m - 1] \in Int /\ value[x] \in Int /\ (m \in s => value[m] \in Int)
      <4>1. r[t] \in [0 .. n -> Int]
        BY <1>1, <1>2
      <4>2. r[t][m - 1] \in Int
        BY <3>1, <4>1
      <4> QED  BY <4>2 DEF AreInts
    <3>6. r[s][m] = value[x] + r[t][m]
      BY <3>2, <3>3, <3>4, <3>5
    <3> QED  BY <3>6
  <2> QED  BY <1>1, <2>1, <2>2, <2>3
<1>5. \A k \in 0 .. n : k \in G
  <2> HIDE DEF G
  <2> QED  BY <1>3, <1>4, UpTo
<1>6. n \in 0 .. n /\ n >= x
  BY <1>1
<1> QED  BY <1>5, <1>6

\* f adds up the values of each set, one element after the other.
IsSum(f, value, cells) ==
  f = [s \in SUBSET cells |->
         IF s = {} THEN 0 ELSE LET x == CHOOSE y \in s : TRUE IN value[x] + f[s \ {x}]]

\* What the values of a set add up to is what a loop over them has.
LEMMA SumOfSet ==
  ASSUME NEW n \in Nat, NEW step, NEW value, NEW r, AreRuns(r, n, 0, step),
         NEW cells \in SUBSET (1 .. n), Adds(cells, step, value), AreInts(cells, value)
  PROVE  /\ \E f : IsSum(f, value, cells)
         /\ \A f : IsSum(f, value, cells) => f[cells] = r[cells][n]
<1> DEFINE g == [s \in SUBSET cells |-> r[s][n]]
<1>1. r[{}][n] = 0
  <2>1. Within({}, 0) /\ 0 \in 0 .. n /\ n \in 0 .. n /\ {} \in SUBSET (1 .. n)
    BY DEF Within
  <2>2. r[{}][n] = r[{}][0]
    BY <2>1, RunsEnd
  <2> QED  BY <2>1, <2>2 DEF AreRuns
<1>2. ASSUME NEW s \in SUBSET cells, NEW x \in s
      PROVE  r[s][n] = value[x] + r[s \ {x}][n]
  <2>1. s \in SUBSET (1 .. n) /\ AreInts(s, value) /\ Adds(s, step, value)
    BY DEF AreInts, Adds
  <2>2. r[s][n] = value[x] + r[s \ {x}][n]
    <3>1. s \in SUBSET (1 .. n) /\ x \in s /\ AreRuns(r, n, 0, step)
      BY <1>2, <2>1
    <3> QED  BY <2>1, <3>1, RunsRemove
  <2> QED  BY <2>2
<1>3. ASSUME NEW s \in SUBSET cells
      PROVE  g[s] = IF s = {} THEN 0 ELSE LET x == CHOOSE y \in s : TRUE IN value[x] + g[s \ {x}]
  <2>1. CASE s = {}
    BY <1>1, <2>1
  <2>2. CASE s # {}
    <3> DEFINE x == CHOOSE y \in s : TRUE
    <3>1. x \in s
      BY <2>2
    <3> HIDE DEF x
    <3>2. g[s] = r[s][n] /\ g[s \ {x}] = r[s \ {x}][n]
      OBVIOUS
    <3> HIDE DEF g
    <3>3. g[s] = value[x] + g[s \ {x}]
      BY <1>2, <3>1, <3>2
    <3> QED  BY <2>2, <3>3 DEF x
  <2> QED  BY <2>1, <2>2
<1>4. IsSum(g, value, cells)
  BY <1>3 DEF IsSum
<1> HIDE DEF g
<1> SUFFICES ASSUME NEW iter, IsSum(iter, value, cells)  PROVE iter[cells] = r[cells][n]
  BY <1>4
<1>5. \A s \in SUBSET cells :
        iter[s] = IF s = {} THEN 0 ELSE LET x == CHOOSE y \in s : TRUE IN value[x] + iter[s \ {x}]
  BY DEF IsSum
<1>6. IsFiniteSet(1 .. n) /\ Cardinality(1 .. n) = n
  BY FS_Interval
<1>7. \A s \in SUBSET cells : IsFiniteSet(s) /\ Cardinality(s) \in Nat /\ Cardinality(s) <= n
  <2> SUFFICES ASSUME NEW s \in SUBSET cells
               PROVE  IsFiniteSet(s) /\ Cardinality(s) \in Nat /\ Cardinality(s) <= n
    OBVIOUS
  <2>1. IsFiniteSet(s) /\ Cardinality(s) <= n
    BY <1>6, FS_Subset
  <2> QED  BY <2>1, FS_CardinalityType
<1> DEFINE G == {k \in 0 .. n : \A s \in SUBSET cells : Cardinality(s) = k => iter[s] = r[s][n]}
<1>8. 0 \in G
  <2>1. \A s \in SUBSET cells : Cardinality(s) = 0 => s = {}
    BY <1>7, FS_EmptySet
  <2>2. iter[{}] = 0
    BY <1>5
  <2>3. \A s \in SUBSET cells : Cardinality(s) = 0 => iter[s] = r[s][n]
    BY <1>1, <2>1, <2>2
  <2> QED  BY <2>3
<1>9. ASSUME NEW m \in 1 .. n, m - 1 \in G
       PROVE  m \in G
  <2> SUFFICES ASSUME NEW s \in SUBSET cells, Cardinality(s) = m
               PROVE  iter[s] = r[s][n]
    OBVIOUS
  <2>1. s # {}
    <3>1. Cardinality({}) = 0
      BY FS_EmptySet
    <3> QED  BY <3>1
  <2> DEFINE x == CHOOSE y \in s : TRUE
             t == s \ {x}
  <2>2. x \in s
    BY <2>1
  <2>3. iter[s] = value[x] + iter[t]
    BY <1>5, <2>1
  <2> HIDE DEF x
  <2>4. t \in SUBSET cells /\ Cardinality(t) = m - 1
    BY <1>7, <2>2, FS_RemoveElement
  <2>5. r[s][n] = value[x] + r[t][n]
    BY <1>2, <2>2
  <2> HIDE DEF t
  <2>6. iter[t] = r[t][n]
    BY <1>9, <2>4
  <2> QED  BY <2>3, <2>5, <2>6
<1>10. \A k \in 0 .. n : k \in G
  <2> HIDE DEF G
  <2> QED  BY <1>8, <1>9, UpTo
<1>11. iter[cells] = r[cells][n]
  <2>1. Cardinality(cells) \in 0 .. n
    BY <1>7
  <2> QED  BY <1>10, <2>1
<1> QED  BY <1>11

\* SUM is the sum of the integers, as far as i64 goes.
LEMMA SumLoop ==
  ASSUME IInv, NEW c \in Cols
  PROVE  LET cells == {p \in Positions(table) : table.data[p][c].type = "integer"}
             N(p)  == table.data[p][c].n
             OneSign == (\A p \in cells : N(p) >= 0) \/ (\A p \in cells : N(p) <= 0)
         IN  OneSign => Loop("SUM", Column(c), AllRows) = Saturated(MapThenSumSet(N, cells))
<1> DEFINE n     == Len(table.ids)
           cells == {p \in Positions(table) : table.data[p][c].type = "integer"}
           N(p)  == table.data[p][c].n
           e     == Column(c)
           m     == Loop("SUM", Column(c), AllRows)
           value == [p \in 1 .. n |-> N(p)]
           step  == [k \in 1 .. n |-> [a \in Int |-> IF k \in cells THEN a + value[k] ELSE a]]
           S     == MapThenSumSet(N, cells)
<1>1. /\ n \in Nat /\ Positions(table) = 1 .. n /\ DOMAIN AllRows = 1 .. n
      /\ \A p \in 1 .. n : /\ CellOf(e, AllRows[p]) = table.data[p][c]
                           /\ table.data[p][c].type = "integer" =>
                                N(p) \in Int /\ IntMin <= N(p) /\ N(p) <= IntMax
  BY ColumnCells
<1> HIDE DEF n, e
<1>2. PICK f : IsLoop(f, n, "SUM", e, AllRows)
  <2>1. ReadsInt(n, e, AllRows)
    BY <1>1 DEF ReadsInt
  <2>2. "SUM" \in Loops
    BY DEF Loops
  <2> QED  BY <1>1, <2>1, <2>2, LoopRuns
<1>3. f \in [0 .. n -> Int] /\ m = f[n]
  BY <1>2 DEF IsLoop, e
<1> HIDE DEF m
<1>4. /\ f[0] = 0
      /\ \A k \in 1 .. n : f[k] = IF k \in cells THEN Saturated(f[k - 1] + N(k)) ELSE f[k - 1]
  BY <1>1, <1>2 DEF IsLoop, Start, Step
<1>5. cells \in SUBSET (1 .. n) /\ \A p \in cells : N(p) \in Int
  BY <1>1
<1>6. /\ \A p \in cells : value[p] = table.data[p][c].n /\ value[p] = N(p)
      /\ AreInts(cells, value)
  BY <1>5 DEF AreInts
<1>7. step \in [1 .. n -> [Int -> Int]]
  <2>1. \A k \in 1 .. n, a \in Int : k \in cells => a + value[k] \in Int
    <3> SUFFICES ASSUME NEW k \in 1 .. n, NEW a \in Int, k \in cells  PROVE a + value[k] \in Int
      OBVIOUS
    <3> HIDE DEF value, cells
    <3>1. value[k] \in Int
      BY <1>6 DEF AreInts
    <3> QED  BY <3>1
  <2> HIDE DEF value, cells
  <2> QED  BY <2>1
<1>8. Adds(cells, step, value)
  <2> HIDE DEF value, cells
  <2> QED  BY <1>5 DEF Adds
<1> HIDE DEF step, value
<1>9. PICK r : AreRuns(r, n, 0, step)
  <2>1. n \in Nat /\ 0 \in Int
    BY <1>1
  <2> HIDE DEF cells, N
  <2> QED  BY <1>7, <2>1, RunsExist
<1>10. S = r[cells][n]
  <2> DEFINE iter[s \in SUBSET cells] ==
               IF s = {} THEN 0 ELSE LET x == CHOOSE y \in s : TRUE IN N(x) + iter[s \ {x}]
             Solves(g) == g = [s \in SUBSET cells |->
               IF s = {} THEN 0 ELSE LET x == CHOOSE y \in s : TRUE IN N(x) + g[s \ {x}]]
  <2>1. S = iter[cells]
    BY DEF MapThenSumSet, MapThenFoldSet
  <2> HIDE DEF N, cells, S
  <2>2. ASSUME NEW g
        PROVE  Solves(g) <=> IsSum(g, value, cells)
    <3>1. ASSUME NEW s \in SUBSET cells, s # {}
          PROVE  N(CHOOSE y \in s : TRUE) = value[CHOOSE y \in s : TRUE]
      BY <1>6, <3>1
    <3>2. \A s \in SUBSET cells :
            (IF s = {} THEN 0 ELSE LET x == CHOOSE y \in s : TRUE IN N(x) + g[s \ {x}])
              = IF s = {} THEN 0 ELSE LET x == CHOOSE y \in s : TRUE IN value[x] + g[s \ {x}]
      BY <3>1
    <3> QED  BY <3>2 DEF IsSum
  <2>3. /\ \E g : IsSum(g, value, cells)
        /\ \A g : IsSum(g, value, cells) => g[cells] = r[cells][n]
    BY <1>1, <1>5, <1>6, <1>8, <1>9, SumOfSet
  <2>4. \E g : Solves(g)
    <3> HIDE DEF Solves
    <3> QED  BY <2>2, <2>3
  <2>5. Solves(iter)
    BY <2>4
  <2> HIDE DEF iter, Solves
  <2> QED  BY <2>1, <2>2, <2>3, <2>5
<1> HIDE DEF S, cells
<1> DEFINE t == r[cells]
<1>11. t \in [0 .. n -> Int] /\ t[0] = 0
  BY <1>5, <1>9 DEF AreRuns
<1>12. ASSUME NEW k \in 1 .. n
       PROVE  /\ k - 1 \in 0 .. n /\ t[k - 1] \in Int
              /\ t[k] = IF k \in cells THEN t[k - 1] + N(k) ELSE t[k - 1]
  <2>0. k - 1 \in 0 .. n
    BY <1>1
  <2>1. k - 1 \in 0 .. n /\ t[k] = IF k \in cells THEN step[k][t[k - 1]] ELSE t[k - 1]
    BY <1>5, <1>9, <2>0 DEF AreRuns
  <2>2. t[k - 1] \in Int
    BY <1>11, <2>1
  <2>3. k \in cells => step[k][t[k - 1]] = t[k - 1] + N(k)
    BY <1>6, <1>8, <2>2 DEF Adds
  <2> QED  BY <2>1, <2>2, <2>3
<1> HIDE DEF t, N
<1>13. ASSUME \A p \in cells : N(p) >= 0
       PROVE  f[n] = Saturated(t[n])
  <2> DEFINE G == {k \in 0 .. n : t[k] >= 0 /\ f[k] = Saturated(t[k])}
  <2>1. 0 \in G
    BY <1>1, <1>4, <1>11, SizesAssumption DEF Saturated
  <2>2. ASSUME NEW k \in 1 .. n, k - 1 \in G
        PROVE  k \in G
    <3>1. t[k - 1] \in Int /\ t[k - 1] >= 0 /\ f[k - 1] = Saturated(t[k - 1])
      BY <1>12, <2>2
    <3>2. CASE k \in cells
      <4>1. /\ N(k) \in Int /\ N(k) >= 0
            /\ t[k] = t[k - 1] + N(k) /\ f[k] = Saturated(f[k - 1] + N(k))
        BY <1>4, <1>5, <1>12, <1>13, <3>2
      <4>2. t[k] >= 0 /\ f[k] = Saturated(t[k])
        BY <3>1, <4>1, SizesAssumption DEF Saturated
      <4> QED  BY <4>2
    <3>3. CASE k \notin cells
      <4>1. t[k] = t[k - 1] /\ f[k] = f[k - 1]
        BY <1>4, <1>12, <3>3
      <4> QED  BY <3>1, <4>1
    <3> QED  BY <3>2, <3>3
  <2>3. \A k \in 0 .. n : k \in G
    <3> HIDE DEF G
    <3> QED  BY <1>1, <2>1, <2>2, UpTo
  <2> QED  BY <1>1, <2>3
<1>14. ASSUME \A p \in cells : N(p) <= 0
       PROVE  f[n] = Saturated(t[n])
  <2> DEFINE G == {k \in 0 .. n : t[k] <= 0 /\ f[k] = Saturated(t[k])}
  <2>1. 0 \in G
    BY <1>1, <1>4, <1>11, SizesAssumption DEF Saturated
  <2>2. ASSUME NEW k \in 1 .. n, k - 1 \in G
        PROVE  k \in G
    <3>1. t[k - 1] \in Int /\ t[k - 1] <= 0 /\ f[k - 1] = Saturated(t[k - 1])
      BY <1>12, <2>2
    <3>2. CASE k \in cells
      <4>1. /\ N(k) \in Int /\ N(k) <= 0
            /\ t[k] = t[k - 1] + N(k) /\ f[k] = Saturated(f[k - 1] + N(k))
        BY <1>4, <1>5, <1>12, <1>14, <3>2
      <4>2. t[k] <= 0 /\ f[k] = Saturated(t[k])
        BY <3>1, <4>1, SizesAssumption DEF Saturated
      <4> QED  BY <4>2
    <3>3. CASE k \notin cells
      <4>1. t[k] = t[k - 1] /\ f[k] = f[k - 1]
        BY <1>4, <1>12, <3>3
      <4> QED  BY <3>1, <4>1
    <3> QED  BY <3>2, <3>3
  <2>3. \A k \in 0 .. n : k \in G
    <3> HIDE DEF G
    <3> QED  BY <1>1, <2>1, <2>2, UpTo
  <2> QED  BY <1>1, <2>3
<1>15. (\A p \in cells : N(p) >= 0) \/ (\A p \in cells : N(p) <= 0) => m = Saturated(S)
  BY <1>3, <1>10, <1>13, <1>14 DEF t
<1> QED  BY <1>15 DEF m, S, cells, N

\* What SQL answers to an aggregate that is alone.
LEMMA SqlAggregate ==
  ASSUME NEW c, NEW func \in Loops \cup {"COUNT"}
  PROVE  Answer(<<Agg(func, Column(c))>>, AllRows)[1][1] =
           IF func = "COUNT" THEN Integer(Len(AllRows))
           ELSE LET m == Loop(func, Column(c), AllRows)
                IN  IF (func = "MIN" /\ m = IntMax) \/ (func = "MAX" /\ m = IntMin) THEN Null
                    ELSE Integer(m)
<1> DEFINE agg == Agg(func, Column(c))
           m   == Loop(func, Column(c), AllRows)
<1>1. agg.node = "agg" /\ agg.func = func /\ agg.arg = Column(c)
  BY DEF Agg
<1> HIDE DEF agg
<1>2. <<agg>> # <<>> /\ Len(<<agg>>) = 1 /\ <<agg>>[1] = agg
  OBVIOUS
<1>3. Answer(<<agg>>, AllRows) = << <<Aggregated(agg, AllRows)>> >>
  BY <1>1, <1>2 DEF Answer
<1>4. Answer(<<agg>>, AllRows)[1][1] = Aggregated(agg, AllRows)
  BY <1>3
<1>5. <<func, m>> \in {<<"MIN", IntMax>>, <<"MAX", IntMin>>}
        <=> (func = "MIN" /\ m = IntMax) \/ (func = "MAX" /\ m = IntMin)
  OBVIOUS
<1>6. Aggregated(agg, AllRows) =
        IF func = "COUNT" THEN Integer(Len(AllRows))
        ELSE IF <<func, m>> \in {<<"MIN", IntMax>>, <<"MAX", IntMin>>} THEN Null ELSE Integer(m)
  BY <1>1 DEF Aggregated
<1> HIDE DEF m
<1>7. Answer(<<agg>>, AllRows)[1][1] =
        IF func = "COUNT" THEN Integer(Len(AllRows))
        ELSE IF (func = "MIN" /\ m = IntMax) \/ (func = "MAX" /\ m = IntMin) THEN Null ELSE Integer(m)
  BY <1>4, <1>5, <1>6
<1> QED  BY <1>7 DEF agg, m

LEMMA AggregatesHold == IInv => AggregatesAgree
<1> SUFFICES ASSUME IInv, NEW c \in Cols
             PROVE  LET cells == {p \in Positions(table) : table.data[p][c].type = "integer"}
                        values == {p \in Positions(table) : table.data[p][c] # Null}
                        N(p)  == table.data[p][c].n
                        OneSign  == (\A p \in cells : N(p) >= 0) \/ (\A p \in cells : N(p) <= 0)
                        least    == {N(p) : p \in cells} \ {IntMax}
                        greatest == {N(p) : p \in cells} \ {IntMin}
                        Sql(func) == Answer(<<Agg(func, Column(c))>>, AllRows)[1][1]
                        Or0(v) == IF v = Null THEN 0 ELSE v.n
                    IN  /\ OneSign => SumColumn(c) = Saturated(MapThenSumSet(N, cells))
                        /\ Sql("SUM") = Integer(SumColumn(c))
                        /\ Sql("MIN") = IF least = {} THEN Null ELSE Integer(Min(least))
                        /\ Sql("MAX") = IF greatest = {} THEN Null ELSE Integer(Max(greatest))
                        /\ MinColumn(c) = Or0(Sql("MIN")) /\ MaxColumn(c) = Or0(Sql("MAX"))
                        /\ values = Positions(table) => Sql("COUNT") = Integer(Cardinality(values))
  BY DEF AggregatesAgree
<1> DEFINE cells == {p \in Positions(table) : table.data[p][c].type = "integer"}
           values == {p \in Positions(table) : table.data[p][c] # Null}
           N(p)  == table.data[p][c].n
           OneSign  == (\A p \in cells : N(p) >= 0) \/ (\A p \in cells : N(p) <= 0)
           least    == {N(p) : p \in cells} \ {IntMax}
           greatest == {N(p) : p \in cells} \ {IntMin}
           Sql(func) == Answer(<<Agg(func, Column(c))>>, AllRows)[1][1]
           Or0(v) == IF v = Null THEN 0 ELSE v.n
           m == Loop("MIN", Column(c), AllRows)
           g == Loop("MAX", Column(c), AllRows)
<1>1. OneSign => SumColumn(c) = Saturated(MapThenSumSet(N, cells))
  BY SumLoop DEF SumColumn
<1>2. m = IntMax <=> least = {}
  BY MinLoop
<1>3. least # {} => m = Min(least)
  BY MinLoop
<1>4. g = IntMin <=> greatest = {}
  BY MaxLoop
<1>5. greatest # {} => g = Max(greatest)
  BY MaxLoop
<1>6. Sql("SUM") = Integer(SumColumn(c))
  BY SqlAggregate DEF Loops, SumColumn
<1>7. values = Positions(table) => Sql("COUNT") = Integer(Cardinality(values))
  <2>1. Sql("COUNT") = Integer(Len(AllRows))
    BY SqlAggregate
  <2>2. Len(AllRows) = Len(table.ids) /\ Len(table.ids) \in Nat
    BY ColumnCells
  <2>3. Cardinality(Positions(table)) = Len(table.ids)
    BY <2>2, FS_Interval DEF Positions
  <2> HIDE DEF Sql, values
  <2> QED  BY <2>1, <2>2, <2>3
<1>8. Sql("MIN") = IF m = IntMax THEN Null ELSE Integer(m)
  BY SqlAggregate DEF Loops
<1>9. Sql("MAX") = IF g = IntMin THEN Null ELSE Integer(g)
  BY SqlAggregate DEF Loops
<1>10. /\ MinColumn(c) = IF m = IntMax THEN 0 ELSE m
       /\ MaxColumn(c) = IF g = IntMin THEN 0 ELSE g
  BY DEF MinColumn, MaxColumn
<1>11. \A x : Or0(Integer(x)) = x /\ Or0(Null) = 0
  BY Constructors
<1> HIDE DEF least, greatest, Sql, Or0, m, g, values
<1>12. /\ Sql("MIN") = IF least = {} THEN Null ELSE Integer(Min(least))
       /\ Sql("MAX") = IF greatest = {} THEN Null ELSE Integer(Max(greatest))
  BY <1>2, <1>3, <1>4, <1>5, <1>8, <1>9
<1>13. MinColumn(c) = Or0(Sql("MIN")) /\ MaxColumn(c) = Or0(Sql("MAX"))
  BY <1>8, <1>9, <1>10, <1>11
<1> QED  BY <1>1, <1>6, <1>7, <1>12, <1>13 DEF least, greatest, Sql, Or0, values

\* SQL's SUM, MIN and MAX of a column are those of its integers, as far as i64
\* goes, and the column functions of the N-API say the same; COUNT of a column
\* without Null is the number of its values.
THEOREM AggregatesDoAgree == SqlSpec => []AggregatesAgree
BY AggregatesHold, QueriesInv, PTL
=============================================================================
