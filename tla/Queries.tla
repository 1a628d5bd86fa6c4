------------------------------ MODULE Queries ------------------------------
(***************************************************************************)
(* Reading a table: string interning (core/value.rs), expressions, their   *)
(* plans and LIKE (core/query.rs), Database::query_expr, hash_join and the *)
(* WHERE clause of the SQL executor.                                       *)
(*                                                                         *)
(* Callers speak of strings, cells hold the symbols of the table's string  *)
(* pool, and an index, a plan, a join and a comparison each convert on     *)
(* their own.  The module asks whether all the ways to read agree.         *)
(*                                                                         *)
(* A string is the sequence of its characters, a result the set of the     *)
(* positions it consists of; the order of results is left out.             *)
(***************************************************************************)
EXTENDS TableOps, SequencesExt

CONSTANTS
  StringCols,   \* the columns of type String
  Texts,        \* the strings callers write
  Rows,         \* the rows callers write: [Cols -> values], strings as such
  Nodes,        \* the nodes of the expressions, parts before what they are part of
  Conditions,   \* the expressions that are conditions; one is the number of its node
  Others        \* the tables the table is joined with

VARIABLES
  table,
  pool         \* string_pool: symbol k stands for pool[k + 1]

vars == <<table, pool>>

-----------------------------------------------------------------------------
(* Values *)

Null              == [type |-> "null"]
Integer(n)        == [type |-> "integer", n |-> n]
String(s)         == [type |-> "string", chars |-> s]
InternedString(k) == [type |-> "interned", symbol |-> k]
Boolean(b)        == [type |-> "boolean", b |-> b]

Percent    == 37
Underscore == 95

Rank == [null |-> 0, integer |-> 1, string |-> 2, interned |-> 3, boolean |-> 4]

\* str::cmp: after k equal characters, s ends or has the smaller one.
StringLess(s, t) ==
  \E k \in 0 .. Len(s) :
    /\ k < Len(t)
    /\ \A i \in 1 .. k : s[i] = t[i]
    /\ k = Len(s) \/ s[k + 1] < t[k + 1]

\* Ord for Value: by variant first.
ValueLess(l, r) ==
  \/ Rank[l.type] < Rank[r.type]
  \/ /\ l.type = r.type
     /\ CASE l.type = "null"     -> FALSE
          [] l.type = "integer"  -> l.n < r.n
          [] l.type = "string"   -> StringLess(l.chars, r.chars)
          [] l.type = "interned" -> l.symbol < r.symbol
          [] l.type = "boolean"  -> ~l.b /\ r.b

\* StringPool: get_id, resolve and intern
Holding(strings, s) == \E k \in 1 .. Len(strings) : strings[k] = s
Pooled(s) == Holding(pool, s)
SymbolOf(strings, s) == (CHOOSE k \in 1 .. Len(strings) : strings[k] = s) - 1
Resolved(v) == IF v.type = "interned" THEN String(pool[v.symbol + 1]) ELSE v

StringsOf(row) == {row[c].chars : c \in {d \in Cols : row[d].type = "string"}}

\* intern_row: the pool after it, and the row it leaves.
Interning(strings, row) ==
  strings \o SetToSeq({s \in StringsOf(row) : ~Holding(strings, s)})

InternRow(strings, row) ==
  [c \in Cols |-> IF row[c].type = "string"
                  THEN InternedString(SymbolOf(strings, row[c].chars)) ELSE row[c]]

Written == {v \in Values : v.type # "interned"} \cup {String(s) : s \in Texts}

IsString(v) == v.type = "string" /\ v = String(v.chars) /\ v.chars \in Seq(Nat)

IsCell(v) ==
  \/ v = Null
  \/ v.type = "integer" /\ v = Integer(v.n) /\ v.n \in Int
  \/ v.type = "boolean" /\ v = Boolean(v.b) /\ v.b \in BOOLEAN
  \/ v.type = "interned" /\ v = InternedString(v.symbol) /\ v.symbol \in Nat

\* Every string callers write can get a symbol that fits a cell.
ASSUME ValuesAssumption ==
  /\ \A v \in Values : IsCell(v)
  /\ IsFiniteSet(Texts) /\ \A s \in Texts : s \in Seq(Nat)
  /\ \A k \in 0 .. Cardinality(Texts) - 1 : InternedString(k) \in Values

\* insert_values checks the type of each cell.  "id" names the id of a row.
ASSUME RowsAssumption ==
  /\ \A row \in Rows : row \in [Cols -> Written]
  /\ \A row \in Rows, c \in Cols \ StringCols : row[c].type # "string"
  /\ "id" \notin Cols

-----------------------------------------------------------------------------
(* Expressions *)

Literal(v)       == [node |-> "literal", value |-> v]
Column(c)        == [node |-> "column", name |-> c]
Binary(l, op, r) == [node |-> "binary", left |-> l, op |-> op, right |-> r]
Not(e)           == [node |-> "not", arg |-> e]

Expressions == DOMAIN Nodes

IsNode(n, k) ==
  \/ n.node = "literal" /\ n = Literal(n.value)
  \/ n.node = "column"  /\ n = Column(n.name)
  \/ n.node = "binary"  /\ n = Binary(n.left, n.op, n.right) /\ {n.left, n.right} \subseteq 1 .. k - 1
  \/ n.node = "not"     /\ n = Not(n.arg) /\ n.arg \in 1 .. k - 1

ASSUME NodesAssumption ==
  Expressions = 1 .. Len(Nodes) /\ \A k \in Expressions : IsNode(Nodes[k], k)

\* Mutant: what is left of the pattern has to be empty.
EndsHere(pat, j) == j = Len(pat)

OnlyPercentsLeft(pat, j) == \A k \in j + 1 .. Len(pat) : pat[k] = Percent

LoopStates(s, pat) ==
  {x \in (0 .. Len(s)) \X (0 .. Len(pat)) \X (0 .. Len(s)) \X (0 .. Len(pat)) : x[3] <= x[1]}

\* The loop of like_match.  i and j are the next characters of the string and
\* the pattern (0-based); after a % the next match is tried at from + 1, with
\* the pattern from star on, and star is 0 before the first %.
LikeLoop(s, pat) ==
  LET matches[x \in LoopStates(s, pat)] ==
        LET i == x[1]
            j == x[2]
            from == x[3]
            star == x[4]
        IN  IF i = Len(s) THEN OnlyPercentsLeft(pat, j)
            ELSE IF j < Len(pat) /\ pat[j + 1] \in {Underscore, s[i + 1]}
                 THEN matches[<<i + 1, j + 1, from, star>>]
            ELSE IF j < Len(pat) /\ pat[j + 1] = Percent
                 THEN matches[<<i, j + 1, i, j + 1>>]
            ELSE star # 0 /\ matches[<<from + 1, star, from + 1, star>>]
  IN  matches[<<0, 0, 0, 0>>]

LikeMatch(v, pat) ==
  v.type = "string" /\ pat.type = "string" /\ LikeLoop(v.chars, pat.chars)

\* The operators, on two values.
Apply(op, l, r) ==
  CASE op = "="    -> Boolean(l = r)
    [] op = "<>"   -> Boolean(l # r)
    [] op = "<"    -> Boolean(ValueLess(l, r))
    [] op = "<="   -> Boolean(~ValueLess(r, l))
    [] op = ">"    -> Boolean(ValueLess(r, l))
    [] op = ">="   -> Boolean(~ValueLess(l, r))
    [] op = "LIKE" -> Boolean(LikeMatch(l, r))
    [] op = "AND"  -> Boolean(l = Boolean(TRUE) /\ r = Boolean(TRUE))
    [] op = "OR"   -> Boolean({l.type, r.type} = {"boolean"} /\ Boolean(TRUE) \in {l, r})

Negated(v) == Boolean(v.type = "boolean" /\ v # Boolean(TRUE))

\* evaluate: cells as they are, symbols included; a column the schema does not
\* have, "id" among them, is Null.
Evaluate(e, p) ==
  LET value[k \in Expressions] ==
        LET n == Nodes[k]
        IN  CASE n.node = "literal" -> n.value
              [] n.node = "column"  -> IF n.name \in Cols THEN table.data[p][n.name] ELSE Null
              [] n.node = "binary"  -> Apply(n.op, value[n.left], value[n.right])
              [] n.node = "not"     -> Negated(value[n.arg])
  IN  value[e]

\* Mutant: a string that no cell holds is compared as it is.
ComparableSymbolsOnly(l, r) ==
  IF l.type = "interned" /\ r.type = "string" /\ Pooled(r.chars)
  THEN <<l, InternedString(SymbolOf(pool, r.chars))>> ELSE <<l, r>>

\* The two sides of a comparison, where one is a symbol and the other a string
\* or a symbol.
Comparable(l, r) ==
  CASE l.type = "interned" /\ r.type = "string" ->
         IF Pooled(r.chars) THEN <<l, InternedString(SymbolOf(pool, r.chars))>>
                            ELSE <<Resolved(l), r>>
    [] l.type = "string" /\ r.type = "interned" ->
         IF Pooled(l.chars) THEN <<InternedString(SymbolOf(pool, l.chars)), r>>
                            ELSE <<l, Resolved(r)>>
    [] l.type = "interned" /\ r.type = "interned" -> <<Integer(l.symbol), Integer(r.symbol)>>
    [] OTHER -> <<l, r>>

\* A comparison of evaluate_with_row.
ApplyToRow(op, l, r) ==
  LET sides == Comparable(l, r)
  IN  IF op = "LIKE" THEN Apply(op, Resolved(sides[1]), Resolved(sides[2]))
                     ELSE Apply(op, sides[1], sides[2])

\* evaluate_with_row: knows the id of the row and the pool of the table, but
\* passes Not and literals on to evaluate.
EvaluateWithRow(e, p) ==
  LET value[k \in Expressions] ==
        LET n == Nodes[k]
        IN  CASE n.node = "column" -> IF n.name \in Cols THEN table.data[p][n.name]
                                      ELSE IF n.name = "id" THEN Integer(table.ids[p]) ELSE Null
              [] n.node = "binary" -> ApplyToRow(n.op, value[n.left], value[n.right])
              [] OTHER -> Evaluate(k, p)
  IN  value[e]

IsTrue(e, p) == EvaluateWithRow(e, p) = Boolean(TRUE)

Select(e) == {p \in Positions(table) : IsTrue(e, p)}

-----------------------------------------------------------------------------
(* Ways to look rows up *)

\* Mutant: the string itself is looked up.
KeyAsGiven(v) == v

\* What a value is compared with or looked up as.
Key(v) == IF v.type = "string" /\ Pooled(v.chars)
          THEN InternedString(SymbolOf(pool, v.chars)) ELSE v

Indexed(c) == c \in Cols /\ table.indexes[c].kind # "none"

\* find_by_column, and lookup_indexed_or_scan of the SQL executor
FindByColumn(c, v) ==
  LET key == Key(v)
  IN  CASE Indexed(c)    -> IF key \in Values THEN Lookup(table, c, key) ELSE {}
        [] ~Indexed(c) /\ c \in Cols -> Scan(table, c, key)
        [] c = "id"      -> {p \in Positions(table) : Integer(table.ids[p]) = key}
        [] OTHER         -> {}

\* The column and the value of `column = literal`, either way round, or <<>>.
EqLiteral(e) ==
  LET n == Nodes[e]
      l == Nodes[n.left]
      r == Nodes[n.right]
  IN  IF n.node # "binary" \/ n.op # "=" THEN <<>>
      ELSE IF l.node = "column" /\ r.node = "literal" THEN <<l.name, r.value>>
      ELSE IF l.node = "literal" /\ r.node = "column" THEN <<r.name, l.value>>
      ELSE <<>>

FullScan(e)           == [scan |-> "full", filter |-> e]
IndexScan(eq)         == [scan |-> "index", eq |-> eq]
FilteredScan(eq, e)   == [scan |-> "filtered", eq |-> eq, filter |-> e]

ByIndex(e) == EqLiteral(e) # <<>> /\ Indexed(EqLiteral(e)[1])

\* Mutant: a side of AND that has an index is the whole plan.
PlanDropsFilter(e) ==
  IF ByIndex(e) THEN IndexScan(EqLiteral(e))
  ELSE IF Nodes[e].node = "binary" /\ Nodes[e].op = "AND" /\ ByIndex(Nodes[e].left)
       THEN IndexScan(EqLiteral(Nodes[e].left))
  ELSE FullScan(e)

\* Expr::plan.  Only a side of AND that is an index scan by itself counts.
Plan(e) ==
  LET n == Nodes[e]
      conjunction == n.node = "binary" /\ n.op = "AND"
  IN  CASE ByIndex(e) -> IndexScan(EqLiteral(e))
        [] conjunction /\ ByIndex(n.left) -> FilteredScan(EqLiteral(n.left), n.right)
        [] conjunction /\ ~ByIndex(n.left) /\ ByIndex(n.right) ->
             FilteredScan(EqLiteral(n.right), n.left)
        [] OTHER -> FullScan(e)

ExecutePlan(plan) ==
  CASE plan.scan = "full"     -> Select(plan.filter)
    [] plan.scan = "index"    -> FindByColumn(plan.eq[1], plan.eq[2])
    [] plan.scan = "filtered" -> {p \in FindByColumn(plan.eq[1], plan.eq[2]) :
                                    IsTrue(plan.filter, p)}

QueryExpr(e) == ExecutePlan(Plan(e))

\* The rows SELECT, UPDATE and DELETE take for a WHERE clause: by id, by
\* `column = literal`, or by a scan.
DirectId(e) ==
  LET eq == EqLiteral(e)
  IN  IF eq # <<>> /\ eq[1] = "id" /\ eq[2].type = "integer" /\ eq[2].n \in Id
      THEN {Get(table, eq[2].n)} \ {0} ELSE {}

Where(e) ==
  CASE DirectId(e) # {}  -> DirectId(e)
    [] DirectId(e) = {} /\ EqLiteral(e) # <<>> ->
         FindByColumn(EqLiteral(e)[1], EqLiteral(e)[2])
    [] OTHER -> Select(e)

\* get_value_by_index
ValueAt(t, c, p) == IF c = "id" THEN Integer(t.ids[p]) ELSE t.data[p][c]

\* The fast path of hash_join when idTable is joined on its id: the value is
\* taken for a position of idTable.
DirectJoin(idTable, t, c) ==
  {x \in Positions(idTable) \X Positions(t) : ValueAt(t, c, x[2]) = Integer(x[1] - 1)}

\* Mutant: the fast path is taken whatever the mode of the table.
DirectAnyMode(c, t) == c = "id"

Direct(c, t) == c = "id" /\ t.sequential

Swapped(pairs) == {<<x[2], x[1]>> : x \in pairs}

\* Building on one table and probing with the other: hashes, buckets and the
\* Bloom filter only spare comparisons, and Null is not looked for.
EqualPairs(build, bcol, probe, pcol) ==
  {x \in Positions(build) \X Positions(probe) :
     /\ ValueAt(build, bcol, x[1]) = ValueAt(probe, pcol, x[2])
     /\ ValueAt(build, bcol, x[1]) # Null}

\* hash_join: the smaller table is the build table.
HashJoin(t1, col1, t2, col2) ==
  LET Join(build, bcol, probe, pcol) ==
        IF Direct(bcol, build) THEN DirectJoin(build, probe, pcol)
        ELSE IF Direct(pcol, probe) THEN Swapped(DirectJoin(probe, build, bcol))
        ELSE EqualPairs(build, bcol, probe, pcol)
  IN  IF Len(t1.ids) <= Len(t2.ids) THEN Join(t1, col1, t2, col2)
                                    ELSE Swapped(Join(t2, col2, t1, col1))

-----------------------------------------------------------------------------
(* The operations *)

Init ==
  /\ table = EmptyTable
  /\ pool = <<>>

\* insert_values
InsertRow(row) ==
  /\ table.nextId < AutoLimit
  /\ pool' = Interning(pool, row)
  /\ table' = Insert(table, InternRow(pool', row))

DeleteRow(id) ==
  /\ GetIndex(table, id) # 0
  /\ table' = Delete(table, id)
  /\ UNCHANGED pool

MakeIndex(c) ==
  /\ ~Indexed(c)
  /\ table' = CreateIndex(table, c, "plain")
  /\ UNCHANGED pool

\* A statement that reads by id fills id_map first.
PopulateIdMap ==
  /\ table.sequential
  /\ table' = LeaveSequential(table)
  /\ UNCHANGED pool

Next ==
  \/ \E row \in Rows : InsertRow(row)
  \/ \E id \in Id : DeleteRow(id)
  \/ \E c \in Cols : MakeIndex(c)
  \/ PopulateIdMap

Spec == Init /\ [][Next]_vars

-----------------------------------------------------------------------------
(* What reading promises *)

Comparisons == {"=", "<>", "<", "<=", ">", ">="}

IsLiteral(v) == IsString(v) \/ (IsCell(v) /\ v.type # "interned")

IsLeaf(n) == n.node = "column" \/ (n.node = "literal" /\ IsLiteral(n.value))

IsComparison(n) ==
  n.node = "binary" /\ n.op \in Comparisons /\ IsLeaf(Nodes[n.left]) /\ IsLeaf(Nodes[n.right])

\* A leaf that is no string, and one that evaluate takes for what it is.
NoString(n) == IF n.node = "column" THEN n.name \notin StringCols ELSE n.value.type # "string"
Plain(n)    == NoString(n) /\ (n.node = "column" => n.name # "id")

\* Strings have no order: the code compares their symbols.  Not is for plain
\* comparisons: evaluate knows no id and no string.
IsCondition(e) ==
  LET n == Nodes[e]
  IN  \/ /\ IsComparison(n)
         /\ n.op \in {"=", "<>"} \/ NoString(Nodes[n.left]) \/ NoString(Nodes[n.right])
         /\ EqLiteral(e) # <<>> => EqLiteral(e)[1] \in Cols \cup {"id"} \/ EqLiteral(e)[2] # Null
      \/ /\ n.node = "binary" /\ n.op \in {"AND", "OR"}
         /\ n.left \in Conditions /\ n.right \in Conditions
      \/ /\ n.node = "not" /\ n.arg \in Conditions /\ IsComparison(Nodes[n.arg])
         /\ Plain(Nodes[Nodes[n.arg].left]) /\ Plain(Nodes[Nodes[n.arg].right])

ASSUME ConditionsAssumption ==
  Conditions \subseteq Expressions /\ \A e \in Conditions : IsCondition(e)

\* The tables that are joined are tables: a sequential one has the ids 0, 1, ...
ASSUME OthersAssumption ==
  \A u \in Others : u.sequential => \A p \in Positions(u) : u.ids[p] = p - 1

\* The meaning of a condition on the row at p, strings being strings.
Term(n, p) ==
  CASE n.node = "literal" -> n.value
    [] n.node = "column" /\ n.name \in Cols -> Resolved(table.data[p][n.name])
    [] n.node = "column" /\ n.name = "id"   -> Integer(table.ids[p])
    [] OTHER -> Null

Compare(op, l, r) ==
  CASE op = "="  -> l = r
    [] op = "<>" -> l # r
    [] op = "<"  -> ValueLess(l, r)
    [] op = "<=" -> ~ValueLess(r, l)
    [] op = ">"  -> ValueLess(r, l)
    [] op = ">=" -> ~ValueLess(l, r)

\* s matches pat: its characters can be given out to the pattern, each to one
\* place, in order; ends[j] is where the part of place j ends.  % takes any
\* number, _ any one, another character itself.
Matches(s, pat) ==
  \E ends \in [0 .. Len(pat) -> 0 .. Len(s)] :
    /\ ends[0] = 0 /\ ends[Len(pat)] = Len(s)
    /\ \A j \in 1 .. Len(pat) :
         \/ pat[j] = Percent /\ ends[j - 1] <= ends[j]
         \/ /\ pat[j] # Percent /\ ends[j] = ends[j - 1] + 1
            /\ pat[j] \in {Underscore, s[ends[j]]}

Holds(e, p) ==
  LET holds[k \in Expressions] ==
        LET n == Nodes[k]
        IN  CASE n.node = "not" -> ~holds[n.arg]
              [] n.node = "binary" /\ n.op = "AND" -> holds[n.left] /\ holds[n.right]
              [] n.node = "binary" /\ n.op = "OR"  -> holds[n.left] \/ holds[n.right]
              [] OTHER -> Compare(n.op, Term(Nodes[n.left], p), Term(Nodes[n.right], p))
  IN  holds[e]

\* column LIKE string
IsLike(n) ==
  /\ n.node = "binary" /\ n.op = "LIKE"
  /\ Nodes[n.left].node = "column" /\ Nodes[n.left].name \in Cols
  /\ Nodes[n.right].node = "literal" /\ IsString(Nodes[n.right].value)

Likes == {e \in Expressions : IsLike(Nodes[e])}

Meaning(e) == {p \in Positions(table) : Holds(e, p)}

\* Interning shows nowhere: with its cells compared by symbol or by string,
\* whichever evaluate_with_row finds, a condition has the rows it has when
\* every cell is the string that was written, through every insert, update and
\* delete and whether or not the literal occurs in the table.
InterningInvisible == \A e \in Conditions : Select(e) = Meaning(e)

\* The plan of query_expr never changes the result: an index scan, with the
\* postings updates and deletes leave behind, and the filter on top of it give
\* the rows of a scan.
PlanSound == \A e \in Conditions : QueryExpr(e) = Select(e)

\* The executor's short cuts for WHERE id = n and WHERE c = v find the rows
\* the condition has, so SELECT, UPDATE and DELETE agree with a scan.
WhereSound == \A e \in Conditions : Where(e) = Meaning(e)

\* LIKE with a pattern, % and _ anywhere in it, has the rows whose string
\* matches it: the loop that goes back to the last % misses no match.  A % in
\* the string is outside of this: the loop takes the pattern's for it.
LikeSound ==
  \A e \in Likes, p \in Positions(table) :
    LET v   == Resolved(table.data[p][Nodes[Nodes[e].left].name])
        pat == Nodes[Nodes[e].right].value.chars
    IN  IF v.type # "string" THEN ~IsTrue(e, p)
        ELSE Percent \in ToSet(v.chars) \/ (IsTrue(e, p) <=> Matches(v.chars, pat))

\* hash_join gives the pairs of rows with equal values that are not Null,
\* whichever table is the smaller one and whichever path it takes.  Two
\* tables are joined on integers only: their pools differ.
JoinExact ==
  LET Exact(t, c, u, d) ==
        {x \in Positions(t) \X Positions(u) :
           ValueAt(t, c, x[1]) = ValueAt(u, d, x[2]) /\ ValueAt(t, c, x[1]) # Null}
      JoinCols == (Cols \ StringCols) \cup {"id"}
  IN  /\ \A u \in Others, c, d \in JoinCols :
           /\ HashJoin(table, c, u, d) = Exact(table, c, u, d)
           /\ HashJoin(u, d, table, c) = Exact(u, d, table, c)
      /\ \A c, d \in Cols \cup {"id"} :
           HashJoin(table, c, table, d) = Exact(table, c, table, d)
=============================================================================
