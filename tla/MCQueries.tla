----------------------------- MODULE MCQueries -----------------------------
EXTENDS SqlResults

Columns == {"num", "name"}

CellValues == {Null} \cup {Integer(n) : n \in 0 .. 2} \cup {InternedString(k) : k \in 0 .. 1}

a == 97
b == 98

A   == <<a>>
AAB == <<a, a, b>>
NoCell == <<a, b>>  \* a string no row holds

SomeRows == {[num |-> Null,       name |-> String(AAB)],
            [num |-> Integer(0), name |-> String(A)],
            [num |-> Integer(1), name |-> String(A)]}

WrittenTexts == {A, AAB}

Strings  == {String(A), String(AAB), String(NoCell)}
Integers == {Integer(0), Integer(1)}

\* Comparisons of equality, either way round; "ghost" is no column.
Equality ==
  {Binary(Column(c), "=", Literal(v)) :
     c \in {"num", "name", "id", "ghost"}, v \in Strings \cup Integers}
  \cup {Binary(Literal(v), "<>", Column("name")) : v \in Strings \cup Integers}
  \cup {Binary(Literal(v), "=", Column(c)) : c \in {"name", "id"}, v \in Strings}
  \cup {Binary(Column("num"), "=", Literal(Null))}
  \cup {Binary(Column("name"), op, Column(c)) : c \in {"num", "name", "id"}, op \in {"=", "<>"}}

\* Order is asked of integers and of Null: strings are ordered by symbol.
Order == {Binary(Column(c), op, Literal(v)) :
            c \in {"num", "id"}, op \in {"<", ">="}, v \in Integers}

Simple == {Binary(Column("num"), "=", Literal(Integer(1))),
           Binary(Literal(String(A)), "=", Column("name")),
           Binary(Column("name"), "=", Literal(String(NoCell))),
           Binary(Column("id"), "=", Literal(Integer(0))),
           Binary(Column("num"), "<", Literal(Integer(1)))}

Conjunctions == {Binary(e, "AND", f) : e, f \in Simple}
Disjunctions == {Binary(e, "OR", f) : e, f \in {s \in Simple : s.left = Column("num") \/ s.op # "="}}

Nested == {Binary(e, "AND", Binary(f, "AND", g)) :
             e \in Simple, f, g \in {s \in Simple : s.left.node = "literal" \/ s.op = "<"}}

\* Not is evaluated on the cells as they are, which is right for numbers.
Unnegated == {Binary(Column("num"), op, Literal(v)) : op \in {"=", "<"}, v \in Integers}
Negations == {Not(e) : e \in Unnegated}

\* Conditions on the column that is assigned, on the other one and on the id.
Selections == {Binary(Column("num"), "=", Literal(Integer(1))),
               Binary(Column("name"), "=", Literal(String(A))),
               Binary(Column("id"), "=", Literal(Integer(0))),
               Binary(Column("num"), "<", Literal(Integer(1)))}

OneCell == {[num |-> Integer(0)], [name |-> String(A)]}

Words(alphabet, length) == UNION {[1 .. n -> alphabet] : n \in 0 .. length}
ShortPatterns == Words({a, b, Percent}, 3) \cup Words({a, Percent, Underscore}, 2)

Patterns == {Binary(Column("name"), "LIKE", Literal(String(pat))) : pat \in ShortPatterns}
              \cup {Binary(Column("num"), "LIKE", Literal(String(<<Percent>>)))}

(***************************************************************************)
(* The nodes: expressions written as trees, layer by layer, so that parts  *)
(* come before what they are part of, and the number of each tree.         *)
(***************************************************************************)
Compared == Equality \cup Order \cup Simple \cup Unnegated \cup Patterns
Leaves   == {e.left : e \in Compared} \cup {e.right : e \in Compared}
Inner    == Conjunctions \cup Disjunctions \cup Negations

Listed(S) ==
  LET list[T \in SUBSET S] ==
        IF T = {} THEN <<>> ELSE LET e == CHOOSE e \in T : TRUE IN <<e>> \o list[T \ {e}]
  IN  list[S]

Trees  == Listed(Leaves) \o Listed(Compared) \o Listed(Inner) \o Listed(Nested)

\* Where each tree is among them.
NumberIn(trees) == [e \in Range(trees) |-> CHOOSE k \in DOMAIN trees : trees[k] = e]

\* An empty sequence is appended for TLC to evaluate the nodes once.
NumberedNodes ==
  LET trees  == Trees
      number == NumberIn(trees)
  IN  [k \in DOMAIN trees |->
         LET e == trees[k]
         IN  CASE e.node = "binary" -> Binary(number[e.left], e.op, number[e.right])
               [] e.node = "not"    -> Not(number[e.arg])
               [] OTHER -> e] \o <<>>

NumbersOf(S) == LET trees  == Trees
                    number == NumberIn(trees)
                IN  {number[e] : e \in S}

ConditionNumbers ==
  NumbersOf(Equality \cup Order \cup Simple \cup Unnegated \cup Inner \cup Nested)
ClauseNumbers == NumbersOf(Selections)

\* Tables to join with: one whose ids are its positions, one after a delete.
PartnerRow(v) == [num |-> v, name |-> Null]
Dense    == Insert(Insert(EmptyTable, PartnerRow(Integer(1))), PartnerRow(Integer(0)))
Shifted  == Delete(Insert(Dense, PartnerRow(Integer(2))), 0)
Partners == {Dense, Shifted}

\* The constants.  With a definition of its own each is evaluated once; TLC's
\* statistics look behind every use of a constant, but not into a LET.
AllNodes      == LET nodes      == NumberedNodes    IN nodes
AllConditions == LET conditions == ConditionNumbers IN conditions
SomeClauses   == LET clauses    == ClauseNumbers    IN clauses
SomePartners  == LET partners   == Partners         IN partners
=============================================================================
