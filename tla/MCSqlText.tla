----------------------------- MODULE MCSqlText -----------------------------
EXTENDS SqlText

Integers12 == {"1", "2"}
Unsigned == {"2^64-1"}
Floats == {"1.5"}
LetterA == {"a"}
DigitOne == {"1"}
SomeChars == {"a", "1", " ", "'", "\"", ".", "(", "!", "<", "=", ">", "#"}

One == Literal("Integer", "1")
a == Column("a")
Star == <<>>
Equal(l, r) == Binary(l, "=", r)
SomeConditions == {Equal(a, One), Binary(Placeholder, "LIKE", Compound("t", "b"))}

Select(cols, join, order, limit, offset) ==
  [st |-> "Select", columns |-> cols, table |-> "t", join |-> join, selection |-> <<>>,
   orderBy |-> order, limit |-> limit, offset |-> offset]
Selected(x, alias) == [expr |-> x, alias |-> alias]
ByB == [column |-> "b", descending |-> TRUE]
WithU == [table |-> "u", left |-> <<"t", "a">>, right |-> <<"u", "b">>]
Set(c, x) == [column |-> c, value |-> x]

SomeStatements ==
  {[st |-> "Create", name |-> "t",
    columns |-> <<ColumnDef("a", "Integer", <<FALSE>>, <<Literal("Float", "1.5")>>),
                  ColumnDef("b", "String", <<>>, <<>>)>>],
   [st |-> "Drop", name |-> "t"],
   [st |-> "Alter", name |-> "t", add |-> ColumnDef("b", "Boolean", <<>>, <<>>)],
   [st |-> "Insert", table |-> "t", columns |-> <<"a", "b">>,
    values |-> <<<<Placeholder, Nested(Placeholder)>>, <<Literal("NULL", ""), Placeholder>>>>],
   [st |-> "Insert", table |-> "t", columns |-> <<>>, values |-> <<<<Literal("String", "x"), a>>>>],
   [st |-> "Update", table |-> "t", assignments |-> <<Set("a", Placeholder), Set("b", One)>>,
    selection |-> <<>>],
   [st |-> "Delete", table |-> "t", selection |-> <<>>],
   Select(Star, <<WithU>>, <<[ByB EXCEPT !.descending = FALSE]>>, <<>>, <<>>),
   Select(Star, <<>>, <<ByB>>, <<"2">>, <<"2^64-1">>),
   Select(<<Selected(Agg("COUNT", One), <<"n">>), Selected(Agg("SUM", a), <<>>)>>, <<>>, <<>>, <<>>, <<>>),
   Select(<<Selected(Compound("t", "a"), <<"b">>), Selected(Placeholder, <<>>)>>, <<>>, <<>>, <<"1">>, <<>>)}

SomeTokens ==
  Range(Symbols(<<"?", "AND", "OR", "WHERE", "(", ")", ",", ".", "=", "AS", "NOT", "*", "Eof",
                  "LIMIT", "SET", "FROM", "VALUES", "INNER", "JOIN", "TEXT", "DROP", "DESC">>))
    \cup {Ident("u"), Number("2"), Quoted("y")}
=============================================================================
