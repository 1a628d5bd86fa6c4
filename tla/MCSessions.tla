----------------------------- MODULE MCSessions -----------------------------
EXTENDS Sessions, TLC

CONSTANTS one, two, notes

Column(name, admits) == [name |-> name, admits |-> admits]

\* a is NOT NULL, b may be Null and does not admit two.
a == Column("a", {one, two})
b == Column("b", {one, Null})

OneOrTwo == {<<a>>, <<a, b>>}

\* ALTER adds a column that may be Null, under a new name, one that is there or id.
Added == {Column("a", {one, two, Null}), Column("c", {one, two, Null}),
          Column("id", {0, 1, Null})}

\* Columns a table does not have are passed over.
Maps == {[a |-> one, b |-> one, id |-> 1], [b |-> one]}

Where(c, v) == [column |-> c, value |-> v]
SomeClauses == {Where("id", 0), Where("b", one)}

Settings == {[a |-> two], [b |-> two, c |-> one, id |-> 0]}

Statements == {[op |-> "insert", table |-> notes, columns |-> <<"c", "a">>],
               [op |-> "update", table |-> notes, column |-> "a"]}

\* The last but one changes a cell twice, and the last does so at first to a value
\* that column a does not admit.
Flats == {<<one, two>>, <<one, two, two>>, <<two, 0, one, 5>>, <<one, 0, two, 0>>,
          <<Null, 0, two, 0>>}

View == state
=============================================================================
