------------------------------ MODULE MCTable ------------------------------
EXTENDS Table, TLC

CONSTANTS c1, v1, v2, alice

OneCol  == {c1}
NoCols  == {}
TwoValues == {v1, v2}
NoIds == {}
ChosenIds == {3, alice}

DeleteCalls == {"insert", "delete", "create_index"}

\* Bound: a table with an index has no named rows, few rows and few stale ids.
SmallIndexes ==
  \A c \in Cols : table.indexes[c].kind # "none" =>
    /\ \A p \in Positions(table) : table.ids[p] \in Nat
    /\ Len(table.ids) <= 3
    /\ \A v \in Values, id \in Id : table.indexes[c].posting[v][id] <= 1

Symmetry == Permutations(TwoValues)
=============================================================================
