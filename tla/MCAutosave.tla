----------------------------- MODULE MCAutosave -----------------------------
EXTENDS Autosave, TLC

CONSTANTS users, orders

TwoTables == {users, orders}

TableSymmetry == Permutations(TwoTables)
=============================================================================
