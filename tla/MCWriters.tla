----------------------------- MODULE MCWriters -----------------------------
EXTENDS Writers, TLC

CONSTANTS key, info, v1, v2, t1, t2

KeyAndInfo == {key, info}
TwoValues  == {v1, v2}
TwoThreads == {t1, t2}
NoIds      == {}
AllKinds   == {"none", "plain", "unique"}
NotUnique  == {"none", "plain"}

Symmetry == Permutations(TwoValues) \cup Permutations(TwoThreads)
=============================================================================
