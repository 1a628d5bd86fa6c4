------------------------------ MODULE MCLocks ------------------------------
EXTENDS DatabaseLocks

CONSTANTS users, posts, t1, t2

TwoTables  == {users, posts}
OneTable   == {users}
TwoThreads == {t1, t2}
UsersPosts == {<<users, posts>>}
NoJoins    == {}
QueryCalls == {"query_expr", "insert_row"}

\* Joins name users before posts.
UsersFirst == [t \in Tables |-> IF t = users THEN 1 ELSE 2]
=============================================================================
