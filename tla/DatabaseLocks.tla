--------------------------- MODULE DatabaseLocks ---------------------------
(***************************************************************************)
(* Threads that make the calls of core/database.rs: the programs of        *)
(* LockPrograms on the machine of RwLocks.                                 *)
(***************************************************************************)
EXTENDS RwLocks, LockPrograms

CONSTANTS
  TableRank,  \* the order in which joins name tables
  TopRank     \* the highest rank of a table

ASSUME DatabaseAssumption == Locks = AllLocks /\ Programs = CallPrograms

ASSUME RankAssumption == TopRank \in Nat /\ TableRank \in [Tables -> 1 .. TopRank]

\* The calls whose locks have an order.
OrderedCalls == AllCalls \ {"query_expr", "serialize", "sql_join"}

\* The order in which these calls take locks.
LockRank ==
  [l \in AllLocks |->
     IF l = "map" THEN 0 ELSE IF l \in Tables THEN TableRank[l] ELSE TopRank + 1]

\* Clients make such calls only, and join tables in their order.
CallsInOrder ==
  /\ Calls \subseteq OrderedCalls
  /\ \A p \in JoinPairs :
       p \in Tables \X Tables /\ TableRank[p[1]] < TableRank[p[2]]

\* Every call takes the table map, then the tables, then one of the two logs,
\* a lock never below one that it holds, and gives all of them back; this is
\* the premise of theorem OrderedLocksNeverDeadlock.
LocksInOrder ==
  CallsInOrder =>
    \A th \in Threads : RespectsOrder(todo[th], LockRank) /\ WellScoped(todo[th])

=============================================================================
