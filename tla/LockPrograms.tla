---------------------------- MODULE LockPrograms ----------------------------
(***************************************************************************)
(* The locks that the calls of core/database.rs take, in the order and the *)
(* scopes in which the code takes them.  A guard lives to the end of its   *)
(* scope, so a call is built from nested scopes; what a call does with the *)
(* data is left out.  The database has a write-ahead log.                  *)
(***************************************************************************)
EXTENDS Naturals, Sequences, FiniteSets, SequencesExt

CONSTANTS
  Tables,     \* the tables, which are locks too
  Calls,      \* the calls that are made, a subset of AllCalls
  JoinPairs   \* the pairs of tables that are joined

AllCalls == {"insert_row", "insert_batch", "delete_batch", "update_values",
             "find", "get_table", "by_handle", "create_table", "snapshot",
             "begin_transaction", "insert_or_replace", "hash_join",
             "query_expr", "serialize", "sql_join", "recover"}

ASSUME CallsAssumption == Calls \subseteq AllCalls

\* A database has finitely many tables, which are no other locks.
ASSUME TablesAssumption ==
  IsFiniteSet(Tables) /\ Tables \cap {"map", "log", "wal"} = {}

AllLocks == Tables \cup {"map", "log", "wal"}

\* The steps of a scope: lock, body, drop; u are the guards held outside it.
Scope(mode, l, u, Body(_)) ==
  LET inside == u \cup {[mode |-> mode, lock |-> l]}
  IN  <<[do |-> mode, lock |-> l, under |-> u]>> \o Body(inside)
        \o <<[do |-> "drop", lock |-> l, under |-> inside]>>

Shared(l, u, Body(_))    == Scope("read", l, u, Body)
Exclusive(l, u, Body(_)) == Scope("write", l, u, Body)
Nothing(u) == <<>>

\* A call on table t under the read lock of the table map.
Reading(t, Body(_)) == Shared("map", {}, LAMBDA u : Shared(t, u, Body))
Writing(t, Body(_)) == Shared("map", {}, LAMBDA u : Exclusive(t, u, Body))

\* The version log and the write-ahead log, one after the other.
Recorded(u) == Exclusive("log", u, Nothing) \o Exclusive("wal", u, Nothing)
Logged(u)   == Exclusive("wal", u, Nothing) \o Exclusive("log", u, Nothing)

\* insert_row, update_row, delete_row
InsertRow(t) == Writing(t, Recorded)

\* Mutant: the version log is locked around the table.
InsertBatchLogFirst(t) ==
  Shared("map", {}, LAMBDA u : Exclusive("log", u, LAMBDA w :
    Exclusive(t, w, LAMBDA x : Exclusive("wal", x, Nothing))))

\* insert_values and the batch inserts
InsertBatch(t) == Writing(t, Logged)

\* delete_batch, of two rows
DeleteBatch(t) == Writing(t, LAMBDA u : Recorded(u) \o Recorded(u))

\* update_values, update_batch_by_indices, create_index, and a call the table refuses
UpdateValues(t) == Writing(t, Nothing)

\* find, query, table_info, find_unique_by_id
Find(t) == Reading(t, Nothing)

\* get_table, list_tables
GetTable == Shared("map", {}, Nothing)

\* The SQL executor and the N-API read and alter tables through handles.
ByHandle(t) == {GetTable \o Shared(t, {}, Nothing), GetTable \o Exclusive(t, {}, Nothing)}

\* create_table, drop_table, rollback
CreateTable == Exclusive("map", {}, Nothing)

EachTable(order, u) ==
  FlattenSeq([i \in DOMAIN order |-> Shared(order[i], u, Nothing)])

\* Mutant: the version log is read first.
SnapshotLogFirst(order) ==
  Shared("map", {}, LAMBDA u : Shared("log", u, LAMBDA w : EachTable(order, w)))

\* snapshot; the map is hashed, so the tables come in any order
Snapshot(order) ==
  Shared("map", {}, LAMBDA u : EachTable(order, u) \o Shared("log", u, Nothing))

BeginTransaction(order) == Shared("map", {}, LAMBDA u : EachTable(order, u))

\* insert_or_replace: the column, the row, and then one of two calls
InsertOrReplace(t) ==
  {Find(t) \o Find(t) \o UpdateValues(t), Find(t) \o Find(t) \o InsertBatch(t)}

\* join, hash_join
HashJoin(t1, t2) == Reading(t1, LAMBDA u : Shared(t2, u, Nothing))

\* query_expr keeps its guards while execute_plan takes the same locks.
QueryExpr(t) ==
  Reading(t, LAMBDA u : Shared("map", u, LAMBDA w : Shared(t, w, Nothing)))

\* Serialize for Database
Serialize(order) ==
  Shared("map", {}, LAMBDA u : Shared("log", u, LAMBDA w : EachTable(order, w)))

\* execute_join looks up the second table while it reads the first.
SqlJoin(t1, t2) ==
  HashJoin(t1, t2) \o GetTable
    \o Shared(t1, {}, LAMBDA u : Shared("map", u, Nothing) \o Shared(t2, u, Nothing))

\* recover_from_wal, of one entry
Recover(t) == Shared("wal", {}, Nothing) \o InsertRow(t)

Orders == SetToSeqs(Tables)

ProgramsOf(call) ==
  CASE call = "insert_row"        -> {InsertRow(t) : t \in Tables}
    [] call = "insert_batch"      -> {InsertBatch(t) : t \in Tables}
    [] call = "delete_batch"      -> {DeleteBatch(t) : t \in Tables}
    [] call = "update_values"     -> {UpdateValues(t) : t \in Tables}
    [] call = "find"              -> {Find(t) : t \in Tables}
    [] call = "get_table"         -> {GetTable}
    [] call = "by_handle"         -> UNION {ByHandle(t) : t \in Tables}
    [] call = "create_table"      -> {CreateTable}
    [] call = "snapshot"          -> {Snapshot(order) : order \in Orders}
    [] call = "begin_transaction" -> {BeginTransaction(order) : order \in Orders}
    [] call = "insert_or_replace" -> UNION {InsertOrReplace(t) : t \in Tables}
    [] call = "hash_join"         -> {HashJoin(p[1], p[2]) : p \in JoinPairs}
    [] call = "query_expr"        -> {QueryExpr(t) : t \in Tables}
    [] call = "serialize"         -> {Serialize(order) : order \in Orders}
    [] call = "sql_join"          -> {SqlJoin(p[1], p[2]) : p \in JoinPairs}
    [] call = "recover"           -> {Recover(t) : t \in Tables}

CallPrograms == UNION {ProgramsOf(call) : call \in Calls}

=============================================================================
