# DBOBJ: specifications and proofs

TLA+ specifications of DBOBJ, an in-memory row store in Rust with optional
write-ahead logging, a memory-mapped database file, a SQL front end and a
Node binding. The specifications are translated from the code; the model checker
TLC runs them on small instances and the proof system TLAPS proves what
holds for every instance. Paths below are relative to the repository (`src/` is
the core crate, `extensions/sql` and `extensions/napi` the two front ends).

    tlc -workers 4 -config Table_calls.cfg MCTable.tla   # one run
    tlapm TableProofs.tla                                # one proof module

## 1. The system

### 1.1 Parts, state and operations

**Table** (`src/core/table.rs`). Three parallel vectors `ids`, `data` (row-major
cells) and `versions`; `id_map` from id to position; `next_int_id`; the flag
`is_sequential_ids`; one `Index` per indexed column, holding posting lists
(`map`) or one position per value (`unique_map`). While the flag is set, row *i*
has id *i*, `id_map` is empty and lookups use the id as a position. The first
`delete`, the first custom id or the first SQL UPDATE/DELETE fills `id_map` and
clears the flag for good. Operations: `insert` (with or without a custom id),
three batch inserts and four flat ones, `update`, `update_values`, `delete`
(swap-remove), `create_index`, `create_unique_index`, `find_by_column`, `select`,
`get`.
*Correct when* the vectors stay parallel, every row is found under its id and
under no other, the position shortcuts answer like the checked lookups, and an
index answers like a scan.

**Database** (`src/core/database.rs`). A map from names to tables, a version log
and an optional write-ahead log, each behind an `Arc<RwLock>`; every call locks
the map for reading, then its table, and under that lock the two logs.
`snapshot` clones the tables one after the other; `insert_or_replace` is two
separately locked halves; `hash_join` holds two tables; `query_expr` and
`execute_plan` nest; `begin_transaction` clones all tables; `recover_from_wal`
replays the log through the ordinary calls.
*Correct when* concurrent calls cannot block each other for ever, a call made of
several locked parts survives what happens between them, and recovery restores
what clients were told.

**Write-ahead log** (`src/storage/wal.rs`). A file of JSON lines: `append`,
`read_all`, `clear` (which nothing calls).

**Database files** (`src/storage/mmap.rs`, `src/storage/mod.rs`, `adapter.rs`). The
mapped file: `save` serialises a snapshot with rkyv and writes it with `fs::write`;
`load_database` validates and copies it. `Storage`: `save` copies the file to
`.bak` and writes it anew through one of two serialisers; `load` reads it and
rebuilds `id_map` from a list of pairs.
*Correct when* a complete image survives a crash in `save`.

**N-API binding** (`extensions/napi/src/database`). A `Database` object, its
`is_dirty` flag and a thread that wakes every second, clears the flag and saves.
Mutating calls end in `save_if_needed`, which sets the flag. Transactions keep
clones of the tables; `rollback` puts them back, `commit` does nothing. Prepared
statements run once per row of a flat array. Readers by id, by value, by page and
by column; cursors, which are a position in the table.
*Correct when* no write is left out of the file for good, a reader gives the row
that is there, and a batch is its statement repeated.

**SQL executor and parser** (`extensions/sql/src`). A tokenizer and a recursive
descent parser whose errors of one kind or another end the text; an executor that
turns UPDATE and DELETE into a read-locked search followed by one call per row,
sorts, cuts and aggregates what a SELECT found, and remembers in `populated` the
tables whose `id_map` it has filled; ALTER TABLE copies all cells to wider rows.
*Correct when* the statement executed is the one that was written, changes the
rows its condition holds for and no other, and answers what is in the table.

**Queries** (`src/core/query.rs`). Evaluation of expressions over rows, where
whatever is not a boolean counts as false, LIKE matching, and the choice between a
scan and an index. Cells hold symbols of the table's string pool
(`src/core/value.rs`), literals hold strings.
*Correct when* interning shows nowhere, and every way to read a table (plan,
index, id, scan, join) gives the rows the condition describes.

**Version log** (`src/versioning/mod.rs`). Append-only; read only by `snapshot`.

### 1.2 How they interact

Clients call the N-API object or the SQL executor, both of which call `Database`
or take a table handle (`get_table`) and lock it themselves. The autosave
thread shares `Database` with the client and meets it at the dirty flag, at the
table locks (through `snapshot`) and at the file. Recovery and the log meet at the
file: recovery reads all of it first and then appends to it while replaying.

### 1.3 What is hard

* two ways to find a row, and a table that changes from one to the other in
  the middle of its life, with `swap_remove` moving rows underneath;
* indexes that some calls maintain, some maintain in another structure and some
  do not touch;
* a flag read and cleared by one thread and set by another around a snapshot
  that is not atomic and a file write that is not either;
* crashes between a change and its log line, inside a line, in recovery, and
  between the truncation of a file and its last byte;
* two to four locks per call, taken in a nest, with writer-preferring locks
  that are not reentrant;
* check-then-act across two lock scopes: upserts, statements that write row by
  row, cursors over a table that moves its rows;
* fast paths that must answer like the slow ones: batches of prepared statements,
  lookups by id, exports of columns;
* a parser whose every loop and lookahead is written by hand.

`PROJECT.json` lists each of these as a hazard at its line, with the properties
aimed at it or the reason why there is none.

## 2. The modules

| module | models | EXTENDS / INSTANCE |
|---|---|---|
| `TableOps` | every operation of `Table` as an operator on a table record | |
| `RowStore` | what a table promises: rows under ids | |
| `Table` | one table under any sequence of calls | `TableOps`; `RowStore` |
| `WalRecovery` | calls, log file, image with its copy, crashes and recovery | `TableOps` |
| `Autosave` | client, autosave thread and database file | |
| `RwLocks` | threads on parking_lot read-write locks | |
| `LockPrograms` | which locks each call of `Database` takes | |
| `Upsert` | the two halves of `insert_or_replace` by several threads | `TableOps` |
| `Writers` | with them, UPDATE and DELETE row by row, deletes and a cursor | `Upsert` |
| `Queries` | string pool, expressions, plans, LIKE, WHERE, hash joins | `TableOps` |
| `SqlStatements` | INSERT, UPDATE and DELETE on that table | `Queries` |
| `SqlResults` | ORDER BY, LIMIT, projection, aggregates; the N-API's readers | `SqlStatements` |
| `StridedTable` | a table as one flat vector whose columns may change | |
| `Relations` | what SQL statements promise: named relations | |
| `Sessions` | one client's statements, batches and transactions | `StridedTable`; `Relations` |
| `SqlTokenizer`, `SqlParser`, `SqlParameters` | from characters to tokens, statements and bound statements | |
| `SqlText` | the texts clients write | `SqlParameters`, `SqlTokenizer` |
| `DatabaseLocks` | threads that make those calls | `RwLocks`, `LockPrograms` |
| `TableOpsProofs`, `TableProofs` | theorems about `Table` | `TableOps`; `TableOpsProofs`, `Table` |
| `WalRecoveryProofs`, `WritersProofs` | theorems | their module, `TableOpsProofs` |
| `QueriesProofs` | theorems about queries, statements and results | `SqlResults`, `TableOpsProofs` |
| `AutosaveProofs`, `SessionsProofs` | theorems | their module |
| `LocksProofs` | theorems about the locks and the calls that take them | `DatabaseLocks` |
| `MC...` | instances for TLC | their module |

The correspondence of each definition to its lines is the `map` of
`PROJECT.json`. `RowStore` and `Relations` are abstract specifications and model no
lines of their own. Definitions commented "Mutant:" are deviations a slip of the
code could bring; no specification uses them, they show that a property would notice.

### 2.1 TableOps, Table and RowStore

`TableOps` is the pure part: `Insert(t, row)`, `Delete(t, id)`, `CreateIndex(t,
c, kind)` and the rest return the table that the Rust method leaves behind. A
position *p* of the code is *p + 1*, so 0 can stand for "no entry". The flat
`data` vector is a sequence of rows. A posting list is kept as a bag, which is
enough for what a lookup returns as a set and for "listed twice"; its order is
left out. `BadRow` stands for an argument that fails validation, so that a batch
can fail at any of its rows.

`IndexAppend` takes the kinds for which the calling loop looks at `is_unique`:
`insert_batch` and `insert_batch_raw` always push to `map`, the other inserts
choose by kind. `Update` looks in `id_map` only, `UpdateValues` through
`get_index`, as the two methods do.

`Table` runs these operators as actions, one per public entry point, including
`update_batch_by_indices` (`UpdateCell`), the N-API's `update_batch_i64`
(`UpdateBatch`, which takes the id for a position) and the SQL executor's
`populate_id_map_once` (`PopulateIdMap`). Each runs under the table's write lock,
so a call is one step. (`update_batch_i64` reads and writes under two locks; its
JavaScript caller is the only writer.) `Calls` and `IndexKinds` say which entry
points clients use, `IndexCols` the columns that get indexes and `CellCols` those
written cell by cell (`UpdateCell`); `CellsBehindIndexes` says whether these may be
indexed ones. Where a property holds only for some uses, it or its run names
them by these constants and section 5 says what goes wrong outside.

`RowStore` is the abstract specification: a function from ids to rows with
versions. `Table!Refinement` maps a table record to it (`StoredRows`). Its promise
is about the ids of its constant `Id`; `Table` instantiates it with all ids but the
`Contested` ones, the integers that a client may choose and the counter may
reach: two rows can come to have such an id.

### 2.2 WalRecovery

One table, the log file (lines, and whether the last line lacks its newline),
the last saved image with its `.bak` copy, and a process that runs or replays. A
client call either completes or is cut off by a crash after any number of its log
lines, and, with the fault `torn`, inside one; with `append_fails` the process goes on
and some lines are missing. `Save` is `Storage::save`: copy, truncate, write. A crash
may cut it at each step (`in_save`), and so may an error of `fs::copy`, `serialize` or
`fs::write` (`save_error`), which returns to a caller that goes on and may save again, over
whatever the files then hold. `Restart` starts from the image, from the copy
or from nothing, as whoever runs the program decides when `load` fails, and reads
the log as `read_all().unwrap_or_default()` does; `ReplayNext` replays one entry
through the call that logged it, appending to the log as that call does.
`expected` is the set of contents a client may find after a crash: all
acknowledged calls, and any prefix of the rows of the interrupted one. `written` is
every row any call has put under an id. `cut` counts the saves that did not end, by a crash
or an error, since the file was last complete. The `profile`, chosen at the start, says which calls
and ids clients use and which faults happen.

One table is enough because calls on different tables share nothing but the
files, and entries of different tables are replayed independently. Actions are
whole calls: a call holds its table's write lock while it appends, and two
calls on two tables only interleave whole lines.

### 2.3 Autosave

Every change has a number, and a table holds that of the last change to it. The client's
calls are of four kinds by what they do to the flag: `Write`, then `Mark`, changes a table
and stores it (the mutating calls, `run` and `runBatch`); `Read`, then `Mark`, stores it and
changes nothing (`execute_sql` and `run` of a SELECT); `FailedWrite`, `QueryWrite`
and `Rollback` change tables and store nothing (a batch or script that fails half-way,
`all` and `get` of a prepared statement that writes, `rollback`); `begin` and `commit` do
neither. `marked`, a history variable, is what the tables held when the flag was last
stored, and after a restart what was loaded. The calls and the
autosave thread's loop are cut where another thread can see the difference: the
change and the dirty flag; the flag swap, the clone of each table, the truncation
and the writing of the file; the end of `save` and its clearing of the flag.
`rollback` cannot happen while a snapshot holds the map. `WriteFile` over
another thread's image of the same path may leave a file that is neither.
`Crash` may be kept out of the file write (`crash`) or allowed in it
(`crash_in_save`).

### 2.4 RwLocks and LockPrograms

`RwLocks` is a machine: each thread has the list of steps still to do; a step
locks, or drops a guard, and names the guards held around it. A writer first
claims the writer bit and then waits for readers; a claimed bit turns new readers
away, those that hold the lock already included. That is how parking_lot's
`RwLock` behaves and why it documents recursive reads as a deadlock.
`LockPrograms` builds each call of `Database` from nested scopes
(`Shared`, `Exclusive`), in the order of the source. The data is left out: which
locks a call takes depends only on its arguments and, for `insert_or_replace`, on
what it finds, where both branches are programs. `DatabaseLocks` puts the programs on
the machine and says in which order they take locks (`LockRank`, `CallsInOrder`).

### 2.5 Upsert and Writers

`insert_or_replace` by several threads: `Look` (under a read lock) remembers the
id of the first row found; `Replace` or `InsertNew` acts later. Clients delete
rows in between. The key has no index, a plain one or a unique one, chosen at the
start. `FirstHits` allows any hit of a posting list as the first.

`Writers` composes these steps with statements and a cursor. `Collect` is the
read-locked search of an UPDATE or DELETE with the filling of `id_map` before it;
`WriteOne` is one `update_row` or `delete_row`, in any order of the collected ids;
`Abort` is the error of the first id that has gone. The rows an UPDATE writes back
are whole rows, so a change that another thread made to another column in between is
lost: no property says otherwise. The cursor's state is its offset and its end;
`seen`, `start` and `disturbed` are history for the properties. `Open` waits until
nobody is half done because all N-API calls come from one JavaScript thread;
what that thread may do between two batches is every whole call.

### 2.6 Queries, SqlStatements and SqlResults

`Queries` keeps a table whose cells are the code's `Value`s (Null, integers and
interned strings) and its string pool. A literal of a condition is a `String`;
`Comparable` is the `match` of `evaluate_with_row` that brings a symbol and a string
together, `Key` the conversion of `find_by_column`, `Evaluate` the evaluation without a
pool that `Not` falls back to. `Plan` and `ExecutePlan` are `query_expr`; `Where`
is how the SQL executor looks rows up; `HashJoin` keeps the choice of the build
table and the two shortcuts by position, while hashes, buckets, the Bloom
filter and the split among threads only spare comparisons. A string is the sequence
of its characters, so that the steps of the loop of `like_match` can be those of a function
of its four counters (`LikeLoop` on `LoopStates`). Results are sets of positions.

An expression is a number: `Nodes` lists the nodes of all conditions that clients use, the
parts of each before it, as the boxes of an `Expr` are built before the `Expr`. A function
over an expression is then a recursive function on `Expressions`. `MCQueries` writes
expressions as trees and numbers them.

The reference the properties compare with is `Holds`: the condition read with every
cell as the string that was written. `Matches` is the recursive definition of LIKE.

`SqlStatements` adds the statements. `populate_id_map_once` has a critical section of
its own, so it is the action `PopulateIdMap` of `Queries`; UPDATE and DELETE wait for
it. They collect positions by `Where` and then fold the per-row call over the ids,
each on the table that the one before has left.

`SqlResults` goes on from positions to answers. Here order matters: a scan gives the
order of the table, an index that of its posting list, which is left open
(`Arrangements`). `Sorted`, `Page`, `Answer` and `Aggregated` follow the executor,
`GetRowById`, `FindBy`, `GetRows`, `ExecuteI64`, `ExportI64` and their like the N-API.
The width of integers is a constant, and so is the largest `usize`: sums saturate,
MIN and MAX start from the ends (`Start`, `Step`), and OFFSET without LIMIT overflows
(`Panic`).

### 2.7 StridedTable, Sessions and Relations

`StridedTable` keeps all cells in one vector, as the code does, because ALTER
TABLE changes the width under which a position is found; versions and indexes are
left out. A column has a name and the values it admits: those of its type and, unless
it is NOT NULL, Null. Names may repeat, as nothing forbids it; the last one wins.

`Sessions` is one client: CREATE, DROP, ALTER, INSERT of one row and of several,
UPDATE, DELETE, SELECT, `run_batch` with its two fast paths, begin, commit and
rollback, and a new executor, which forgets `populated`. A call is a function from
an effect (tables, `populated`, answer) to the next, so that a batch and the same
statement run once per row (`RunOnce`, `RunEach`) can be compared. The loops over rows are
recursive functions of the position, and the value of a loop is its last. ALTER TABLE may
add a column "id", which hides the ids the table gives: WHERE id = ... is then a scan of
that column (`DeclaresId`, `Found`), except on the fast path of a batch of UPDATE, which
goes by the table's ids all the same (`RunRows`). `Placed` is a
row of an INSERT of several, put down by position. `call` is the last call with
its answer, `replaced` the names whose table was replaced behind `populated`.

`Relations` promises the same calls without positions and vectors: rows under ids
that are given away once. A refused call changes nothing, but for UPDATE, which may have
changed some of its rows. `Sessions!Refinement` maps flat vectors to relations.

### 2.8 SqlTokenizer, SqlParser, SqlParameters and SqlText

`SqlTokenizer` reads characters; what it calls an error is the token Eof to the parser,
as in the code. `SqlParser` is every production of the recursive descent, each
operator returning a value with the tokens left; number texts are classified by
three constants (those that parse as `i64`, only as `u64`, as `f64`).
`SqlParameters` counts placeholders and puts values in their place, two traversals of
the code that must agree.

`SqlText` is the client: it types characters, or means statements and writes them
(`Write`, the grammar the parser is held to), adds conditions and optional words, and
at last gets one token wrong. The writer is the reference definition of the properties;
it shares no operator with the parser.

## 3. The runs

| run | checks | instance |
|---|---|---|
| `Table_calls` | `TypeOK`, `IdMapSound`, `GetAgrees`, `RowsReachable`, `PlainIndexExact` and the refinement of `RowStore` | every call; automatic ids, the integer 3 and a name; 3 rows, 4 automatic ids, batches of 2 |
| `Table_unique_delete` | *violated*: `FindByColumnCorrect` | insert, delete and a unique index |
| `Wal_recovery` | `Durable`, `NothingInvented`, `OneImageSurvives` | three profiles; 2 rows, 2 or 3 log lines, 2 crashes, 3 saves |
| `Wal_torn` | *violated*: `LogRecovers` | logged calls, torn lines |
| `Autosave_writes` | `UnsavedIsFlagged`, `EventuallySaved`, `NeverBackwards` for a client that makes no save of its own | 2 tables, 3 changes, 1 crash |
| `Autosave_all` | `ExportExact` with all calls and faults | 2 tables, 2 changes, 1 crash |
| `Locks_calls` | `NoDeadlock`, `LocksInOrder`, `CallsReturn`, `TypeOK` | 2 threads, 2 tables, all calls but three |
| `Locks_query_expr` | *violated*: `NoDeadlock` | 2 threads, 1 table |
| `Writers_threads` | `DuplicatesBounded`, `KeysStay`, `AbortsOnlyIfDeleted`, `DeletedStay`, `OthersUntouched`, `CursorExact` | 2 threads, 3 rows, 2 columns of 2 values, batches of 2 |
| `Queries_tables` | `InterningInvisible`, `PlanSound`, `WhereSound`, `LikeSound`, `JoinExact`, `StatementsExact`, `PagesPartition`, `AggregatesAgree`, `ReadersAgree` | 3 rows, 2 columns, about 110 conditions, 46 patterns, integers 0 .. 2 |
| `Sessions_calls` | the refinement of `Relations`, `BatchIsSequence`, `UpdateReaches`, `StatementsAdmit` | 1 table, 2 rows, 2 columns, 3 ids |
| `Sql_text` | `RoundTrip`, `AcceptedIsComplete`, `BindIsWriting`, `TokensExact` | 11 statements, texts of 2, about 14 tokens; 4 of 12 characters |

What the less obvious properties say:

* `GetAgrees`: `get` trusts that the position is the id, `get_index` compares.
  They agree in every state, so the comparison is never what saves a caller.
* `IdMapSound` holds even when an automatic id equals an integer id that a
  client chose: one of the two rows is then unreachable, but no entry
  points at a wrong row or past the end.
* `RowsReachable`: every row whose id is not contested is found under its id, though
  contested ids come and go in the same table.
* `PlainIndexExact`: `delete` never touches an index. Posting lists are still exact,
  because stale ids resolve to no row and automatic ids are not given away again.
* `Table!Refinement`: positions, moves, the two modes and failing batches are invisible;
  the refinement is of the safety part, as `RowStore` has no fairness.
* `Durable`: whenever clients are served, the table holds the acknowledged calls
  and at most a part of the interrupted one, with any saved image, or its older
  copy, underneath a log that is never cleared.
* `NothingInvented`: whatever happens, recovery never shows a row under an id that
  no call has put there.
* `OneImageSurvives`: one `Storage::save` that does not end, by a crash or by an error
  after which the process goes on, leaves the file or its copy complete; two in a row
  need not.
* `UnsavedIsFlagged` and `EventuallySaved`: what the flag was stored for, and what a call
  without flag had changed before, is in the file or flagged, and reaches the file. Clearing
  the flag *before* cloning is what makes the swap safe; the mutant that clears it
  afterwards loses writes. Neither says anything of a change after which no call stores the
  flag: such a change is in no file until one does (section 5).
* `NeverBackwards`: no complete image of the file is replaced by one that is older
  for some table.
* `ExportExact`: when `save` to another path returns, the file is exactly the
  database, because the client's own thread makes the call and nobody else writes
  memory.
* `NoDeadlock` / `CallsReturn`: some thread can always go on; every call returns.
* `DuplicatesBounded`: a key may get several rows, but the rows it has and the
  threads about to insert it are together never more than the threads.
* `KeysStay`: a late replacement never overwrites a row with another key, although
  rows move under swap-remove.
* `AbortsOnlyIfDeleted`, `DeletedStay`, `OthersUntouched`: a statement that writes what it
  collected earlier fails only for rows that were deleted, brings none of them back,
  and leaves every row it does not write in place and as it was.
* `CursorExact`: a cursor returns no row twice, whatever is inserted and deleted while
  it is open, and every row that was there when it was opened unless one was deleted:
  the last row then moves to where the cursor may have been.
* `InterningInvisible`: a condition has the rows it has when strings are compared as
  strings, whether or not its literals were ever interned.
* `PlanSound`, `WhereSound`: an index scan, an index scan with a filter, a lookup by id
  and a full scan give the same rows, in tables whose indexes have seen updates and
  deletes.
* `JoinExact`: `hash_join` is the nested loop, for a table smaller and larger than its
  partner, sequential or not, and for a table with itself.
* `StatementsExact`: a statement changes the rows its condition held for when it
  began, although each of its calls moves rows under the next.
* `PagesPartition`: a client that reads a result in pages of any size, in any order,
  reads every row once, sorted by the strings themselves, ties in the order found.
* `AggregatesAgree`, `ReadersAgree`: SQL and the N-API give the same sums and extremes, COUNT
  of a column that has a value in every row is the number of its values (section 5 has
  the others), and a reader gives the same row by id, by value, by page, as a column and as a side of a join. A sum
  is the saturated sum of the column where its cells have one sign. For mixed
  signs it need not be: saturation in the middle of the loop makes the order of the rows
  matter (MAX, 1, -1 gives MAX - 1, and MAX, -1, 1 gives MAX). The first attempt to prove
  the property without `OneSign` showed this; the run has no negative cells.
* `Sessions!Refinement`: every statement, batch and rollback does to named relations what
  SQL says, although cells are found by multiplying a position with a width that ALTER
  changes.
* `BatchIsSequence`: the fast paths of `run_batch` leave the table that running the
  statement once per row leaves, where that is accepted and no column is hidden. For
  UPDATE it asks that *every* value written is admitted (`AllWritten`), not only those
  the table shows at the end: in `?, ?` = `Null, 0, two, 0` the second change hides the first,
  which the statement run for each row refuses, and there the batch goes further. Of a
  table with a column "id" it asks that the column holds the ids the table gave and is not
  written (`IdsAsGiven`): the batch and the statement then name the same rows in different
  ways. With other values in it they do not, and without this premise TLC finds the
  shortest case in five steps: CREATE, ALTER .. ADD id, INSERT with id 1, and a batch of
  UPDATE .. WHERE id = 0 that changes the row.
* `UpdateReaches`: an UPDATE reaches the rows it found, unless its executor still has
  the name of a table that was dropped and created again. `StatementsAdmit`: INSERT of
  one row, UPDATE and ALTER keep types and NOT NULL.
* `RoundTrip`: the parser finds the statement that was meant. `AcceptedIsComplete`: what
  it accepts, right or wrong, is all of the text; nothing is silently left out.
* `BindIsWriting`: binding parameters is writing the literals into the text.
* `TokensExact`: any characters between quotes come back as they were, and a blank
  separates tokens and does nothing else.

### 3.1 Bounds

Table: three rows give a first, a middle and a last position, so that deletes hit
the moved row, the last row and neither; a batch of two can fail at either row;
four automatic ids run into the chosen integer 3. `MaxVersion` only keeps updates
from growing the state. The constraint `SmallIndexes` stops at tables with an index
that have named rows or a value that lists one id twice.
Wal: three lines hold an insert, a delete and an insert again of one id,
or calls on two; two crashes put a recovery, more calls and a second recovery in
one behaviour, two saves an image with an older copy, and a third follows a save that
failed. The profile with
unlogged calls and the one with failing appends have two lines, of which each may be
missing or torn. Autosave: three changes of two tables put one before, during
and after a snapshot; one crash is enough because a restart leaves nothing but
the file. Locks: two threads and two tables, all pairs of calls; a circle of more
threads is covered by the theorem, not by the run. Writers: three rows for two
threads leave room for one duplicate too many, a statement over two rows and a
third that moves, and a second batch of a cursor. Queries: three rows give two
with equal values and one without; the two strings that rows hold and a third that
none holds give every case of interned and not interned; the conditions are every
comparison of a column with a literal or a column, and conjunctions, nested ones
too, of an indexed side with any other. Patterns of three characters hold two
wildcards around a letter and a letter between two wildcards. Cells are 0 .. 2 with
0 and 2 for the ends of `i64`, so that sums saturate and extremes meet the values
their loops start from. Pages have one row or two, so that the last is full or not. Sessions: two rows, so that a delete moves one, and two columns,
so that a row is a block; three ids let one be used after a rollback gave it back.
`VIEW` leaves the last call out of the state; the action properties still see it in
each step. Text: statements of every kind, each production with and without its
optional parts; two statements are enough for what stands between them; four characters
hold a quoted quote and what follows it. Bounds appear in guards and are
named in the CONSTANTS of their module. Deadlock checking is off where the
bounds, or a client that stops calling, end a behaviour; it is on for the
runs about locks, where an idle thread can always start a call, and for
`Sessions_calls`.

Symmetry is used for values, names, threads and tables in runs without
liveness.

### 3.2 Fairness

`Autosave`: the saver's loop runs for ever and a call that was started goes on
(weak fairness of `WakeUp`, of the rest of a client call and of the steps of a
save). The code's loop sleeps a second and never ends, so a flag that is set is
looked at in the end. Nothing is assumed about the client making calls, about
crashes or about restarts. `RwLocks`: strong fairness for the next step of a thread in
a call, since parking_lot hands a lock over fairly from time to time; no thread has to
make another call. The other modules check safety only.

## 4. The proofs

All assume only the named assumptions on the constants and are checked by `tlapm`
to the last leaf. They hold for every set of columns, values, ids, threads or tables
and every bound.

**TableOpsProofs**: one lemma per operation of `TableOps` that it preserves `Inv`:
the record type with parallel vectors (`Good`), `Dense` (a sequential table has id *i*
at position *i* and an empty `id_map`) and `Sound` (an entry of `id_map` points at its
id). None is inductive alone: `delete` finds its row by position while the table is
sequential, which is right only by `Dense`, and filling `id_map` from a sequential
table gives a sound map only by the same.

**TableProofs**: `TypeCorrect`, `SequentialTablesAreDense`, `IdMapNeverDangles` and
`FastPathSafe` follow: `TypeOK`, `SequentialIsDense`, `IdMapSound` and `GetAgrees` are
invariants. `RowsStayReachable` (`RowsReachable`) and `PlainIndexesExact`
(`PlainIndexExact`) rest on the second part of **TableOpsProofs**. There `Owned` adds what
reachability needs: a row whose id is not contested is the one `id_map` gives, and an
integer id that is not contested is below `next_int_id`, so that fresh ids are new.
`Listed` adds what an index needs: of the ids that are not contested, a posting list
names each at most once, only ids that were given out, and the id of a row that is
there just under the value it holds. A stale entry is harmless because its id never
comes back.

`TableImplementsRowStore`, at the end of **TableProofs**, is `Spec => Refinement`. Each
operation is shown, field by field, to add, replace or remove one entry of
`StoredRows` and to leave every other as it is; a delete that moves the last row
maps to the removal alone because positions are not part of an entry. Steps on
contested ids, and those that only fill `id_map` or build an index, map to stutters.

**WritersProofs**: all six properties of `Writers_threads`, for any number of threads.
`RowsStayDeleted`: an id that comes is `next_int_id` or later. `KeysAreKept`: what a
thread saw or a statement collected under an id still has that key while it exists
(`Known`). `AbortsJustified`, `OthersStay`: in the mode the statements leave, `id_map`
finds exactly the rows there are. `DuplicatesAreBounded`: rows and inserting threads
of a key are counted together; a look that finds nothing adds a thread to no rows, an
insert turns a thread into a row. `CursorReadsOnce`: past the cursor's offset no row has
been seen, and while nothing was deleted every row of the start is seen or past it;
a delete can only bring a row from past the offset to before it.

**AutosaveProofs**: `AutosaveMissesNothing`: under `SaverOnly` (no save by the client;
saves that do not fail; every other call, and crashes anywhere, inside the file
write too) `UnsavedIsFlagged` is an invariant. It speaks of quiet states; what makes
it inductive is `Current`: as long as nothing new is flagged, what the saver has
cloned so far is at least as new as `marked`. `ImagesNeverGoBack`: under the same and without
crashes in the file write, `NeverBackwards`; what is cloned is at least as new as the
last image and at most as new as the tables. `ExportsAreExact`: `ExportExact` for every
client and every fault; the client's thread changes nothing while it saves, and no
other thread writes its file.

**WalRecoveryProofs**: the three properties of `Wal_recovery`.

* `NothingInventedHolds`: whatever the profile, `WInv` says that every place a row may
  come back from, the table, the lines of the log, the pending entries and both files,
  holds only rows of `written`, and that the table, and the one in each image, satisfies
  `Inv`. A call may log less than it does (`Honest`), never something else.
* `OneImageSurvivesHolds`: `CutInv` says which of the two files is complete after no
  and after one save that did not end. Between saves it is `path`, whatever `.bak` holds;
  where a save may stop is `StopsAt`, for crashes and errors alike.
* `DurableHolds`: for a disciplined client, `DInv`. Its heart is `Recoverable`, about one
  id and five things: the log *L*, its part *pend* still to be replayed, the row *t* the
  table has for the id, the set *S* of rows the images have, and the row *c* clients
  expect. `Untouched`: nothing names the id. `Inserted`: all entries about it insert *c*,
  so the log gives *c* to a state without a row and leaves *c* alone. `Settled`: some entry
  updates or deletes it, and the log takes **every** state to the same one. That recovery
  works needs the last in this strong form, since an image may be older or newer than
  any line of the log, and since recovery appends to *L* what it replays: while it
  runs, *L* ends in a part of itself, takes every state to where the table now is, and
  *pend* takes that to *c*. `Inserted` has to be told apart because a log with nothing but
  an insert does not take every state to one: a row that is there stays. Calls are shown to act on ids one by one (`Performs`,
  `Path`), which for a delete rests on the exact `id_map` of a table without automatic ids
  (`Named`); `PathEffects` equates the path of a call with `Effects`, what the client was told.

Two assumptions were added to `WalRecovery` for this: `GarbageAssumption`, a line that
does not parse is not an entry (`serde_json::from_str` fails on it, `wal.rs`), and
`FilesAssumption`, a missing, a torn and a complete file are told apart, as `load` does by
its errors. The loop of `delete_batch` is a recursive function, and
`DeleteBatchSteps` proves that it has a value.

**LocksProofs**, first part: `OrderedLocksNeverDeadlock`: any number of threads, any locks
and any calls that take their locks in the order of some rank never wait for each
other in a circle. The invariant is that every thread is in the rest of an ordered
call. In a state where nobody can go on, every waiter waits, through a reader or
a claimed writer bit, for a thread that itself waits for a higher lock; ranks are
bounded. `LocksTypeCorrect` is the type invariant, including that a claimed
bit belongs to the write its thread stands at.

**LocksProofs**, second part: `DatabaseLocksInOrder` and `DatabaseNeverDeadlocks` discharge that
premise for the calls of `Database`, for any finite set of tables and any number of
threads. A call is built from scopes, so its proof is, too: `Chain` says that steps lead
from one set of held guards to another and lock only above them; scopes around chains
and chains one after the other are chains (`ScopeChain`, `ChainConcat`, and
`FlattenChain` for the loop over all tables of `snapshot`, in any order). The premise that
is left, `CallsInOrder`, excludes `query_expr`, `serialize` and `execute_join`, whose locks have no
order (section 5), and joins whose pairs of tables have none. `TablesAssumption` (finitely
many tables, none of them the map or a log) and `RankAssumption` (joins rank the
tables) are the assumptions.

**SessionsProofs**: all four properties of `Sessions_calls`, for all schemas, clauses,
statements, parameters and bounds.

* `SessionsKeepTables`: the invariant `IInv`. Of a table it says `TableInv`: the vector has
  as many cells as rows times columns (`IsTable`); no two rows have an id, and all are below
  `nextId` (`IdsDiffer`); a sequential table has id *i* at position *i* and an empty
  `id_map` (`Dense`); the `id_map` of any other names every row and nothing else (`Exact`).
  None holds alone: `delete` finds its row through `Dense` or `Exact` and keeps the ids apart
  by `IdsDiffer`. `IInv` asks it of the tables there are and of those in a snapshot,
  since a rollback brings the latter back with their mode and their ids, and adds that a
  table whose name the executor has noted is not sequential, unless it was replaced since.
* `SessionsImplementRelations`, `Spec => Refinement`. A relation has rows under ids and
  cells under names (`RelationParts`), so each change of the vector is shown to be a change of
  one row or of one column: the block that takes the place of a deleted one (swap-remove)
  keeps its id and cells; the vector that ALTER copies has, at *k*, cell *k mod new* of
  row *k div new*, and the lemmas on DIV and MOD give the old cell back; a cell found by its
  name is one the row was given by that name. UPDATE goes on from the rows collected before
  the first was written, and may stop half way: the relation then has an arbitrary part of
  the changes, which is what `Relations` allows.
* `StatementsAdmitHolds`: the rows of UPDATE are validated whole, so an admitted table
  stays one through each of its writes. `UpdateReachesHolds`: no validation fails by the
  premise; what is left is that `id_map` has every id collected, which is `IInv` and
  `populate_id_map_once`.
* `BatchIsSequenceHolds`: INSERT puts down, by position, the cells that `validate_and_convert`
  puts down by name, and admitted cells are those validation passes. For UPDATE the two
  runs do not go through the same tables: the batch writes one cell by `get`, in a table that may be
  sequential, and the statement the whole row by `id_map`. `SameCells` says that both tables
  have the same ids and cells, whatever their modes, and each change keeps it (`UpdatesSame`); an
  id without a row is passed over by one and found by no clause of the other. With a
  column "id" the clause is a scan of it, which finds the row of that id by `IdsAsGiven`; the
  writes keep that, as they are to another column.

The assumptions on the constants are: `ColumnsAssumption`, schemas are sequences and CREATE
TABLE declares no column "id", for which it would make a unique index (ALTER TABLE may
add one, without an index); `ExtrasAssumption`, the columns ALTER adds admit Null
(`executor.rs:712` makes every one nullable); `PreparedAssumption`, a prepared INSERT names a
column and so has a placeholder; `ParamsAssumption`, parameters are sequences;
`NoClauseAssumption`, a missing WHERE is not a WHERE (`Option` in the code);
`MaxIdsAssumption`, the bound on ids is a number.

**QueriesProofs**: all nine properties of `Queries_tables`, for all columns, values, rows,
conditions of any depth, patterns, statements and sizes of tables and pages.

`QueriesInv` is the invariant `IInv`. `PoolInv`: the pool holds each string once, so that equal
symbols are equal strings. `TableInv`: `Inv`, `Owned` and `Listed` of **TableOpsProofs** with
no id contested, as clients of SQL give no ids; and `RowsInv`, each cell is a value whose
symbol has a string in the pool. The latter is kept because the pool only grows (`Grown`)
and because a call interns the strings of a row before it writes the row, which for a
batch or an UPDATE of several rows is a fold over rows and pools.

* `InterningIsInvisible`: by counting up the nodes, `evaluate` and `evaluate_with_row` both
  give, for the conditions of the assumption, what the node means (`Holds`). At a comparison, a
  literal that was never interned equals no cell, and one that was has the symbol of
  all cells that hold it.
* `PlansAreSound`, `WhereIsSound`: an index finds what `column = literal` means, by `Listed`
  and `Owned`, since stale postings name no row; a filter over it is the other half of the
  conjunction; the lookup by id is the row with that id whatever the mode.
* `JoinsAreExact`: a shortcut by position is taken for a sequential table only, where
  the id is the position; the choice of the build side swaps the pairs.
* `StatementsAreExact`: what a statement collected are ids, and each call acts on one id
  (`DeleteHas` and its siblings speak of *has a row with this id*, not of positions), so
  the fold over them does, in whatever order.
* `LikeIsSound`. The invariant of the loop, `Reached`, says how far the pattern has been
  matched since the last %; `Promised`, that the answer is whether the rest matches from here or
  from a later start for the last %. That earlier % need never be tried again is
  `LaterStart`: whatever an earlier one could reach, the last can by starting later. `StepsLeft`,
  a number that each step makes smaller, is the measure along which `LikeLoop`, a
  function of its counters, is shown to have a value.
* `ReadersDoAgree`: a row's position is found from its id and back (`FoundById`); there are no
  more rows than ids (`RowCount`), so no offset overflows; a scan that yields all
  rows yields them in their order (`Ascending` of `1 .. n` is the identity).
* `PagesDoPartition`: the order of values is a strict total one on each column, so that with
  ties it is a strict weak order, and the positions, told apart by where they stood,
  have a rank; the sorted sequence that `Sorted` chooses exists (`SortExists`), and is unique
  in what the property says. Page *k* is what follows the rows read before it (`NextPage`), and
  no page before the last is short.
* `AggregatesDoAgree`: a fold over a set by its largest element is run through its
  accumulators, one for each row (`AreRuns`, `LoopRuns`). MIN and MAX of the loops are those of the
  set, and a sum is the same in whatever order (`RunsRemove`); saturation at one end
  commutes with it as long as no cell has the other sign.

The assumptions: cells, strings and rows are of their types, and a row has strings in
columns of type String only, which `insert_values` checks (`ValuesAssumption`, `RowsAssumption`,
`ClausesAssumption`); parts come before what they are parts of (`NodesAssumption`); the
conditions are those section 5 leaves: strings are compared for equality only, neither a
string nor the id stands under Not, a column that does not exist is not compared with
Null (`ConditionsAssumption`); a sequential table that is joined has its ids in order
(`OthersAssumption`, which `SequentialTablesAreDense` proves of every table); integers are `i64`
and a table has fewer rows than `usize::MAX` (`SizesAssumption`); a page that starts inside
the result ends within `usize` (`PagesAssumption`).

**Induction.** The theorems of the library that take an operator cannot be used. Where a
property of all numbers up to a length is needed, a lemma speaks of a *set* of numbers
instead, with the least element of its complement (`LeastElement`, `Counting`): the set
is then defined at the place of use. So the loops of the models that are recursive
functions over positions can be reasoned about.

Only model-checked: liveness (`EventuallySaved`, `CallsReturn`), which is out of
TLAPS's reach; and the four properties of `Sql_text`. The parser is a recursive descent
whose productions call each other, on token sequences that a prefix was taken off: these are
RECURSIVE operators, which `tlapm` cannot handle in any module that reaches them, and what
they compute for every text is an induction over texts. Every safety
property of the other runs that pass is a theorem.

## 5. Where code and documentation part

Three runs are expected to fail and are the `findings`:

* **Unique index and delete** (`Table_unique_delete`, `table.rs:1050`): `unique_map`
  keeps a position that after `swap_remove` is another row's, or past the end,
  where `get_row_by_index` panics.
* **Torn log line** (`Wal_torn`, `database.rs:1219`): one line that does not parse and
  recovery takes the whole log for empty.
* **query_expr** (`Locks_query_expr`, `database.rs:889`): it read-locks the map and the
  table twice; a writer in between stops both for ever.

While modelling we met more. The models follow the code here too; the constants
or premises of the passing runs keep these cases apart, as said.

Table and database:

* A unique index refuses no duplicate (`table.rs:266`), although the N-API docs say
  it does; `update` never maintains `unique_map`, and `insert_batch` pushes to the posting
  lists of a unique index, which nobody reads (`IndexKinds` of `Table_calls`).
* `update_batch_by_indices` (`database.rs:702`) writes indexed cells and no index
  (`CellsBehindIndexes`). `update_batch_i64` takes an id for a position.
* Integer custom ids meet automatic ones: the `Contested` ids of `Table`.
* `hash_join` compares symbols of two different pools when it joins two tables on
  strings, and takes the cells of a declared column named "id" for positions
  (`database.rs:997`): the premise of `JoinExact`, and `Cols`.
* `get_row_by_column_i64` and its siblings (`napi/src/database/query.rs:430`) find a row
  under one lock and read it under another; when it is deleted in between by a native
  thread they return the first row, or panic on an empty table.

Durability:

* After recovery `next_int_id` is 0 and ids repeat; a crash in recovery leaves a log
  that restores an older state; `update_values` and a failing batch change rows without
  logging; errors of `append` are dropped: the premise `Disciplined` of `Durable`.
* A save that fails or crashes in `fs::write` leaves a torn file, and the next one copies it
  over the good `.bak` before it writes (`storage/mod.rs:38`): if that does not end either,
  both images are lost, in one process and without a crash if both writes fail. `cut` in
  `OneImageSurvives`.
* `PreparedStatement.all` and `get` (`napi/src/database/mod.rs:414`) execute INSERT, UPDATE and
  DELETE and never store `is_dirty`, nor do `rollback` and a batch or script that fails
  half-way: such a change stays out of the file until some other call stores the flag, and
  is lost if none does, against "auto-saves to `my_db.dbobj`" (`getting-started.md:38`).
  These calls are in `Autosave_writes`; its properties are stated of `marked`.
* `save` to the database file races with the autosave thread, and an older image may
  replace a newer one; `save` to another file clears the flag; a failed
  autosave is not retried; `fs::write` is not atomic: `Calls` and `Faults` of
  `Autosave_writes`. An open transaction is saved half done.
* `rollback` after `commit` still puts the tables back.

Locks:

* `serialize` locks the version log before the tables, `snapshot` after them;
  `execute_join` of the SQL executor locks the map while it holds a table; joins
  in opposite directions, or of a table with itself, have no order: `Calls` and
  `JoinPairs` of `Locks_calls`. Their programs are in `LockPrograms`.

Conditions:

* `Not` is evaluated without the pool and without the id (`query.rs:203`), so NOT of a
  comparison of a string or of the virtual id is true of every row; strings are
  ordered by symbol, which is the order in which they first occurred (`query.rs:150`);
  `LIKE` between two columns is always false, both being turned into integers; a
  `%` in the data matches the `%` of the pattern as a letter (`query.rs:264`):
  `Conditions` and the strings of `Queries_tables`.

SELECT and the readers:

* The first SELECT by id of an executor returns the whole row, without its column list,
  ORDER BY or LIMIT (`executor.rs:785`); `execute_join` ignores WHERE, columns, ORDER BY
  and LIMIT; `execute_i64` ignores ORDER BY and LIMIT.
* A projected string column is a raw symbol, which the binding prints as
  `<interned:k>` (`napi/src/database/query.rs:330`), and a projected `id` is Null, although
  `sql-reference.md:215` shows `SELECT id, name FROM users`. `ORDER BY id` without a column
  of that name has no effect.
* `OFFSET` without `LIMIT` overflows (`executor.rs:855`): `Panic`, which `PagesPartition`
  meets for no page because `NoLimit` comes with offset 0.
* `COUNT(col)` is the number of rows, Null cells included (`executor.rs:1035`), where
  `sql-reference.md:358` says "Total non-NULL values": the premise of the last part of
  `AggregatesAgree`.
* Aggregates count the rows after LIMIT; MIN and MAX take the ends of `i64` for no
  value; AVG is documented and no keyword.
* `allI64` ignores the WHERE clause and its parameters (`napi/src/database/mod.rs:234`).
* A cursor of batch size 0 never ends; the default size is 1000, documented as 5000; a
  row that a deletion moves may be missed (`disturbed`).

Statements:

* `populated` outlives the table it names (`executor.rs:412`): UPDATE, DROP, CREATE,
  INSERT and UPDATE by one executor end in "ID not found": `replaced`.
* INSERT of several rows and batches validate nothing; a batch with an unknown column is
  an error where a single INSERT ignores it, a short last row gives Null cells
  where `run` refuses, and literals among the VALUES of a batch are ignored; the fast
  path of UPDATE panics on an unknown column or a short row (`RunBatch`), and goes on
  after a value that UPDATE would refuse (`AllWritten`).
* On a table that declares a column "id", as those of the docs do (`sql-reference.md:136`,
  `:340`), `UPDATE .. WHERE id = ?` compares that column when it is run, and a batch of it
  writes the rows of the ids the table gave, which start with 0: `execute_prepared_batch`
  computes whether there is such a column and ignores it (`executor.rs:334`). The batch then
  changes other rows than `run`, or none, and says nothing: `IdsAsGiven` in `BatchIsSequence`.
  CREATE TABLE makes a unique index for the column, too, which goes stale with the first delete
  (see above); `Sessions` has the column from ALTER TABLE only, which makes none.
* The DEFAULT of a column is parsed and then dropped: the executor keeps its name, its
  type and NOT NULL (`executor.rs:462`, `:698`), so ALTER TABLE fills the column with Null, and
  INSERT without it gives Null or an error, where `sql-reference.md:102` and `:134` have the
  default. The model's columns have none.
* UPDATE passes over an assignment whose value is no literal (`executor.rs:626`), such as
  `SET price = price * 0.9` of `sql-reference.md:175`, and answers Ok: `Assignments` has
  literals only.
* ALTER TABLE with a name that exists hides the old column; if that is NOT NULL, INSERT
  of one row and UPDATE fail from then on (`NamesDiffer`).
* UPDATE writes whole rows back: what another thread wrote to another column since is
  lost (`WriteOne`).
* The flat inserts of the binding return success without inserting when the array is
  no multiple of the number of columns (`insert.rs:139`).

Texts:

* A character the tokenizer does not know ends the text for the parser, and what follows
  is dropped: `DELETE FROM t # WHERE ...` is a DELETE without a WHERE
  (`NoTokenizerError`).
* Of several DEFAULTs of a column the last wins. A `?` inside an aggregate is bound and
  not counted (`InScope`).

## 6. Not modelled

* `dynamic_schema.rs`, `json_stream.rs`, `schema.rs` and `types.rs` of the binding: pure
  functions that validate or convert one value; the marshalling of arguments and results.
* Value hashing, floats, booleans as cells and blobs; the JSON and rkyv encodings but for
  what they keep; AVG-like column functions over floats; JSON texts inside cells.
* The statement cache of the executor, which returns what parsing again would; the
  contents of joined rows (their ids and locks are modelled); `join` with a closure.
* Several transactions at a time, and statements of several clients on several tables:
  `Sessions` has one client, `Writers` one table.
* The version log's contents: appended to, never read back.
* Benchmarks and examples have no state of their own.

## 7. Plan

Done, in this order because the table carries everything else and the two kinds
of persistence are what clients rely on: `TableOps`, `Table`, `RowStore`;
`WalRecovery`; `Autosave`; `RwLocks`, `LockPrograms`; `Upsert`, `Writers`; `Queries`,
`SqlStatements`, `SqlResults`; `StridedTable`, `Relations`, `Sessions`; the parser; the
proofs of the table, the writers, the autosave thread, the log, the locks, the
statements and transactions of a client, and the queries and their results.

Next modules: a composition of `WalRecovery` and `Autosave`, a database with both; the
statement cache over DROP and CREATE; several transactions at a time.

Next theorems: `TokensExact`, once `SqlTokenizer` stands apart from the parser and runs through
its characters by a recursive function, as `LikeLoop` does.
