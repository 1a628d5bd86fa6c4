------------------------------ MODULE Writers ------------------------------
(***************************************************************************)
(* The threads of module Upsert also make UPDATE and DELETE statements of  *)
(* the SQL executor (extensions/sql/src/executor.rs), and a client reads   *)
(* the table through a cursor of the N-API (napi/src/database/cursor.rs).  *)
(*                                                                         *)
(* A statement collects rows under a read lock, lets go of the table and   *)
(* then writes one row per call, while other threads write in between.     *)
(* The statements look rows up by the key and assign to other columns.     *)
(***************************************************************************)
EXTENDS Upsert

CONSTANTS
  BatchSizes  \* the rows a cursor is asked for at a time

\* A cursor that is asked for no rows never ends.
ASSUME BatchSizesAssumption == BatchSizes \subseteq Nat \ {0}

VARIABLES
  jobs,    \* the statement of each thread: the rows it still has to write
  cursor   \* the open cursor; seen, start and disturbed are history

writerVars == <<table, saw, jobs, cursor>>

NoJob == [running |-> FALSE]
Job(kind, ids, row) ==
  IF ids = {} THEN NoJob ELSE [running |-> TRUE, kind |-> kind, ids |-> ids, row |-> row]
Running(th) == jobs[th].running
\* DELETE writes no row.
AnyRow == CHOOSE row \in Row : TRUE

Idle(th) == ~Calling(th) /\ ~Running(th)

IdsNow == {table.ids[p] : p \in Positions(table)}

NoCursor == [open |-> FALSE]

WritersInit ==
  /\ Init
  /\ jobs = [th \in Threads |-> NoJob]
  /\ cursor = NoCursor

-----------------------------------------------------------------------------
(* Statements *)

\* The ids of the rows with the key of row, and id_map filled.  They are
\* written in any order, of which the code's is one.  An UPDATE writes whole rows
\* back: here row, the collected key and what it assigns to the other columns.
Collect(th, kind, row) ==
  LET t    == LeaveSequential(table)
      hits == IF t.indexes[Key].kind = "none" THEN Scan(t, Key, row[Key])
                                              ELSE Lookup(t, Key, row[Key])
  IN  /\ Idle(th) /\ ~cursor.open
      /\ kind = "delete" => t.indexes[Key].kind \in DeleteKinds
      /\ table' = t
      /\ jobs' = [jobs EXCEPT ![th] =
           Job(kind, {t.ids[p] : p \in hits}, IF kind = "delete" THEN AnyRow ELSE row)]
      /\ UNCHANGED <<saw, cursor>>

\* Mutant: an UPDATE of a row that has gone inserts it.
WrittenOrInserted(t, job, id) ==
  IF job.kind = "delete" THEN IF GetIndex(t, id) = 0 THEN {} ELSE {Delete(t, id)}
  ELSE IF t.idMap[id] = 0 THEN {AppendRows(t, <<id>>, <<job.row>>, {"unique"})}
  ELSE {Update(t, id, job.row)}

\* The table after delete_row or update_row, none when it is an error: the
\* first asks get_index for the row, the second id_map.
Written(t, job, id) ==
  IF job.kind = "delete" THEN IF GetIndex(t, id) = 0 THEN {} ELSE {Delete(t, id)}
  ELSE IF t.idMap[id] = 0 THEN {} ELSE {Update(t, id, job.row)}

Pending(job, id) == Job(job.kind, job.ids \ {id}, job.row)

Bounded(t) == \A p \in Positions(t) : t.versions[p] <= MaxVersion

\* update_row or delete_row for one of the rows.
WriteOne(th, id) ==
  /\ Running(th) /\ id \in jobs[th].ids
  /\ table' \in Written(table, jobs[th], id)
  /\ Bounded(table')
  /\ jobs' = [jobs EXCEPT ![th] = Pending(@, id)]
  /\ UNCHANGED saw

\* An id without a row is an error, which ends the statement half done.
Abort(th, id) ==
  /\ Running(th) /\ id \in jobs[th].ids
  /\ Written(table, jobs[th], id) = {}
  /\ jobs' = [jobs EXCEPT ![th] = NoJob]
  /\ UNCHANGED <<table, saw, cursor>>

-----------------------------------------------------------------------------
(* The cursor *)

\* The calls of the N-API come from one thread: while a cursor is open, one call
\* is made after the other, and no statement of another thread is half done.
Open(size) ==
  /\ cursor = NoCursor /\ \A th \in Threads : Idle(th)
  /\ cursor' = [open |-> TRUE, size |-> size, offset |-> 0, done |-> FALSE,
                seen |-> {}, start |-> IdsNow, disturbed |-> FALSE]
  /\ UNCHANGED <<table, saw, jobs>>

Smaller(m, n) == IF m < n THEN m ELSE n

\* The ids of the next batch.
Batch(c) == {table.ids[p] : p \in c.offset + 1 .. Smaller(c.offset + c.size, Len(table.ids))}

\* Mutant: a batch starts with the last row of the one before.
AdvancedShort(c) ==
  [c EXCEPT !.offset = @ + Cardinality(Batch(c)) - 1,
            !.done   = Cardinality(Batch(c)) < c.size,
            !.seen   = @ \cup Batch(c)]

Advanced(c) ==
  [c EXCEPT !.offset = @ + Cardinality(Batch(c)),
            !.done   = Cardinality(Batch(c)) < c.size,
            !.seen   = @ \cup Batch(c)]

\* next: past the end, and after a batch that is not full, the cursor is done.
NextBatch ==
  /\ cursor.open /\ ~cursor.done
  /\ cursor' = IF cursor.offset >= Len(table.ids) THEN [cursor EXCEPT !.done = TRUE]
                                                  ELSE Advanced(cursor)
  /\ UNCHANGED <<table, saw, jobs>>

\* What a deletion does to the history of the cursor.
Disturb == cursor' = IF cursor.open THEN [cursor EXCEPT !.disturbed = TRUE] ELSE cursor

-----------------------------------------------------------------------------
(* The threads and the client together *)

WritersNext ==
  \/ /\ \E th \in Threads :
          \/ Replace(th) \/ InsertNew(th)
          \/ /\ ~Running(th)
             /\ cursor.open => \A other \in Threads : Idle(other)
             /\ \E row \in Row : Look(th, row)
     /\ UNCHANGED <<jobs, cursor>>
  \/ /\ \E id \in Id : ClientDelete(id) /\ id \in IdsNow
     /\ Disturb
     /\ UNCHANGED jobs
  \/ \E th \in Threads :
       \/ \E row \in Row, kind \in {"update", "delete"} : Collect(th, kind, row)
       \/ \E id \in Id :
            \/ WriteOne(th, id) /\ (IF jobs[th].kind = "delete" THEN Disturb ELSE UNCHANGED cursor)
            \/ Abort(th, id)
  \/ NextBatch \/ \E size \in BatchSizes : Open(size)

WritersSpec == WritersInit /\ [][WritersNext]_writerVars

-----------------------------------------------------------------------------
(* Properties *)

\* The position of a row, found without id_map.
At(t, id) == CHOOSE p \in Positions(t) : t.ids[p] = id

\* A statement ends with an error only when a row it collected has been deleted
\* since, wherever the rows have moved in the meantime.
AbortsOnlyIfDeleted ==
  [][\A th \in Threads :
       Running(th) /\ ~Running(th)' /\ UNCHANGED table =>
         jobs[th].ids \ IdsNow # {}]_writerVars

\* A deleted row stays deleted, also when an UPDATE collected it before: a row
\* comes only with an id that no row has had.
DeletedStay ==
  [][\A id \in IdsNow' \ IdsNow : id >= table.nextId]_writerVars

\* A statement writes one row at a time, and whatever moved since it collected
\* its rows, every other row that was there is there and as it was.
OthersUntouched ==
  [][\A th \in Threads, id \in Id :
       WriteOne(th, id) =>
         \A other \in IdsNow \ {id} :
           /\ other \in IdsNow'
           /\ table'.data[At(table', other)] = table.data[At(table, other)]]_writerVars

\* A cursor returns no row twice, though deletions move rows while it is open.
CursorNeverRepeats ==
  [][cursor.open /\ NextBatch => Cardinality(cursor'.seen) =
       Cardinality(cursor.seen) + (cursor'.offset - cursor.offset)]_writerVars

\* A cursor that comes to its end has returned every row that was there when it
\* was opened, unless a row was deleted since: that moves the last row to a
\* place the cursor may be past.
CursorComplete ==
  cursor.open => (cursor.done /\ ~cursor.disturbed => cursor.start \subseteq cursor.seen)

\* A client that reads a table through a cursor reads every row once.
CursorExact == CursorNeverRepeats /\ []CursorComplete

=============================================================================
