---------------------------- MODULE WalRecovery ----------------------------
(***************************************************************************)
(* A database with a write-ahead log (storage/wal.rs), saved with Storage  *)
(* (storage/mod.rs), and the recovery of core/database.rs.  One table      *)
(* stands for all: calls on different tables share nothing but the files.  *)
(*                                                                         *)
(* A call changes the table under its write lock and then appends its log  *)
(* lines; the table is lost in a crash, the three files are not: the log,  *)
(* the image and its .bak copy.  Recovery replays the log through the very *)
(* calls that append to it.                                                *)
(*                                                                         *)
(* A profile says what clients and environment do in one behaviour: the    *)
(* calls, the ids clients name in them, the faults, and how long the log   *)
(* and the table may grow.                                                 *)
(***************************************************************************)
EXTENDS TableOps, SequencesExt

CONSTANTS
  Profiles,   \* the profiles the clients and the environment have
  MaxRows,    \* bound: rows in the table
  MaxCrashes, \* bound: crashes
  MaxVersion, \* bound: row versions, where updates may log nothing
  MaxSaves,   \* bound: saves
  Garbage,    \* a line that does not parse
  NoFile,     \* the content of a file that does not exist
  Torn,       \* the content of a file that was not written to its end
  NoRow       \* the data of a delete entry

VARIABLES
  profile,
  table,    \* the table in memory
  file,     \* the log: its lines and whether the last one lacks its newline
  disk,     \* the database file `path` and its copy `bak`
  phase,    \* "running" or "replaying"
  pending,  \* the log entries recovery has still to replay
  crashes,
  saves,
  cut,      \* saves that did not end, by a crash or with an error, since the
            \* file was last complete
  expected, \* the contents a client may find: acknowledged calls, and any
            \* part of the call a crash interrupted
  written   \* every row some call has ever put under an id

vars == <<profile, table, file, disk, phase, pending, crashes, saves, cut, expected, written>>

Entry(op, id, row) == [op |-> op, id |-> id, row |-> row]

Entries == [op : {"insert", "update"}, id : Id, row : Row]
             \cup [op : {"delete"}, id : Id, row : {NoRow}]

Profile == [calls  : SUBSET {"insert", "insert_custom", "insert_batch", "update",
                             "update_values", "delete", "save"},
            faults : SUBSET {"torn", "append_fails", "in_save", "save_error", "in_recovery"},
            ids    : SUBSET Id,
            lines  : Nat]

ASSUME ProfilesAssumption == Profiles \subseteq Profile

\* A line that does not parse is no entry.
ASSUME GarbageAssumption == Garbage \notin Entries

\* A missing file, a torn file and an image are told apart.
ASSUME FilesAssumption ==
  /\ NoFile # Torn
  /\ {NoFile, Torn} \cap [t : TableRecord, idMapData : SUBSET [id : Id, at : Nat]] = {}

\* The calls that log all they do.
LoggedCalls == {"insert_custom", "update", "delete"}

-----------------------------------------------------------------------------
(* The log file *)

\* Wal::append of each entry: JSON and newline go to the end of the file, so
\* an entry appended after an unfinished line ends up on that line.
Written(f, entries) ==
  IF entries = <<>> THEN f
  ELSE [lines |-> IF f.open THEN Append(Front(f.lines), Garbage) \o Tail(entries)
                            ELSE f.lines \o entries,
        open  |-> FALSE]

\* read_all fails on the first line that does not parse, and
\* recover_from_wal takes a failure for an empty log.
ReadAll(f) == IF Garbage \in Range(f.lines) THEN <<>> ELSE f.lines

\* A crash that stops the append of e: nothing, part of it, or all of it but
\* the newline reaches the file.
Interrupted(f, e) ==
  {f, [Written(f, <<Garbage>>) EXCEPT !.open = TRUE],
      [Written(f, <<e>>) EXCEPT !.open = TRUE]}

-----------------------------------------------------------------------------
(* The database file *)

\* prepare_for_archive: id_map itself is not archived but a list of its pairs.
Archive(t) ==
  [t         |-> [t EXCEPT !.idMap = EmptyTable.idMap],
   idMapData |-> {[id |-> id, at |-> t.idMap[id]] : id \in {x \in Id : t.idMap[x] # 0}}]

\* rebuild_from_archive
Rebuild(a) ==
  [a.t EXCEPT !.idMap =
     [id \in Id |-> IF \E e \in a.idMapData : e.id = id
                    THEN (CHOOSE e \in a.idMapData : e.id = id).at ELSE 0]]

IsImage(f) == f \notin {NoFile, Torn}

\* Mutant: the file is written before it is copied.
SaveStepsCopyLast(d, a) ==
  <<[d EXCEPT !.path = Torn], [d EXCEPT !.path = a],
    [path |-> a, bak |-> Torn], [path |-> a, bak |-> a]>>

\* Storage::save: an existing file is copied to .bak, whatever it holds, and
\* then written; fs::copy and fs::write both truncate before they write.
SaveSteps(d, a) ==
  LET copied == [d EXCEPT !.bak = d.path]
      copy   == IF d.path = NoFile THEN <<>> ELSE <<[d EXCEPT !.bak = Torn], copied>>
      from   == IF d.path = NoFile THEN d ELSE copied
  IN  copy \o <<[from EXCEPT !.path = Torn], [from EXCEPT !.path = a]>>

\* What a new process may start from: load fails unless the file is complete;
\* then whoever runs it may put .bak back, or go on with an empty table.
Starts(d) ==
  IF IsImage(d.path) THEN {[disk |-> d, table |-> Rebuild(d.path)]}
  ELSE {[disk |-> d, table |-> EmptyTable]}
         \cup (IF IsImage(d.bak)
               THEN {[disk |-> [d EXCEPT !.path = d.bak], table |-> Rebuild(d.bak)]}
               ELSE {})

-----------------------------------------------------------------------------
(* The calls: what each does to the table t and which entries it logs *)

\* delete_row and delete_batch: only the ids that were found are logged.
DeleteBatch(t, ids) ==
  LET done[n \in 0 .. Len(ids)] ==
        IF n = 0 THEN [t |-> t, log |-> <<>>]
        ELSE IF GetIndex(done[n - 1].t, ids[n]) = 0 THEN done[n - 1]
        ELSE [t |-> Delete(done[n - 1].t, ids[n]),
              log |-> Append(done[n - 1].log, Entry("delete", ids[n], NoRow))]
  IN  done[Len(ids)]

\* The outcome of one call: the new table, what it did, what it logs.
Outcome(t, did, logged) == [t |-> t, did |-> did, logged |-> logged]

InsertAuto(row) ==
  LET e == <<Entry("insert", table.nextId, row)>>
  IN  Outcome(Insert(table, row), e, e)

\* insert_row with a custom id: a duplicate is an error and logs nothing.
InsertAs(t, id, row) ==
  LET e == IF IsDuplicate(t, id) THEN <<>> ELSE <<Entry("insert", id, row)>>
  IN  Outcome(InsertCustom(t, id, row), e, e)

\* insert_batch: a rejected row fails the call, after the rows before it were
\* inserted and before anything is logged.
InsertBatchOutcome(batch) ==
  LET rows == AcceptedPrefix(batch)
      e == [i \in 1 .. Len(rows) |-> Entry("insert", table.nextId + i - 1, rows[i])]
  IN  Outcome(InsertBatch(table, batch), e, IF rows = batch THEN e ELSE <<>>)

UpdateRow(t, id, row) ==
  LET e == IF t.idMap[id] = 0 THEN <<>> ELSE <<Entry("update", id, row)>>
  IN  Outcome(Update(t, id, row), e, e)

\* Database::update_values does not log.
UpdateRowValues(id, row) ==
  LET e == IF GetIndex(table, id) = 0 THEN <<>> ELSE <<Entry("update", id, row)>>
  IN  Outcome(UpdateValues(table, id, row), e, <<>>)

\* Mutant: deletes are not logged.
DeleteRowsUnlogged(t, ids) ==
  LET d == DeleteBatch(t, ids) IN Outcome(d.t, d.log, <<>>)

DeleteRows(t, ids) ==
  LET d == DeleteBatch(t, ids) IN Outcome(d.t, d.log, d.log)

\* recover_from_wal: an entry is replayed by the call that logged it, inserts
\* with the logged id as a custom id.
Replay(t, e) ==
  CASE e.op = "insert" -> InsertAs(t, e.id, e.row)
    [] e.op = "update" -> UpdateRow(t, e.id, e.row)
    [] e.op = "delete" -> DeleteRows(t, <<e.id>>)

-----------------------------------------------------------------------------
(* What a client expects of the contents *)

Contents(t) == {[id |-> t.ids[p], row |-> t.data[p]] : p \in Positions(t)}

\* The rows that a sequence of entries puts into the table.
Rows(entries) ==
  {[id |-> e.id, row |-> e.row] : e \in {x \in Range(entries) : x.op # "delete"}}

\* The contents K after some entries: the last entry about an id decides.
Effects(K, entries) ==
  LET Final(i) == \A j \in i + 1 .. Len(entries) : entries[j].id # entries[i].id
  IN  {k \in K : \A i \in 1 .. Len(entries) : entries[i].id # k.id}
        \cup {[id |-> entries[i].id, row |-> entries[i].row] :
               i \in {j \in 1 .. Len(entries) : Final(j) /\ entries[j].op # "delete"}}

-----------------------------------------------------------------------------
(* Actions *)

Init ==
  /\ profile \in Profiles
  /\ table = EmptyTable
  /\ file = [lines |-> <<>>, open |-> FALSE]
  /\ disk = [path |-> NoFile, bak |-> NoFile]
  /\ phase = "running"
  /\ pending = <<>>
  /\ crashes = 0 /\ saves = 0 /\ cut = 0
  /\ expected = {{}}
  /\ written = {}

\* A call that returns to its client.  Errors of append are dropped: with the
\* fault "append_fails" only the first k entries reach the log.
Complete(o) ==
  /\ table' = o.t
  /\ \E k \in IF "append_fails" \in profile.faults
              THEN 0 .. Len(o.logged) ELSE {Len(o.logged)} :
       file' = Written(file, SubSeq(o.logged, 1, k))
  /\ expected' = {Effects(K, o.did) : K \in expected}
  /\ UNCHANGED <<disk, phase, pending, crashes, cut>>

\* A new process opens the files and starts to recover.
Restart(f, d) ==
  /\ crashes < MaxCrashes
  /\ crashes' = crashes + 1
  /\ \E s \in Starts(d) :
       /\ disk' = s.disk
       /\ table' = s.table
       /\ cut' = IF IsImage(s.disk.path) THEN 0 ELSE cut + (IF d = disk THEN 0 ELSE 1)
  /\ file' = f
  /\ phase' = "replaying"
  /\ pending' = ReadAll(f)

\* The process dies inside a call, when k of its entries are in the log; with
\* the fault "torn" it may die inside the next append.
CrashInside(o) ==
  \E k \in 0 .. Len(o.logged) :
    LET f == Written(file, SubSeq(o.logged, 1, k))
    IN  /\ \E g \in {f} \cup
                    (IF "torn" \in profile.faults /\ k < Len(o.logged)
                     THEN Interrupted(f, o.logged[k + 1]) ELSE {}) : Restart(g, disk)
        /\ expected' = {Effects(K, SubSeq(o.did, 1, j)) :
                          K \in expected, j \in 0 .. Len(o.did)}

Room(k) == Len(table.ids) + k <= MaxRows
AutoRoom(k) == Room(k) /\ table.nextId + k <= AutoLimit

\* The calls a client may make now.
Call(o) ==
  /\ phase = "running"
  /\ Len(file.lines) < profile.lines
  /\ Complete(o) \/ CrashInside(o)
  /\ written' = written \cup Rows(o.did)
  /\ UNCHANGED <<profile, saves>>

ClientInsert ==
  /\ "insert" \in profile.calls /\ AutoRoom(1)
  /\ \E row \in Row : Call(InsertAuto(row))

ClientInsertAs ==
  /\ "insert_custom" \in profile.calls /\ Room(1)
  /\ \E id \in CustomIds \cap profile.ids, row \in Row : Call(InsertAs(table, id, row))

ClientInsertBatch ==
  /\ "insert_batch" \in profile.calls /\ AutoRoom(2)
  /\ \E batch \in [1 .. 2 -> Row \cup {BadRow}] : Call(InsertBatchOutcome(batch))

\* Updates that log nothing would go on for ever.
FewVersions ==
  "append_fails" \in profile.faults \/ "update_values" \in profile.calls =>
    \A p \in Positions(table) : table.versions[p] < MaxVersion

ClientUpdate ==
  /\ "update" \in profile.calls /\ FewVersions
  /\ \E id \in profile.ids, row \in Row : Call(UpdateRow(table, id, row))

ClientUpdateValues ==
  /\ "update_values" \in profile.calls /\ FewVersions
  /\ \E id \in profile.ids, row \in Row : Call(UpdateRowValues(id, row))

ClientDelete ==
  /\ "delete" \in profile.calls
  /\ \E ids \in SeqOf(profile.ids, 2) : ids # <<>> /\ Call(DeleteRows(table, ids))

\* save, to its end or to one of its steps: with the fault "in_save" the process
\* dies there, with "save_error" fs::copy, serialize or fs::write returns an
\* error there, or has not even opened its file, and the process goes on.  The
\* log is not cleared.
Save ==
  /\ phase = "running" /\ "save" \in profile.calls
  /\ saves < MaxSaves /\ saves' = saves + 1
  /\ LET steps == SaveSteps(disk, Archive(table))
     IN  \/ /\ disk' = Last(steps) /\ cut' = 0
            /\ UNCHANGED <<table, file, phase, pending, crashes>>
         \/ /\ "in_save" \in profile.faults
            /\ \E k \in 1 .. Len(steps) - 1 : Restart(file, steps[k])
         \/ /\ "save_error" \in profile.faults
            /\ disk' \in {disk} \cup {steps[k] : k \in 1 .. Len(steps) - 1}
            /\ cut' = IF IsImage(disk'.path) THEN 0 ELSE cut + (IF disk' = disk THEN 0 ELSE 1)
            /\ UNCHANGED <<table, file, phase, pending, crashes>>
  /\ UNCHANGED <<profile, expected, written>>

Crash ==
  /\ phase = "running"
  /\ Restart(file, disk)
  /\ UNCHANGED <<profile, saves, expected, written>>

ReplayNext ==
  /\ phase = "replaying" /\ pending # <<>>
  /\ LET o == Replay(table, Head(pending))
     IN  /\ table' = o.t
         /\ file' = Written(file, o.logged)
  /\ pending' = Tail(pending)
  /\ UNCHANGED <<profile, disk, phase, crashes, saves, cut, expected, written>>

RecoveryDone ==
  /\ phase = "replaying" /\ pending = <<>>
  /\ phase' = "running"
  /\ UNCHANGED <<profile, table, file, disk, pending, crashes, saves, cut, expected, written>>

CrashInRecovery ==
  /\ phase = "replaying" /\ "in_recovery" \in profile.faults
  /\ Restart(file, disk)
  /\ UNCHANGED <<profile, saves, expected, written>>

Next ==
  \/ ClientInsert \/ ClientInsertAs \/ ClientInsertBatch
  \/ ClientUpdate \/ ClientUpdateValues \/ ClientDelete
  \/ Save \/ Crash
  \/ ReplayNext \/ RecoveryDone \/ CrashInRecovery

Spec == Init /\ [][Next]_vars

-----------------------------------------------------------------------------
(* Properties *)

\* Clients that make logged calls only, name their ids, and meet no fault but
\* crashes between and inside calls and inside save, and saves that fail.
Disciplined ==
  /\ profile.calls \subseteq LoggedCalls \cup {"save"}
  /\ profile.faults \subseteq {"in_save", "save_error"}
  /\ profile.ids \cap Nat = {}

\* The docs: the log is there for crash recovery.  Whenever clients are served,
\* before a crash or after recovery, the table holds what they were told and at
\* most a part of the interrupted call.
LogRecovers == phase = "running" => Contents(table) \in expected

\* It does for disciplined clients, from whatever image the process starts: the
\* newest, the .bak copy or none, as the log is never cleared.  And every row is
\* there once: no replay puts a row under an id that has one.
Durable ==
  Disciplined =>
    /\ LogRecovers
    /\ phase = "running" => Cardinality(Contents(table)) = Len(table.ids)

\* Whatever crashes happen, whatever appends fail, and while recovery runs, every
\* row is one that some call has put under that id: recovery never mixes rows or
\* parses junk.
NothingInvented == Contents(table) \subseteq written

\* A save that does not end, by a crash or by an error after which the process
\* goes on, leaves a complete image, the file or its .bak copy, once there was
\* one.  A second such save before the file is complete again may lose both, as
\* save copies the torn file over the good copy.
OneImageSurvives ==
  \/ cut > 1
  \/ disk = [path |-> NoFile, bak |-> NoFile]
  \/ disk = [path |-> Torn, bak |-> NoFile]   \* the first save was cut
  \/ IsImage(disk.path) \/ IsImage(disk.bak)

=============================================================================
