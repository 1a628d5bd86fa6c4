------------------------------ MODULE Autosave ------------------------------
(***************************************************************************)
(* A file-backed N-API Database: the JavaScript thread that calls it, the  *)
(* autosave thread that Database::new starts, and the database file they   *)
(* both write (extensions/napi/src/database/mod.rs, storage/mmap.rs).      *)
(*                                                                         *)
(* Every change has a number, and the contents of a table is the number of *)
(* the last change to it, 0 when it has none: the numbers name the states  *)
(* of a table in their order.  Saving is what snapshot() and fs::write do: *)
(* one table is cloned after the other, then the file is truncated, then   *)
(* it is written.                                                          *)
(***************************************************************************)
EXTENDS Naturals, FiniteSets

CONSTANTS
  Tables,     \* the tables of the database
  Calls,      \* the calls the client makes, a subset of AllCalls
  Faults,     \* the faults that happen, a subset of AllFaults
  MaxWrites,  \* bound: changes of the tables
  MaxCrashes, \* bound: crashes
  None        \* no open transaction

AllCalls == {"write", "failed_write", "query_write", "read", "begin", "commit",
             "rollback", "save_db", "save_export"}
AllFaults == {"crash", "crash_in_save", "save_error"}

ASSUME CallsAssumption == Calls \subseteq AllCalls /\ Faults \subseteq AllFaults

VARIABLES
  mem,      \* the tables in memory
  writes,   \* how many changes there were
  tx,       \* original_tables of the open transaction
  dirty,    \* is_dirty
  marked,   \* history: the tables when is_dirty was last stored
  file,     \* the file at each path
  pc,       \* what each thread is doing
  copy,     \* the part of the snapshot each thread has cloned
  dest,     \* the path each thread saves to
  up,       \* the process runs
  crashes,
  good      \* the last image that was written to the database file in full

vars == <<mem, writes, tx, dirty, marked, file, pc, copy, dest, up, crashes, good>>

Threads == {"client", "saver"}
Paths   == {"db", "export"}
Empty   == [t \in Tables |-> 0]

Absent == [kind |-> "absent"]
Torn   == [kind |-> "torn"]   \* exists, does not validate
Image(c) == [kind |-> "image", contents |-> c]

\* What Database::new finds at the path: a file that is missing or does not
\* validate gives an empty database.
Loaded(f) == IF f.kind = "image" THEN f.contents ELSE Empty

Saving(p) == pc[p] \in {"copy", "create", "write"}

Init ==
  /\ mem = Empty
  /\ writes = 0
  /\ tx = None
  /\ dirty = FALSE
  /\ marked = Empty
  /\ file = [p \in Paths |-> Absent]
  /\ pc = [p \in Threads |-> "idle"]
  /\ copy = [p \in Threads |-> <<>>]
  /\ dest = [p \in Threads |-> "db"]
  /\ up = TRUE
  /\ crashes = 0
  /\ good = Empty

-----------------------------------------------------------------------------
(* The client's calls *)

ClientReady(call) == up /\ call \in Calls /\ pc["client"] = "idle"

Put(t) ==
  /\ writes < MaxWrites
  /\ writes' = writes + 1
  /\ mem' = [mem EXCEPT ![t] = writes + 1]

\* A mutating call of Database, or run or runBatch of a prepared statement,
\* first changes the tables ...
Write(t) ==
  /\ ClientReady("write")
  /\ Put(t)
  /\ pc' = [pc EXCEPT !["client"] = "mark"]
  /\ UNCHANGED <<tx, dirty, marked, file, copy, dest, up, crashes, good>>

\* ... and then stores is_dirty.
Mark ==
  /\ up /\ pc["client"] = "mark"
  /\ dirty' = TRUE
  /\ marked' = mem
  /\ pc' = [pc EXCEPT !["client"] = "idle"]
  /\ UNCHANGED <<mem, writes, tx, file, copy, dest, up, crashes, good>>

\* execute_sql, run and runBatch store it for a SELECT as well.
Read ==
  /\ ClientReady("read")
  /\ pc' = [pc EXCEPT !["client"] = "mark"]
  /\ UNCHANGED <<mem, writes, tx, dirty, marked, file, copy, dest, up, crashes, good>>

\* A call that fails half-way, as a batch or a script, returns before that.
FailedWrite(t) ==
  /\ ClientReady("failed_write")
  /\ Put(t)
  /\ UNCHANGED <<tx, dirty, marked, file, pc, copy, dest, up, crashes, good>>

\* all and get execute any prepared statement and never store is_dirty.
QueryWrite(t) ==
  /\ ClientReady("query_write")
  /\ Put(t)
  /\ UNCHANGED <<tx, dirty, marked, file, pc, copy, dest, up, crashes, good>>

Begin ==
  /\ ClientReady("begin") /\ tx = None
  /\ tx' = mem
  /\ UNCHANGED <<mem, writes, dirty, marked, file, pc, copy, dest, up, crashes, good>>

\* commit does nothing; the client drops the transaction.
Commit ==
  /\ ClientReady("commit") /\ tx # None
  /\ tx' = None
  /\ UNCHANGED <<mem, writes, dirty, marked, file, pc, copy, dest, up, crashes, good>>

\* rollback needs the write lock on the table map, which snapshot() holds for
\* reading.  It is a change, to what they were, of the tables that changed
\* since begin, and it does not store is_dirty.
Rollback ==
  /\ ClientReady("rollback") /\ tx # None
  /\ pc["saver"] # "copy"
  /\ writes < MaxWrites
  /\ writes' = writes + 1
  /\ mem' = [t \in Tables |-> IF mem[t] = tx[t] THEN mem[t] ELSE writes + 1]
  /\ tx' = None
  /\ UNCHANGED <<dirty, marked, file, pc, copy, dest, up, crashes, good>>

StartSave(p, path) ==
  /\ pc' = [pc EXCEPT ![p] = "copy"]
  /\ copy' = [copy EXCEPT ![p] = <<>>]
  /\ dest' = [dest EXCEPT ![p] = path]

\* save(path)
SaveTo(path) ==
  /\ ClientReady(IF path = "db" THEN "save_db" ELSE "save_export")
  /\ StartSave("client", path)
  /\ UNCHANGED <<mem, writes, tx, dirty, marked, file, up, crashes, good>>

\* The end of save(path), whatever the path is.
ClearDirty ==
  /\ up /\ pc["client"] = "clear"
  /\ dirty' = FALSE
  /\ pc' = [pc EXCEPT !["client"] = "idle"]
  /\ UNCHANGED <<mem, writes, tx, marked, file, copy, dest, up, crashes, good>>

-----------------------------------------------------------------------------
(* The autosave thread, and saving by either thread *)

\* if is_dirty.swap(false) { save_to_mmap }
WakeUp ==
  /\ up /\ pc["saver"] = "idle" /\ dirty
  /\ dirty' = FALSE
  /\ StartSave("saver", "db")
  /\ UNCHANGED <<mem, writes, tx, marked, file, up, crashes, good>>

\* Mutant: the loop over the tables ends after the first one.
CopyFirstTable(p, t) ==
  /\ up /\ pc[p] = "copy"
  /\ copy' = [copy EXCEPT ![p] = [x \in {t} |-> mem[t]]]
  /\ pc' = [pc EXCEPT ![p] = "create"]
  /\ UNCHANGED <<mem, writes, tx, dirty, marked, file, dest, up, crashes, good>>

\* The loop of snapshot(), over a hash map: the tables come in any order.
CopyTable(p, t) ==
  /\ up /\ pc[p] = "copy" /\ t \notin DOMAIN copy[p]
  /\ copy' = [copy EXCEPT ![p] = [x \in DOMAIN @ \cup {t} |->
                                    IF x = t THEN mem[t] ELSE copy[p][x]]]
  /\ pc' = IF DOMAIN copy'[p] = Tables THEN [pc EXCEPT ![p] = "create"] ELSE pc
  /\ UNCHANGED <<mem, writes, tx, dirty, marked, file, dest, up, crashes, good>>

CreateFile(p) ==
  /\ up /\ pc[p] = "create"
  /\ file' = [file EXCEPT ![dest[p]] = Torn]
  /\ pc' = [pc EXCEPT ![p] = "write"]
  /\ UNCHANGED <<mem, writes, tx, dirty, marked, copy, dest, up, crashes, good>>

\* Mutant: the flag is cleared again when the file is written.
WriteFileClears(p) ==
  /\ up /\ pc[p] = "write"
  /\ file' = [file EXCEPT ![dest[p]] = Image(copy[p])]
  /\ good' = IF dest[p] = "db" THEN copy[p] ELSE good
  /\ dirty' = FALSE
  /\ pc' = [pc EXCEPT ![p] = IF p = "client" THEN "clear" ELSE "idle"]
  /\ UNCHANGED <<mem, writes, tx, marked, copy, dest, up, crashes>>

\* Over a different image that another thread wrote meanwhile, a shorter one
\* leaves the tail of the longer one.
WriteFile(p) ==
  LET mine == Image(copy[p])
      overlap == file[dest[p]].kind = "image" /\ file[dest[p]] # mine
  IN  /\ up /\ pc[p] = "write"
      /\ \E f \in {mine} \cup (IF overlap THEN {Torn} ELSE {}) :
           /\ file' = [file EXCEPT ![dest[p]] = f]
           /\ good' = IF f = mine /\ dest[p] = "db" THEN copy[p] ELSE good
      /\ pc' = [pc EXCEPT ![p] = IF p = "client" THEN "clear" ELSE "idle"]
      /\ UNCHANGED <<mem, writes, tx, dirty, marked, copy, dest, up, crashes>>

\* Opening or writing the file fails: save returns the error to its caller,
\* the autosave thread ignores it.
SaveError(p) ==
  /\ up /\ "save_error" \in Faults /\ pc[p] \in {"create", "write"}
  /\ pc' = [pc EXCEPT ![p] = "idle"]
  /\ UNCHANGED <<mem, writes, tx, dirty, marked, file, copy, dest, up, crashes, good>>

-----------------------------------------------------------------------------
(* Crashes: the process exits or is killed *)

Crash ==
  /\ up /\ crashes < MaxCrashes
  /\ \/ "crash" \in Faults /\ \A p \in Threads : pc[p] # "write"
     \/ "crash_in_save" \in Faults
  /\ up' = FALSE
  /\ crashes' = crashes + 1
  /\ UNCHANGED <<mem, writes, tx, dirty, marked, file, pc, copy, dest, good>>

\* Mutant: the constructor does not load an existing file.
RestartEmpty ==
  /\ ~up
  /\ up' = TRUE
  /\ mem' = Empty
  /\ marked' = mem'
  /\ tx' = None
  /\ dirty' = FALSE
  /\ pc' = [p \in Threads |-> "idle"]
  /\ copy' = [p \in Threads |-> <<>>]
  /\ dest' = [p \in Threads |-> "db"]
  /\ UNCHANGED <<writes, file, crashes, good>>

\* Database::new
Restart ==
  /\ ~up
  /\ up' = TRUE
  /\ mem' = Loaded(file["db"])
  /\ marked' = mem'
  /\ tx' = None
  /\ dirty' = FALSE
  /\ pc' = [p \in Threads |-> "idle"]
  /\ copy' = [p \in Threads |-> <<>>]
  /\ dest' = [p \in Threads |-> "db"]
  /\ UNCHANGED <<writes, file, crashes, good>>

-----------------------------------------------------------------------------
SaveStep(p) ==
  CreateFile(p) \/ WriteFile(p) \/ \E t \in Tables : CopyTable(p, t)

Next ==
  \/ \E t \in Tables : Write(t) \/ FailedWrite(t) \/ QueryWrite(t)
  \/ Mark \/ Read \/ Begin \/ Commit \/ Rollback
  \/ \E path \in Paths : SaveTo(path)
  \/ ClearDirty \/ WakeUp
  \/ \E p \in Threads : SaveStep(p) \/ SaveError(p)
  \/ Crash \/ Restart

\* The autosave loop keeps running and a call, once made, returns; nothing
\* says that the client ever makes one, or that a crashed process restarts.
Fairness ==
  /\ WF_vars(WakeUp)
  /\ WF_vars(Mark \/ ClearDirty)
  /\ \A p \in Threads : WF_vars(SaveStep(p))

Spec == Init /\ [][Next]_vars /\ Fairness

-----------------------------------------------------------------------------
(* Properties *)

\* Whenever the autosave thread sleeps and the flag is down, the database file
\* holds everything is_dirty was ever stored for, and what a call without
\* flag had changed before: no mark is lost between clearing the flag, the
\* cloning and the writing.  It needs a client that makes no save of its own,
\* which clears the flag, and saves that do not fail.
UnsavedIsFlagged ==
  up /\ pc["saver"] = "idle" /\ ~dirty
    => \A t \in Tables : Loaded(file["db"])[t] >= marked[t]

\* Everything is_dirty was stored for reaches the database file, in the state
\* it was in or a later one, unless the process ends first.
EventuallySaved ==
  \A t \in Tables, n \in 1 .. MaxWrites :
    (up /\ marked[t] = n) ~> (~up \/ Loaded(file["db"])[t] >= n)

\* A complete image is only replaced by one that is as new for every table.
NeverBackwards == [][\A t \in Tables : good[t] <= good'[t]]_vars

\* When save("export") has written its file, the file is an exact image of
\* the database, whatever the autosave thread and the crashes do.
ExportExact ==
  up /\ pc["client"] = "clear" /\ dest["client"] = "export"
    => file["export"] = Image(mem)

=============================================================================
