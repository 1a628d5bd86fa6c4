--------------------------- MODULE AutosaveProofs ---------------------------
(***************************************************************************)
(* Three results about the autosave thread, for every set of tables and    *)
(* every bound: it loses no mark of a client that leaves saving to it; it  *)
(* never writes an older image over a newer one; and an export is exact,   *)
(* whatever else happens.                                                  *)
(*                                                                         *)
(* UnsavedIsFlagged speaks of states in which the thread sleeps.  What     *)
(* makes it inductive is Current: while the thread saves and nothing new   *)
(* is flagged, what it has cloned is no older than what was marked.        *)
(***************************************************************************)
EXTENDS Autosave, TLAPS

\* The client makes no save of its own, and saving the file does not fail.  It
\* may write with and without flag, fail, read and roll back, and the process
\* may crash at any step.
SaverOnly ==
  /\ Calls \cap {"save_db", "save_export"} = {}
  /\ "save_error" \notin Faults

\* The threads are where such a client can bring them.
Control ==
  /\ pc \in [Threads -> {"idle", "mark", "copy", "create", "write"}]
  /\ pc["client"] \in {"idle", "mark"}
  /\ pc["saver"] \in {"idle", "copy", "create", "write"}
  /\ dest \in [Threads -> Paths] /\ dest["saver"] = "db"
  /\ file \in [Paths -> [kind : {"absent", "torn"}]
                          \cup [kind : {"image"}, contents : [Tables -> Nat]]]
  /\ pc["saver"] = "write" => file["db"] = Torn
  /\ DOMAIN copy = Threads

\* Functions on the tables.
Maps ==
  /\ mem \in [Tables -> Nat] /\ marked \in [Tables -> Nat] /\ writes \in Nat
  /\ \A t \in Tables : marked[t] <= mem[t] /\ mem[t] <= writes
  /\ copy["saver"] = [t \in DOMAIN copy["saver"] |-> copy["saver"][t]]
  /\ DOMAIN copy["saver"] \subseteq Tables
  /\ \A t \in DOMAIN copy["saver"] : copy["saver"][t] \in Nat /\ copy["saver"][t] <= writes
  /\ \A t \in Tables : Loaded(file["db"])[t] \in Nat /\ Loaded(file["db"])[t] <= writes
  /\ pc["saver"] \in {"create", "write"} => DOMAIN copy["saver"] = Tables

\* Nothing was marked since the thread last woke up.
Quiet == up /\ ~dirty

Current ==
  /\ Quiet /\ pc["saver"] = "idle" => \A t \in Tables : Loaded(file["db"])[t] >= marked[t]
  /\ Quiet /\ pc["saver"] # "idle" =>
       \A t \in DOMAIN copy["saver"] : copy["saver"][t] >= marked[t]

IInv == Control /\ Maps /\ Current

\* No write has happened and no file exists.
LEMMA InitIInv == Init => IInv
<1> SUFFICES ASSUME Init PROVE IInv
  OBVIOUS
<1> USE DEF Init, Threads, Paths, Empty, Absent, Torn
<1>1. Control
  BY DEF Control
<1>2. Maps
  BY DEF Maps, Loaded
<1>3. Current
  BY DEF Current, Loaded
<1> QED BY <1>1, <1>2, <1>3 DEF IInv

\* One step per action; Calls and Faults rule out the three that break it.
LEMMA NextIInv ==
  ASSUME SaverOnly, IInv, [Next]_vars
  PROVE  IInv'
<1> USE DEF IInv, Control, Maps, Current, Quiet, Threads, Paths
<1>1. ASSUME NEW t \in Tables, Write(t)
      PROVE  IInv'
  BY <1>1 DEF Write, Put, ClientReady
<1>2. CASE Mark
  BY <1>2 DEF Mark
<1>3. ASSUME NEW t \in Tables, FailedWrite(t) \/ QueryWrite(t)
      PROVE  IInv'
  BY <1>3 DEF FailedWrite, QueryWrite, Put, ClientReady
<1>4. CASE Read \/ Begin \/ Commit
  BY <1>4 DEF Read, Begin, Commit, ClientReady
<1>5. CASE Rollback
  <2>1. /\ mem' \in [Tables -> Nat] /\ writes' \in Nat /\ writes <= writes'
        /\ \A t \in Tables : mem[t] <= mem'[t] /\ mem'[t] <= writes'
    BY <1>5 DEF Rollback
  <2>2. UNCHANGED <<dirty, marked, file, pc, copy, dest, up>>
    BY <1>5 DEF Rollback
  <2>3. Control' /\ Current'
    BY <2>2
  <2>4. Maps'
    BY <2>1, <2>2
  <2> QED BY <2>3, <2>4
<1>6. ASSUME NEW path \in Paths
      PROVE  ~ SaveTo(path)
  BY DEF SaveTo, ClientReady, SaverOnly
<1>7. ~ ClearDirty
  BY DEF ClearDirty
<1>8. CASE WakeUp
  BY <1>8 DEF WakeUp, StartSave
<1>9. ASSUME NEW p \in Threads, NEW t \in Tables, CopyTable(p, t)
      PROVE  IInv'
  <2>1. p = "saver" /\ pc["saver"] = "copy" /\ up
    BY <1>9 DEF CopyTable
  <2> DEFINE c == copy["saver"]
             d == [x \in DOMAIN c \cup {t} |-> IF x = t THEN mem[t] ELSE c[x]]
  <2>2. copy' = [copy EXCEPT !["saver"] = d]
    BY <1>9, <2>1 DEF CopyTable
  <2>3. copy'["saver"] = d /\ DOMAIN copy' = Threads
    <3> HIDE DEF d
    <3> QED BY <2>2
  <2>4. /\ UNCHANGED <<mem, writes, dirty, marked, file, dest, up>>
        /\ pc' = IF DOMAIN d = Tables THEN [pc EXCEPT !["saver"] = "create"] ELSE pc
    <3> HIDE DEF d
    <3> QED BY <1>9, <2>1, <2>3 DEF CopyTable
  <2>5. Control'
    <3> HIDE DEF d
    <3> QED BY <2>1, <2>3, <2>4
  <2>6. /\ DOMAIN d \subseteq Tables /\ d = [x \in DOMAIN d |-> d[x]]
        /\ \A x \in DOMAIN d : d[x] \in Nat /\ d[x] <= writes
        /\ Quiet => \A x \in DOMAIN d : d[x] >= marked[x]
    BY <2>1
  <2>7. Maps'
    <3> HIDE DEF d
    <3> QED BY <2>1, <2>3, <2>4, <2>6
  <2>8. Current'
    <3> HIDE DEF d
    <3> QED BY <2>1, <2>3, <2>4, <2>6
  <2> QED BY <2>5, <2>7, <2>8
<1>10. ASSUME NEW p \in Threads, CreateFile(p)
       PROVE  IInv'
  BY <1>10 DEF CreateFile, Torn, Loaded, Empty
<1>11. ASSUME NEW p \in Threads, WriteFile(p)
       PROVE  IInv'
  <2>1. p = "saver" /\ pc["saver"] = "write" /\ up /\ file["db"] = Torn
    BY <1>11 DEF WriteFile
  <2> DEFINE c == copy["saver"]
  <2>2. c \in [Tables -> Nat]
    BY <2>1
  <2>3. /\ file' = [file EXCEPT !["db"] = Image(c)]
        /\ pc' = [pc EXCEPT !["saver"] = "idle"]
        /\ UNCHANGED <<mem, writes, dirty, marked, copy, dest, up>>
    <3>1. dest["saver"] = "db" /\ file["db"].kind # "image"
      BY <2>1 DEF Torn
    <3>2. PICK f \in {Image(copy["saver"])} : file' = [file EXCEPT !["db"] = f]
      <4> USE <3>1, <2>1
      <4>1. file[dest[p]].kind # "image"
        OBVIOUS
      <4> HIDE DEF Control, Maps, Current, IInv, Torn
      <4> QED BY <1>11, <4>1 DEF WriteFile
    <3> QED BY <1>11, <2>1, <3>2 DEF WriteFile
  <2>4. file'["db"] = Image(c) /\ Loaded(file'["db"]) = c
    BY <2>3 DEF Image, Loaded
  <2>5. Image(c) \in [kind : {"image"}, contents : [Tables -> Nat]]
    BY <2>2 DEF Image
  <2>6. Control'
    <3> HIDE DEF c
    <3> QED BY <2>1, <2>3, <2>5
  <2>7. Maps'
    BY <2>1, <2>2, <2>3, <2>4
  <2>8. ASSUME Quiet'
        PROVE  \A t \in Tables : Loaded(file'["db"])[t] >= marked'[t]
    BY <2>1, <2>2, <2>3, <2>4, <2>8
  <2>9. Current'
    BY <2>1, <2>3, <2>8
  <2> QED BY <2>6, <2>7, <2>9
<1>12. ASSUME NEW p \in Threads
       PROVE  ~ SaveError(p)
  BY DEF SaveError, SaverOnly
<1>13. CASE Crash
  BY <1>13 DEF Crash
<1>14. CASE Restart
  BY <1>14 DEF Restart, Loaded, Empty
<1>15. CASE UNCHANGED vars
  BY <1>15 DEF vars, Loaded
<1> QED
  BY <1>1, <1>2, <1>3, <1>4, <1>5, <1>6, <1>7, <1>8, <1>9, <1>10, <1>11,
     <1>12, <1>13, <1>14, <1>15 DEF Next, SaveStep

\* While the thread sleeps and the flag is down, the database file holds what
\* is_dirty was stored for (Database::new, save_if_needed, run and runBatch),
\* whatever the calls that store no flag and the crashes do in between.
THEOREM AutosaveMissesNothing ==
  ASSUME SaverOnly
  PROVE  Spec => []UnsavedIsFlagged
<1>1. IInv /\ [Next]_vars => IInv'
  BY NextIInv
<1>2. IInv => UnsavedIsFlagged
  BY DEF IInv, Control, Current, Quiet, UnsavedIsFlagged, Threads
<1> QED BY InitIInv, <1>1, <1>2, PTL DEF Spec

-----------------------------------------------------------------------------
(* Exports *)

\* The states of any client's process, with any faults.
AnyControl ==
  /\ pc \in [Threads -> {"idle", "mark", "clear", "copy", "create", "write"}]
  /\ pc["saver"] # "clear"
  /\ dest \in [Threads -> Paths] /\ dest["saver"] = "db"
  /\ DOMAIN copy = Threads

\* What every thread has cloned, stored and remembered are tables.
AnyMaps ==
  /\ mem \in [Tables -> Nat] /\ writes \in Nat
  /\ tx \in [Tables -> Nat] \cup {None}
  /\ file \in [Paths -> [kind : {"absent", "torn"}]
                          \cup [kind : {"image"}, contents : [Tables -> Nat]]]
  /\ \A p \in Threads :
       /\ Saving(p) => copy[p] \in [DOMAIN copy[p] -> Nat] /\ DOMAIN copy[p] \subseteq Tables
       /\ pc[p] \in {"create", "write"} => DOMAIN copy[p] = Tables

\* The client's own save has cloned the tables as they still are, and nobody
\* else writes the file it writes.
Exporting ==
  /\ up /\ Saving("client") => \A t \in DOMAIN copy["client"] : copy["client"][t] = mem[t]
  /\ pc["client"] = "write" /\ dest["client"] = "export" => file["export"] = Torn

ExportInv == AnyControl /\ AnyMaps /\ Exporting /\ ExportExact

\* No export has been made of a new database.
LEMMA InitExport == Init => ExportInv
<1> SUFFICES ASSUME Init PROVE ExportInv
  OBVIOUS
<1> USE DEF Init, Threads, Paths, Empty, Absent, Torn
<1>1. AnyControl
  BY DEF AnyControl
<1>2. AnyMaps
  BY DEF AnyMaps, Saving
<1>3. Exporting /\ ExportExact
  BY DEF Exporting, ExportExact, Saving
<1> QED BY <1>1, <1>2, <1>3 DEF ExportInv

\* Nothing happens to the tables while the client saves.
LEMMA NextExport ==
  ASSUME ExportInv, [Next]_vars
  PROVE  ExportInv'
<1> USE DEF ExportInv, AnyControl, AnyMaps, Exporting, ExportExact, Saving, Threads, Paths
<1>1. ASSUME NEW t \in Tables, Write(t) \/ FailedWrite(t) \/ QueryWrite(t)
      PROVE  ExportInv'
  BY <1>1 DEF Write, FailedWrite, QueryWrite, Put, ClientReady
<1>2. CASE Mark \/ Read \/ Begin \/ Commit
  BY <1>2 DEF Mark, Read, Begin, Commit, ClientReady
<1>3. CASE Rollback
  BY <1>3 DEF Rollback, ClientReady
<1>4. ASSUME NEW path \in Paths, SaveTo(path)
      PROVE  ExportInv'
  BY <1>4 DEF SaveTo, StartSave, ClientReady
<1>5. CASE ClearDirty
  BY <1>5 DEF ClearDirty
<1>6. CASE WakeUp
  BY <1>6 DEF WakeUp, StartSave
<1>7. ASSUME NEW p \in Threads, CreateFile(p)
      PROVE  ExportInv'
  BY <1>7 DEF CreateFile, Torn
<1>8. ASSUME NEW p \in Threads, WriteFile(p)
      PROVE  ExportInv'
  BY <1>8 DEF WriteFile, Torn, Image
<1>9. ASSUME NEW p \in Threads, NEW t \in Tables, CopyTable(p, t)
      PROVE  ExportInv'
  BY <1>9 DEF CopyTable
<1>10. ASSUME NEW p \in Threads, SaveError(p)
       PROVE  ExportInv'
  BY <1>10 DEF SaveError
<1>11. CASE Crash
  BY <1>11 DEF Crash
<1>12. CASE Restart
  BY <1>12 DEF Restart, Loaded, Empty
<1>13. CASE UNCHANGED vars
  BY <1>13 DEF vars
<1> QED
  BY <1>1, <1>2, <1>3, <1>4, <1>5, <1>6, <1>7, <1>8, <1>9, <1>10, <1>11, <1>12, <1>13
     DEF Next, SaveStep

\* A save to another path that has written its file has written the tables,
\* whatever the client calls, the autosave thread does and the faults are.
THEOREM ExportsAreExact == Spec => []ExportExact
<1>1. ExportInv /\ [Next]_vars => ExportInv'
  BY NextExport
<1>2. ExportInv => ExportExact
  BY DEF ExportInv
<1> QED BY InitExport, <1>1, <1>2, PTL DEF Spec

-----------------------------------------------------------------------------
(* Images of the database file *)

\* What is cloned is at least as new as the last image and at most as new as
\* the tables; the file is that image but while it is written.
Aging ==
  /\ good \in [Tables -> Nat]
  /\ \A t \in Tables : good[t] <= mem[t] /\ mem[t] <= writes
  /\ pc["saver"] # "idle" =>
       \A t \in DOMAIN copy["saver"] : good[t] <= copy["saver"][t] /\ copy["saver"][t] <= mem[t]
  /\ pc["saver"] # "write" => Loaded(file["db"]) = good
  /\ pc["saver"] = "write" => up

AgingInv == IInv /\ Aging

\* Every step of such a client keeps AgingInv and lets no table of the image grow older.
LEMMA NextAging ==
  ASSUME SaverOnly, "crash_in_save" \notin Faults, AgingInv, [Next]_vars
  PROVE  AgingInv' /\ \A t \in Tables : good[t] <= good'[t]
<1>0. IInv'
  BY NextIInv DEF AgingInv
<1> DEFINE Goal == Aging' /\ \A t \in Tables : good[t] <= good'[t]
<1> SUFFICES Goal
  BY <1>0 DEF AgingInv
<1> USE DEF AgingInv, Aging, IInv, Control, Maps, Threads, Paths
<1>1. ASSUME NEW t \in Tables, Write(t)
      PROVE  Goal
  BY <1>1 DEF Write, Put, ClientReady
<1>2. ASSUME NEW t \in Tables, FailedWrite(t) \/ QueryWrite(t)
      PROVE  Goal
  BY <1>2 DEF FailedWrite, QueryWrite, Put, ClientReady
<1>3. CASE Mark \/ Read \/ Begin \/ Commit
  BY <1>3 DEF Mark, Read, Begin, Commit, ClientReady
<1>4. CASE Rollback
  <2>1. /\ mem' \in [Tables -> Nat] /\ writes' \in Nat
        /\ \A t \in Tables : mem[t] <= mem'[t] /\ mem'[t] <= writes'
    BY <1>4 DEF Rollback
  <2>2. UNCHANGED <<file, pc, copy, up, good>>
    BY <1>4 DEF Rollback
  <2> QED BY <2>1, <2>2
<1>5. ASSUME NEW path \in Paths
      PROVE  ~ SaveTo(path)
  BY DEF SaveTo, ClientReady, SaverOnly
<1>6. ~ ClearDirty
  BY DEF ClearDirty
<1>7. CASE WakeUp
  BY <1>7 DEF WakeUp, StartSave
<1>8. ASSUME NEW p \in Threads, CreateFile(p)
      PROVE  Goal
  BY <1>8 DEF CreateFile, Torn
<1>9. ASSUME NEW p \in Threads, WriteFile(p)
      PROVE  Goal
  BY <1>9 DEF WriteFile, Torn, Image, Loaded
<1>10. ASSUME NEW p \in Threads, NEW t \in Tables, CopyTable(p, t)
       PROVE  Goal
  BY <1>10 DEF CopyTable
<1>11. ASSUME NEW p \in Threads
       PROVE  ~ SaveError(p)
  BY DEF SaveError, SaverOnly
<1>12. CASE Crash
  BY <1>12 DEF Crash
<1>13. CASE Restart
  <2>1. mem' = good /\ good' = good /\ writes' = writes /\ file' = file /\ pc'["saver"] = "idle"
    BY <1>13 DEF Restart
  <2>2. \A t \in Tables : good[t] \in Nat /\ good[t] <= writes
    OBVIOUS
  <2> QED BY <2>1, <2>2, <1>13 DEF Restart
<1>14. CASE UNCHANGED vars
  BY <1>14 DEF vars, Loaded
<1> QED
  BY <1>1, <1>2, <1>3, <1>4, <1>5, <1>6, <1>7, <1>8, <1>9, <1>10, <1>11, <1>12, <1>13, <1>14
     DEF Next, SaveStep

\* The autosave thread never replaces an image by one that is older for some
\* table, unless a crash cuts the writing of the file.
THEOREM ImagesNeverGoBack ==
  ASSUME SaverOnly, "crash_in_save" \notin Faults
  PROVE  Spec => NeverBackwards
<1>1. Init => AgingInv
  BY InitIInv DEF AgingInv, Aging, Init, Loaded, Empty, Absent, Threads, Paths
<1>2. AgingInv /\ [Next]_vars => AgingInv' /\ [\A t \in Tables : good[t] <= good'[t]]_vars
  BY NextAging
<1> QED BY <1>1, <1>2, PTL DEF Spec, NeverBackwards

=============================================================================
