------------------------------- MODULE Upsert -------------------------------
(***************************************************************************)
(* insert_or_replace of core/database.rs, made by several threads on one   *)
(* table while clients delete rows.                                        *)
(*                                                                         *)
(* The call looks for a row with its key under a read lock, gives the lock *)
(* up, and then updates the row it saw or inserts a new one under a write  *)
(* lock: what it saw may be out of date by then.  Module Writers puts the  *)
(* steps together with the statements and the cursors of other clients.    *)
(***************************************************************************)
EXTENDS TableOps

CONSTANTS
  Threads,
  Key,          \* the column of the key
  Kinds,        \* the indexes the key may have
  DeleteKinds,  \* those with which clients delete rows
  MaxRows,      \* bound: rows in the table
  MaxVersion    \* bound: the version of a row

ASSUME ThreadsAssumption == IsFiniteSet(Threads)
ASSUME KeyAssumption == Key \in Cols
ASSUME KindsAssumption == Kinds \subseteq {"none", "plain", "unique"}
\* A unique index is wrong after a delete: see FindByColumnCorrect in Table.
ASSUME DeleteKindsAssumption == DeleteKinds \subseteq Kinds \ {"unique"}

VARIABLES
  table,
  saw    \* what each thread has found: the ids of the first row with its
         \* key, none when there is no such row; NotCalling between calls

vars == <<table, saw>>

NotCalling == [calling |-> FALSE]
Seen(row, ids) == [calling |-> TRUE, row |-> row, ids |-> ids]
Calling(th) == saw[th].calling

Init ==
  /\ \E kind \in Kinds :
       table = IF kind = "none" THEN EmptyTable ELSE CreateIndex(EmptyTable, Key, kind)
  /\ saw = [th \in Threads |-> NotCalling]

\* The positions find_by_column may list first.  A scan lists rows by
\* position; the order of a posting list is left out of the model.
FirstHits(t, v) ==
  IF t.indexes[Key].kind # "none" THEN Lookup(t, Key, v)
  ELSE {p \in Scan(t, Key, v) : \A q \in Scan(t, Key, v) : p <= q}

\* The first half of the call: find.
Look(th, row) ==
  /\ ~Calling(th)
  /\ LET hits == FirstHits(table, row[Key])
         ids  == IF hits = {} THEN {{}} ELSE {{table.ids[p]} : p \in hits}
     IN  \E found \in ids : saw' = [saw EXCEPT ![th] = Seen(row, found)]
  /\ UNCHANGED table

Return(th) == saw' = [saw EXCEPT ![th] = NotCalling]

\* Mutant: the id is taken for a position.
ReplaceAtPosition(th) ==
  /\ Calling(th)
  /\ \E id \in saw[th].ids :
       /\ id < Len(table.ids)
       /\ table.versions[id + 1] < MaxVersion
       /\ table' = WriteRow(table, id + 1, table.ids[id + 1], saw[th].row)
  /\ Return(th)

\* The second half: update_values, an error when the row has gone.
Replace(th) ==
  /\ Calling(th)
  /\ \E id \in saw[th].ids :
       /\ GetIndex(table, id) # 0 => table.versions[GetIndex(table, id)] < MaxVersion
       /\ table' = UpdateValues(table, id, saw[th].row)
  /\ Return(th)

\* The second half: insert_values.
InsertNew(th) ==
  /\ Calling(th) /\ saw[th].ids = {}
  /\ Len(table.ids) < MaxRows /\ table.nextId < AutoLimit
  /\ table' = Insert(table, saw[th].row)
  /\ Return(th)

ClientDelete(id) ==
  /\ table.indexes[Key].kind \in DeleteKinds
  /\ table' = Delete(table, id)
  /\ UNCHANGED saw

-----------------------------------------------------------------------------
(* Properties *)

Holders(v) == Scan(table, Key, v)
Inserting(v) == {th \in Threads : Calling(th) /\ saw[th].ids = {} /\ saw[th].row[Key] = v}

\* The check and the insert are not one step, so a key may get several rows,
\* but never more than there are threads: a thread inserts only when it saw no
\* row, and until then the key has none.
DuplicatesBounded ==
  \A v \in Values :
    Cardinality(Holders(v)) + Cardinality(Inserting(v)) <= Cardinality(Threads)

\* insert_or_replace replaces the row with its key and no other, however late
\* it comes: nothing a thread does changes the key of a row.
KeysStay ==
  [][\A id \in Id :
       GetIndex(table, id) # 0 /\ GetIndex(table', id) # 0 =>
         table.data[GetIndex(table, id)][Key] = table'.data[GetIndex(table', id)][Key]]_vars

=============================================================================
