--------------------------- MODULE SqlStatements ---------------------------
(***************************************************************************)
(* INSERT, UPDATE and DELETE of the SQL executor                           *)
(* (extensions/sql/src/executor.rs), made by one client on the table of    *)
(* module Queries.                                                         *)
(*                                                                         *)
(* A statement collects the rows its WHERE clause finds, lets go of the    *)
(* table, and then changes them with one call each: every one of these     *)
(* calls moves rows or rewrites indexes under the ones that follow.        *)
(***************************************************************************)
EXTENDS Queries

CONSTANTS
  Clauses,      \* the WHERE clauses
  NoClause,     \* a statement without WHERE
  Assignments,  \* what UPDATE sets: functions from some columns to values
  MaxUpdates    \* bound: the updates of a row

\* A set of positions, in the order of the rows.
Ascending(S) == CHOOSE s \in SetToSeqs(S) : \A i, j \in DOMAIN s : i < j => s[i] < s[j]

\* The positions of the collected rows.
Collected(clause) == Ascending(IF clause = NoClause THEN Positions(table) ELSE Where(clause))

\* populate_id_map_once has run.
Populated == ~table.sequential

\* The pool after the strings of some rows, one row after the other.
InternRows(strings, rows) ==
  LET after[k \in 0 .. Len(rows)] ==
        IF k = 0 THEN strings ELSE Interning(after[k - 1], rows[k])
  IN  after[Len(rows)]

\* INSERT of one row is insert_row, of several insert_batch_values.
SqlInsert(rows) ==
  /\ table.nextId + Len(rows) <= AutoLimit
  /\ pool' = InternRows(pool, rows)
  /\ table' = InsertBatchValues(table, [i \in DOMAIN rows |-> InternRow(pool', rows[i])])

\* Mutant: the positions are kept instead of the ids.
DeletePositions(positions) ==
  LET left[k \in 0 .. Len(positions)] ==
        IF k = 0 THEN table
        ELSE IF positions[k] <= Len(left[k - 1].ids)
             THEN Delete(left[k - 1], left[k - 1].ids[positions[k]]) ELSE left[k - 1]
  IN  left[Len(positions)]

\* delete_row for the id of each collected row.
DeleteRows(positions) ==
  LET left[k \in 0 .. Len(positions)] ==
        IF k = 0 THEN table ELSE Delete(left[k - 1], table.ids[positions[k]])
  IN  left[Len(positions)]

SqlDelete(clause) ==
  /\ Populated
  /\ table' = DeleteRows(Collected(clause))
  /\ UNCHANGED pool

\* The row UPDATE writes in place of the one at p, strings being strings.
Assigned(p, assignment) ==
  [c \in Cols |-> IF c \in DOMAIN assignment THEN assignment[c]
                  ELSE Resolved(table.data[p][c])]

\* update_row for each collected row, with the cells it had when collected.
UpdateRows(strings, positions, assignment) ==
  LET after[k \in 0 .. Len(positions)] ==
        IF k = 0 THEN table
        ELSE Update(after[k - 1], table.ids[positions[k]],
                    InternRow(strings, Assigned(positions[k], assignment)))
  IN  after[Len(positions)]

SqlUpdate(clause, assignment) ==
  LET positions == Collected(clause)
  IN  /\ Populated
      /\ \A i \in DOMAIN positions : table.versions[positions[i]] <= MaxUpdates
      /\ pool' = IF positions = <<>> THEN pool
                 ELSE Interning(pool, Assigned(positions[1], assignment))
      /\ table' = UpdateRows(pool', positions, assignment)

SqlNext ==
  \/ \E rows \in [1 .. 1 -> Rows] \cup [1 .. 2 -> Rows] : SqlInsert(rows)
  \/ \E clause \in Clauses \cup {NoClause} : SqlDelete(clause)
  \/ \E clause \in Clauses \cup {NoClause}, assignment \in Assignments :
       SqlUpdate(clause, assignment)

SqlSpec == Init /\ [][Next \/ SqlNext]_vars

-----------------------------------------------------------------------------
(* What a statement promises *)

\* UPDATE checks types as INSERT does.
ASSUME ClausesAssumption ==
  /\ Clauses \subseteq Conditions /\ NoClause \notin Conditions
  /\ \A a \in Assignments : \A c \in DOMAIN a :
       a[c] \in Written /\ (c \notin StringCols => a[c].type # "string")

Ids(positions) == {table.ids[p] : p \in positions}
Taken(clause) == IF clause = NoClause THEN Positions(table) ELSE Meaning(clause)

\* The row with an id, its cells resolved.
RowOf(id) ==
  LET p == CHOOSE q \in Positions(table) : table.ids[q] = id
  IN  [c \in Cols |-> Resolved(table.data[p][c])]
IdsNow == Ids(Positions(table))

\* DELETE removes the rows its condition holds for and no other, and leaves
\* the others as they were, though each row it deletes moves another.
DeleteExact ==
  [][\A clause \in Clauses \cup {NoClause} :
       SqlDelete(clause) =>
         /\ IdsNow' = IdsNow \ Ids(Taken(clause))
         /\ \A id \in IdsNow' : RowOf(id)' = RowOf(id)]_vars

\* UPDATE assigns to the rows its condition holds for and to no other, also
\* when the assignment changes what the condition looks at.
UpdateExact ==
  [][\A clause \in Clauses \cup {NoClause}, assignment \in Assignments :
       SqlUpdate(clause, assignment) =>
         /\ IdsNow' = IdsNow
         /\ \A p \in Positions(table) :
              RowOf(table.ids[p])' =
                IF p \in Taken(clause) THEN Assigned(p, assignment) ELSE RowOf(table.ids[p])]_vars

\* Statements change what their conditions say, whatever rows move under them.
StatementsExact == DeleteExact /\ UpdateExact

=============================================================================
