----------------------------- MODULE Relations -----------------------------
(***************************************************************************)
(* What the SQL statements promise, without positions, flat vectors and    *)
(* id maps: a database is a set of named relations, a relation a set of    *)
(* rows under ids that are given away once.                                *)
(*                                                                         *)
(* A call that is refused changes nothing.  UPDATE is the exception: when  *)
(* it is refused, some of the rows its condition holds for have changed.   *)
(***************************************************************************)
EXTENDS Naturals, Sequences, FiniteSets

CONSTANTS
  Names,     \* the names of tables
  Null,      \* the cell without a value
  NoClause   \* a statement without WHERE

VARIABLES
  relations,  \* the relation under each name, Missing when there is none
  saved,      \* what the transaction remembers, NoSnapshot without one
  call        \* the last call with its arguments and its answer

Missing == [exists |-> FALSE]
NoSnapshot == [taken |-> FALSE]
Relation(columns, rows, next) ==
  [exists |-> TRUE, columns |-> columns, rows |-> rows, next |-> next]

Exists(n) == relations[n].exists
Becomes(n, relation) == relations' = [relations EXCEPT ![n] = relation]

-----------------------------------------------------------------------------
(* Relations and their changes *)

\* The row with the cells of cells, and of old where cells has none.
Over(old, cells) ==
  [c \in DOMAIN old |-> IF c \in DOMAIN cells THEN cells[c] ELSE old[c]]

Blank(r) == [c \in r.columns |-> Null]

Holds(r, id, clause) ==
  \/ clause = NoClause
  \/ clause.column = "id" /\ "id" \notin r.columns /\ clause.value = id
  \/ clause.column \in r.columns /\ r.rows[id][clause.column] = clause.value

Matching(r, clause) == {id \in DOMAIN r.rows : Holds(r, id, clause)}

Extended(r, rows) ==
  LET fresh == r.next .. r.next + Len(rows) - 1
  IN  Relation(r.columns,
               [id \in DOMAIN r.rows \cup fresh |->
                  IF id \in fresh THEN Over(Blank(r), rows[id - r.next + 1])
                                  ELSE r.rows[id]],
               r.next + Len(rows))

Assigned(r, ids, cells) ==
  [r EXCEPT !.rows = [id \in DOMAIN @ |-> IF id \in ids THEN Over(@[id], cells) ELSE @[id]]]

\* One row after the other is assigned to, the later ones over the earlier.
AssignedEach(r, changes) ==
  LET done[k \in 0 .. Len(changes)] ==
        IF k = 0 THEN r ELSE Assigned(done[k - 1], {changes[k].id}, changes[k].cells)
  IN  done[Len(changes)]

Without(r, ids) ==
  [r EXCEPT !.rows = [id \in DOMAIN @ \ ids |-> @[id]]]

-----------------------------------------------------------------------------
(* The calls *)

Init ==
  /\ relations = [n \in Names |-> Missing]
  /\ saved = NoSnapshot
  /\ call = [op |-> "none", answer |-> "ok"]

\* A call asks(op), and is answered with answer.
Asks(op) == call'.op = op
Answered(answer) == call'.answer = answer

Refused == Answered("error") /\ UNCHANGED <<relations, saved>>

\* A table of the name, if there was one, is replaced.
Create ==
  /\ Asks("create") /\ Answered("ok")
  /\ Becomes(call'.table, Relation(call'.columns, <<>>, 0))
  /\ UNCHANGED saved

Drop ==
  /\ Asks("drop") /\ Answered("ok") /\ Exists(call'.table)
  /\ Becomes(call'.table, Missing)
  /\ UNCHANGED saved

\* A column of that name is emptied if there is one.
AddColumn ==
  /\ Asks("alter") /\ Answered("ok") /\ Exists(call'.table)
  /\ LET r == relations[call'.table]
         columns == r.columns \cup {call'.column}
     IN  Becomes(call'.table,
           Relation(columns,
                    [id \in DOMAIN r.rows |-> Over([c \in columns |-> Null],
                       [c \in r.columns \ {call'.column} |-> r.rows[id][c]])],
                    r.next))
  /\ UNCHANGED saved

Insert ==
  /\ Asks("insert") \/ Asks("insert many")
  /\ Answered("ok") /\ Exists(call'.table)
  /\ Becomes(call'.table, Extended(relations[call'.table], call'.rows))
  /\ UNCHANGED saved

Update ==
  /\ Asks("update") /\ Exists(call'.table)
  /\ LET r == relations[call'.table]
     IN  \E ids \in SUBSET Matching(r, call'.clause) :
           /\ Answered("ok") => ids = Matching(r, call'.clause)
           /\ Becomes(call'.table, Assigned(r, ids, call'.cells))
  /\ UNCHANGED saved

Delete ==
  /\ Asks("delete") /\ Answered("ok") /\ Exists(call'.table)
  /\ LET r == relations[call'.table]
     IN  Becomes(call'.table, Without(r, Matching(r, call'.clause)))
  /\ UNCHANGED saved

Select ==
  /\ Asks("select") /\ Answered("ok") /\ Exists(call'.table)
  /\ LET r == relations[call'.table]
     IN  call'.found = {[id |-> id, row |-> r.rows[id]] : id \in Matching(r, call'.clause)}
  /\ UNCHANGED <<relations, saved>>

\* The ids are those the relation gave, where a column id hides them too.
UpdateEach ==
  /\ Asks("update each") /\ Answered("ok") /\ Exists(call'.table)
  /\ Becomes(call'.table, AssignedEach(relations[call'.table], call'.changes))
  /\ UNCHANGED saved

Begin ==
  /\ Asks("begin") /\ Answered("ok")
  /\ saved' = [taken |-> TRUE, relations |-> relations]
  /\ UNCHANGED relations

\* Committing gives nothing up.
Commit == Asks("commit") /\ Answered("ok") /\ UNCHANGED <<relations, saved>>

\* The tables of the snapshot come back as they were, the others stay.
Rollback ==
  /\ Asks("rollback") /\ Answered("ok") /\ saved.taken
  /\ relations' = [n \in Names |-> IF saved.relations[n].exists THEN saved.relations[n]
                                                               ELSE relations[n]]
  /\ UNCHANGED saved

Next ==
  \/ Refused
  \/ Create \/ Drop \/ AddColumn
  \/ Insert \/ Update \/ Delete \/ Select \/ UpdateEach
  \/ Begin \/ Commit \/ Rollback

Spec == Init /\ [][Next]_<<relations, saved, call>>

=============================================================================
