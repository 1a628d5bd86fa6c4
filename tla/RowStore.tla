------------------------------ MODULE RowStore ------------------------------
(***************************************************************************)
(* What a table promises its callers, without positions, maps or indexes:  *)
(* a row is found under the id it was inserted with, until that id is      *)
(* deleted, and no operation on one row is visible in another.  Nothing is *)
(* promised of integer ids that callers choose: the table may give them to *)
(* other rows, so they are not in Id.                                      *)
(***************************************************************************)
EXTENDS Naturals, Sequences

CONSTANTS
  Cols, Values, AutoLimit,
  Id       \* the ids of which the promise is made

VARIABLES
  rows,   \* the entry under each id, Absent when there is none
  next    \* every automatic id below this one has been given away

Absent == [live |-> FALSE]
Entry(row, version) == [live |-> TRUE, row |-> row, version |-> version]

Row == [Cols -> Values]
Live(id) == rows[id] # Absent

Init == rows = [id \in Id |-> Absent] /\ next = 0

\* New rows get the next automatic ids, in order; none of them is in use.
Add(new) ==
  LET k == Len(new)
      ids == Id \cap (next .. next + k - 1)
  IN  /\ next' = next + k
      /\ next + k <= AutoLimit
      /\ \A id \in ids : ~Live(id)
      /\ rows' = [id \in Id |-> IF id \in ids THEN Entry(new[id - next + 1], 1)
                                              ELSE rows[id]]

\* A row is added under an id of the caller's that no row has.
AddAs(id, row) ==
  /\ UNCHANGED next
  /\ ~Live(id)
  /\ rows' = [rows EXCEPT ![id] = Entry(row, 1)]

\* A row is replaced and its version counts the replacement.
Replace(id, row) ==
  /\ UNCHANGED next
  /\ Live(id)
  /\ rows' = [rows EXCEPT ![id] = Entry(row, @.version + 1)]

\* One cell is written without a new version.
Poke(id, c, v) ==
  /\ UNCHANGED next
  /\ Live(id)
  /\ rows' = [rows EXCEPT ![id].row[c] = v]

Remove(id) ==
  /\ UNCHANGED next
  /\ Live(id)
  /\ rows' = [rows EXCEPT ![id] = Absent]

\* Batches are bounded for the model checker by the automatic ids left.
Batches == UNION {[1 .. k -> Row] : k \in 1 .. AutoLimit - next}

Next ==
  \/ \E new \in Batches : Add(new)
  \/ \E id \in Id :
       \/ \E row \in Row : AddAs(id, row) \/ Replace(id, row)
       \/ \E c \in Cols, v \in Values : Poke(id, c, v)
       \/ Remove(id)

Spec == Init /\ [][Next]_<<rows, next>>

=============================================================================
