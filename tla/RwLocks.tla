------------------------------ MODULE RwLocks ------------------------------
(***************************************************************************)
(* Threads that take parking_lot read-write locks, which is what every     *)
(* call of core/database.rs does with the table map, the tables, the       *)
(* version log and the write-ahead log.                                    *)
(*                                                                         *)
(* A call is a sequence of steps: it locks for reading, locks for writing  *)
(* or drops the guard it took last.  Each step names the guards its thread *)
(* holds when it gets there, so where a thread is says what it holds.      *)
(*                                                                         *)
(* A parking_lot writer first sets the writer bit of the lock and then     *)
(* waits for the readers to leave; a set bit turns new readers away, also  *)
(* a thread that reads the lock already.                                   *)
(***************************************************************************)
EXTENDS Naturals, Sequences

CONSTANTS
  Threads,
  Locks,
  Programs,  \* the calls, sequences of steps
  NoLock

ASSUME NoLockAssumption == NoLock \notin Locks

VARIABLES
  todo,     \* the steps each thread has still to do, none when it is idle
  claimed   \* the lock whose writer bit a thread set and has not entered

vars == <<todo, claimed>>

Guard(mode, l) == [mode |-> mode, lock |-> l]
Guards == [mode : {"read", "write"}, lock : Locks]
Steps  == [do : {"read", "write", "drop"}, lock : Locks, under : SUBSET Guards]

Busy(th) == todo[th] # <<>>
Holds(th, g) == Busy(th) /\ g \in Head(todo[th]).under

ReadLocked(l) == \E th \in Threads : Holds(th, Guard("read", l))
WriterBit(l) ==
  \E th \in Threads : claimed[th] = l \/ Holds(th, Guard("write", l))

Init ==
  /\ todo = [th \in Threads |-> <<>>]
  /\ claimed = [th \in Threads |-> NoLock]

Start(th) ==
  /\ ~Busy(th)
  /\ \E prog \in Programs : todo' = [todo EXCEPT ![th] = prog]
  /\ UNCHANGED claimed

At(th, do) == Busy(th) /\ Head(todo[th]).do = do /\ claimed[th] = NoLock

Advance(th) == todo' = [todo EXCEPT ![th] = Tail(@)]

CanRead(th)  == At(th, "read") /\ ~WriterBit(Head(todo[th]).lock)
CanClaim(th) == At(th, "write") /\ ~WriterBit(Head(todo[th]).lock)
CanEnter(th) == claimed[th] # NoLock /\ ~ReadLocked(claimed[th])
CanDrop(th)  == At(th, "drop")

\* RwLock::read
Read(th) == CanRead(th) /\ Advance(th) /\ UNCHANGED claimed

\* RwLock::write: the writer bit ...
Claim(th) ==
  /\ CanClaim(th)
  /\ claimed' = [claimed EXCEPT ![th] = Head(todo[th]).lock]
  /\ UNCHANGED todo

\* Mutant: the writer goes on and its bit stays set.
EnterKeepsBit(th) == CanEnter(th) /\ Advance(th) /\ UNCHANGED claimed

\* ... and, when the readers have left, the lock.
Enter(th) ==
  /\ CanEnter(th)
  /\ Advance(th)
  /\ claimed' = [claimed EXCEPT ![th] = NoLock]

\* A guard goes out of scope.
Drop(th) == CanDrop(th) /\ Advance(th) /\ UNCHANGED claimed

Continue(th) == Read(th) \/ Claim(th) \/ Enter(th) \/ Drop(th)

Next == \E th \in Threads : Start(th) \/ Continue(th)

\* parking_lot unlocks fairly from time to time, so nobody is overtaken for
\* ever; nothing says that a thread makes another call.
Fairness == \A th \in Threads : SF_vars(Continue(th))

Spec == Init /\ [][Next]_vars /\ Fairness

-----------------------------------------------------------------------------
(* Programs whose locks have an order *)

\* Each lock ranks above those its call holds when it takes it.
RespectsOrder(prog, rank) ==
  \A i \in DOMAIN prog :
    prog[i].do # "drop" => \A g \in prog[i].under : rank[g.lock] < rank[prog[i].lock]

\* What a step leaves held.
After(s) == IF s.do = "drop" THEN s.under \ {Guard("read", s.lock), Guard("write", s.lock)}
            ELSE s.under \cup {Guard(s.do, s.lock)}

\* Each step names the guards that the step before it leaves, and in the end
\* there are none.
WellScoped(prog) ==
  /\ prog # <<>> => After(prog[Len(prog)]) = {}
  /\ \A i \in 1 .. Len(prog) - 1 : prog[i + 1].under = After(prog[i])

-----------------------------------------------------------------------------
(* Properties *)

\* A thread whose writer bit is set stands at the write it is waiting for.
TypeOK ==
  /\ todo \in [Threads -> Seq(Steps)]
  /\ claimed \in [Threads -> Locks \cup {NoLock}]
  /\ \A th \in Threads : claimed[th] # NoLock =>
       Busy(th) /\ Head(todo[th]).do = "write" /\ Head(todo[th]).lock = claimed[th]

\* While a call is in progress some thread can go on: the calls never wait
\* for each other in a circle.
NoDeadlock ==
  (\E th \in Threads : Busy(th)) =>
    \E th \in Threads : CanRead(th) \/ CanClaim(th) \/ CanEnter(th) \/ CanDrop(th)

\* Every call that was made returns.
CallsReturn == \A th \in Threads : Busy(th) ~> ~Busy(th)

=============================================================================
