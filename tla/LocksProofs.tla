---------------------------- MODULE LocksProofs ----------------------------
(***************************************************************************)
(* Calls that take their locks in an order never wait for each other in a  *)
(* circle, whatever the threads, the locks and the calls: of the threads   *)
(* that are waiting, one that waits for the highest lock can only be kept  *)
(* by a thread that holds that lock, and such a thread is either dropping  *)
(* a guard or waiting for a lock that is higher still.                     *)
(*                                                                         *)
(* The calls of core/database.rs take their locks in an order, for any     *)
(* number of tables, threads and joins, and so never deadlock.  A call is  *)
(* put together from scopes, so what is proved of it is closed under what  *)
(* puts it together: a chain of steps goes from the guards that are held   *)
(* before it to those held after it, and takes every lock above the ones   *)
(* it holds.                                                               *)
(***************************************************************************)
EXTENDS DatabaseLocks, TLAPS, WellFoundedInduction, SequenceTheorems, FiniteSetTheorems

\* A call is a sequence of steps that never takes a lock ranked at or below
\* one it holds.
Ordered(prog, rank) == prog \in Seq(Steps) /\ RespectsOrder(prog, rank)

\* What a thread has still to do is the rest of an ordered call.
OrderedInv(rank) == \A th \in Threads : RespectsOrder(todo[th], rank)

Rank(rank, th) == rank[Head(todo[th]).lock]

\* The threads' steps are sequences of steps, and a claim is for the lock of
\* the step its thread is at.
THEOREM LocksTypeCorrect == ASSUME Programs \subseteq Seq(Steps)
                            PROVE  Spec => []TypeOK
<1>1. Init => TypeOK
  BY NoLockAssumption DEF Init, TypeOK, Busy
<1>2. ASSUME TypeOK, [Next]_vars  PROVE TypeOK'
  <2>1. CASE UNCHANGED vars
    BY <1>2, <2>1 DEF TypeOK, vars, Busy
  <2>2. ASSUME NEW th \in Threads, Start(th)  PROVE TypeOK'
    BY <1>2, <2>2 DEF TypeOK, Start, Busy
  <2>3. ASSUME NEW th \in Threads, Busy(th)
        PROVE  Tail(todo[th]) \in Seq(Steps)
    BY <1>2, <2>3, HeadTailProperties DEF TypeOK, Busy
  <2>4. ASSUME NEW th \in Threads, Read(th)  PROVE TypeOK'
    BY <1>2, <2>3, <2>4 DEF TypeOK, Read, CanRead, At, Advance, Busy
  <2>5. ASSUME NEW th \in Threads, Claim(th)  PROVE TypeOK'
    <3>1. Head(todo[th]) \in Steps
      BY <1>2, <2>5, HeadTailProperties DEF TypeOK, Claim, CanClaim, At, Busy
    <3>2. Head(todo[th]).lock \in Locks
      BY <3>1 DEF Steps
    <3> QED BY <1>2, <2>5, <3>2 DEF TypeOK, Claim, CanClaim, At, Busy
  <2>6. ASSUME NEW th \in Threads, Enter(th)  PROVE TypeOK'
    BY <1>2, <2>3, <2>6 DEF TypeOK, Enter, CanEnter, Advance, Busy
  <2>7. ASSUME NEW th \in Threads, Drop(th)  PROVE TypeOK'
    BY <1>2, <2>3, <2>7 DEF TypeOK, Drop, CanDrop, At, Advance, Busy
  <2> QED BY <1>2, <2>1, <2>2, <2>4, <2>5, <2>6, <2>7 DEF Next, Continue
<1> QED BY <1>1, <1>2, PTL DEF Spec

\* A set of bounded numbers has a largest one.
LEMMA GreatestElement ==
  ASSUME NEW M \in Nat, NEW S, S \subseteq 0 .. M, S # {}
  PROVE  \E x \in S : \A y \in S : y <= x
<1> DEFINE T == {M - s : s \in S}
<1>1. T \subseteq Nat /\ T # {}
  <2>1. \A s \in S : s \in Nat /\ M - s \in Nat
    OBVIOUS
  <2> QED BY <2>1
<1> HIDE DEF T
<1>2. PICK t \in T : \A u \in T : ~ (<<u, t>> \in OpToRel(<, Nat))
  BY <1>1, NatLessThanWellFounded, WFMin
<1>3. PICK s \in S : t = M - s
  BY DEF T
<1>4. ASSUME NEW y \in S  PROVE y <= s
  <2>1. M - y \in T /\ M - y \in Nat /\ M - s \in Nat
    BY DEF T
  <2>2. ~ (M - y < M - s)
    BY <1>2, <1>3, <2>1 DEF OpToRel
  <2> QED BY <2>2
<1> QED BY <1>4

\* The rest of an ordered sequence of steps is ordered.
LEMMA TailOrdered ==
  ASSUME NEW rank, NEW s \in Seq(Steps), s # <<>>, RespectsOrder(s, rank)
  PROVE  RespectsOrder(Tail(s), rank)
<1>1. /\ Tail(s) \in Seq(Steps)
      /\ \A i \in 1 .. Len(Tail(s)) : i + 1 \in 1 .. Len(s) /\ Tail(s)[i] = s[i + 1]
  BY HeadTailProperties
<1>2. DOMAIN Tail(s) = 1 .. Len(Tail(s)) /\ DOMAIN s = 1 .. Len(s)
  BY <1>1
<1> QED BY <1>1, <1>2 DEF RespectsOrder

\* No step leaves a thread in anything but the rest of an ordered call.
LEMMA OrderedNext ==
  ASSUME NEW rank, \A prog \in Programs : Ordered(prog, rank),
         TypeOK, OrderedInv(rank), [Next]_vars
  PROVE  OrderedInv(rank)'
<1>1. ASSUME NEW th \in Threads, Busy(th), Advance(th)
      PROVE  OrderedInv(rank)'
  <2>1. RespectsOrder(Tail(todo[th]), rank)
    BY <1>1, TailOrdered DEF TypeOK, OrderedInv, Busy
  <2> QED BY <1>1, <2>1 DEF TypeOK, OrderedInv, Advance
<1>2. ASSUME NEW th \in Threads, Start(th)  PROVE OrderedInv(rank)'
  BY <1>2 DEF TypeOK, OrderedInv, Start, Ordered
<1>3. ASSUME NEW th \in Threads, Continue(th)  PROVE OrderedInv(rank)'
  <2>1. CASE Claim(th)
    BY <2>1 DEF OrderedInv, Claim
  <2>2. CASE Enter(th)
    BY <1>1, <2>2 DEF TypeOK, Enter, CanEnter
  <2>3. CASE Read(th)
    BY <1>1, <2>3 DEF Read, CanRead, At
  <2>4. CASE Drop(th)
    BY <1>1, <2>4 DEF Drop, CanDrop, At
  <2> QED BY <1>3, <2>1, <2>2, <2>3, <2>4 DEF Continue
<1>4. CASE UNCHANGED vars
  BY <1>4 DEF OrderedInv, vars
<1> QED BY <1>2, <1>3, <1>4 DEF Next

\* Every thread is always in the rest of an ordered call.
LEMMA AlwaysOrdered ==
  ASSUME NEW rank, \A prog \in Programs : Ordered(prog, rank)
  PROVE  Spec => [](TypeOK /\ OrderedInv(rank))
<1>1. Programs \subseteq Seq(Steps)
  BY DEF Ordered
<1>2. Init => OrderedInv(rank)
  BY DEF Init, OrderedInv, RespectsOrder
<1>3. TypeOK /\ OrderedInv(rank) /\ [Next]_vars => OrderedInv(rank)'
  BY OrderedNext
<1>4. Spec => []TypeOK
  BY <1>1, LocksTypeCorrect
<1> QED BY <1>2, <1>3, <1>4, PTL DEF Spec

\* When no thread can go on, a thread that holds a guard of a lock is itself
\* at a lock of a higher rank.
LEMMA HolderWaitsHigher ==
  ASSUME NEW rank, TypeOK, OrderedInv(rank),
         NEW th \in Threads, NEW l \in Locks, NEW mode \in {"read", "write"},
         Holds(th, Guard(mode, l)), ~CanDrop(th)
  PROVE  Busy(th) /\ rank[l] < Rank(rank, th)
<1>1. /\ Busy(th) /\ Head(todo[th]) \in Steps /\ 1 \in DOMAIN todo[th]
      /\ Head(todo[th]) = todo[th][1] /\ Guard(mode, l) \in todo[th][1].under
  BY HeadTailProperties DEF TypeOK, Holds, Busy
<1>2. todo[th][1].do # "drop"
  BY <1>1 DEF CanDrop, At, TypeOK
<1>3. rank[Guard(mode, l).lock] < rank[todo[th][1].lock]
  BY <1>1, <1>2 DEF OrderedInv, RespectsOrder
<1> QED BY <1>1, <1>3 DEF Guard, Rank

\* When no thread can go on, whoever waits waits for a thread at a lock of a
\* higher rank.
LEMMA WaiterWaitsForHigher ==
  ASSUME NEW rank, TypeOK, OrderedInv(rank),
         \A th \in Threads : ~(CanRead(th) \/ CanClaim(th) \/ CanEnter(th) \/ CanDrop(th)),
         NEW th \in Threads, Busy(th)
  PROVE  \E other \in Threads : Busy(other) /\ Rank(rank, th) < Rank(rank, other)
<1> DEFINE l == Head(todo[th]).lock
<1>1. Head(todo[th]) \in Steps
  BY HeadTailProperties DEF TypeOK, Busy
<1>2. l \in Locks /\ Head(todo[th]).do \in {"read", "write", "drop"}
  BY <1>1 DEF Steps
<1>3. ASSUME ReadLocked(l)
      PROVE  \E other \in Threads : Busy(other) /\ rank[l] < Rank(rank, other)
  BY <1>2, <1>3, HolderWaitsHigher DEF ReadLocked
<1>4. ASSUME WriterBit(l)
      PROVE  \E other \in Threads : Busy(other) /\ rank[l] < Rank(rank, other)
  <2>1. PICK other \in Threads : claimed[other] = l \/ Holds(other, Guard("write", l))
    BY <1>4 DEF WriterBit
  <2>2. CASE claimed[other] = l
    <3>1. ReadLocked(l)
      BY <1>2, <2>2, NoLockAssumption DEF CanEnter
    <3> QED BY <1>3, <3>1
  <2>3. CASE Holds(other, Guard("write", l))
    BY <1>2, <2>3, HolderWaitsHigher
  <2> QED BY <2>1, <2>2, <2>3
<1>5. ReadLocked(l) \/ WriterBit(l)
  <2>1. CASE claimed[th] # NoLock
    BY <2>1 DEF TypeOK, CanEnter
  <2>2. CASE claimed[th] = NoLock
    BY <1>2, <2>2 DEF CanRead, CanClaim, CanDrop, At
  <2> QED BY <2>1, <2>2
<1> QED BY <1>3, <1>4, <1>5 DEF Rank

\* The calls never wait for each other in a circle: if every call takes its
\* locks in the order of some rank then, while a call is in progress, some
\* thread can go on.
THEOREM OrderedLocksNeverDeadlock ==
  ASSUME NEW M \in Nat, NEW rank \in [Locks -> 0 .. M],
         \A prog \in Programs : Ordered(prog, rank)
  PROVE  Spec => []NoDeadlock
<1>1. ASSUME TypeOK, OrderedInv(rank)  PROVE NoDeadlock
  <2> SUFFICES ASSUME NEW some \in Threads, Busy(some),
                      \A th \in Threads :
                        ~(CanRead(th) \/ CanClaim(th) \/ CanEnter(th) \/ CanDrop(th))
               PROVE  FALSE
    BY DEF NoDeadlock
  <2> DEFINE Waiting == {th \in Threads : Busy(th)}
             Ranks   == {Rank(rank, th) : th \in Waiting}
  <2>1. ASSUME NEW th \in Waiting  PROVE Rank(rank, th) \in 0 .. M
    <3>1. Head(todo[th]) \in Steps
      BY <1>1, HeadTailProperties DEF TypeOK, Busy
    <3>2. Head(todo[th]).lock \in Locks
      BY <3>1 DEF Steps
    <3> QED BY <3>2 DEF Rank
  <2>2. Ranks \subseteq 0 .. M /\ Ranks # {}
    BY <2>1
  <2>3. PICK r \in Ranks : \A q \in Ranks : q <= r
    BY <2>2, GreatestElement
  <2>4. PICK th \in Waiting : r = Rank(rank, th)
    OBVIOUS
  <2>5. PICK other \in Waiting : Rank(rank, th) < Rank(rank, other)
    BY <1>1, WaiterWaitsForHigher
  <2>6. Rank(rank, other) <= Rank(rank, th)
    BY <2>3, <2>4
  <2> QED BY <2>1, <2>5, <2>6
<1>2. Spec => [](TypeOK /\ OrderedInv(rank))
  BY AlwaysOrdered
<1> QED BY <1>1, <1>2, PTL

-----------------------------------------------------------------------------
(* The calls of the database *)

\* The lock of a step ranks above those held.
Above(s) == s.do # "drop" => \A g \in s.under : LockRank[g.lock] < LockRank[s.lock]

\* The steps p take the guards held from u to v.
Chain(p, u, v) ==
  /\ p \in Seq(Steps)
  /\ \A i \in 1 .. Len(p) : Above(p[i])
  /\ p = <<>> => u = v
  /\ p # <<>> => p[1].under = u /\ After(p[Len(p)]) = v
  /\ \A i \in 1 .. Len(p) - 1 : p[i + 1].under = After(p[i])

\* Every lock has a rank.
LEMMA LockRankNat == LockRank \in [Locks -> 0 .. TopRank + 1]
BY DatabaseAssumption, RankAssumption, TablesAssumption DEF LockRank, AllLocks

\* The steps of a scope around b.
Around(mode, l, u, b) ==
  <<[do |-> mode, lock |-> l, under |-> u]>> \o b
    \o <<[do |-> "drop", lock |-> l, under |-> u \cup {Guard(mode, l)}]>>

\* What concatenation does to places.
LEMMA JoinedAt ==
  ASSUME NEW S, NEW p \in Seq(S), NEW q \in Seq(S)
  PROVE  /\ p \o q \in Seq(S)
         /\ Len(p \o q) = Len(p) + Len(q) /\ Len(p) \in Nat /\ Len(q) \in Nat
         /\ \A i \in 1 .. Len(p) + Len(q) :
              (p \o q)[i] = IF i <= Len(p) THEN p[i] ELSE q[i - Len(p)]
         /\ p = <<>> => p \o q = q
         /\ q = <<>> => p \o q = p
<1>1. p \o q \in Seq(S) /\ Len(p) \in Nat /\ Len(q) \in Nat
  BY ConcatProperties, LenProperties
<1>2. /\ Len(p \o q) = Len(p) + Len(q)
      /\ \A i \in 1 .. Len(p) + Len(q) :
           (p \o q)[i] = IF i <= Len(p) THEN p[i] ELSE q[i - Len(p)]
  BY ConcatProperties
<1>3. /\ p = <<>> => p \o q = q
      /\ q = <<>> => p \o q = p
  BY ConcatEmptySeq
<1> QED BY <1>1, <1>2, <1>3

\* Chains that meet are one chain.
LEMMA ChainConcat ==
  ASSUME NEW p, NEW q, NEW u, NEW v, NEW w, Chain(p, u, v), Chain(q, v, w)
  PROVE  Chain(p \o q, u, w)
<1>1. p \in Seq(Steps) /\ q \in Seq(Steps)
  BY DEF Chain
<1> DEFINE r == p \o q
<1>2. /\ r \in Seq(Steps)
      /\ Len(r) = Len(p) + Len(q) /\ Len(p) \in Nat /\ Len(q) \in Nat
      /\ \A i \in 1 .. Len(p) + Len(q) : r[i] = IF i <= Len(p) THEN p[i] ELSE q[i - Len(p)]
      /\ p = <<>> => r = q
      /\ q = <<>> => r = p
  BY <1>1, JoinedAt
<1> HIDE DEF r
<1>3. CASE p = <<>>
  BY <1>2, <1>3 DEF Chain
<1>4. CASE q = <<>>
  BY <1>2, <1>4 DEF Chain
<1>5. CASE p # <<>> /\ q # <<>>
  <2>1. Len(p) > 0 /\ Len(q) > 0 /\ r # <<>>
    BY <1>1, <1>2, <1>5, EmptySeq
  <2>2. r[1] = p[1] /\ r[Len(r)] = q[Len(q)]
    BY <1>2, <2>1
  <2>3. ASSUME NEW i \in 1 .. Len(r)  PROVE Above(r[i])
    <3>1. CASE i <= Len(p)
      BY <1>2, <3>1 DEF Chain
    <3>2. CASE i > Len(p)
      <4>1. r[i] = q[i - Len(p)] /\ i - Len(p) \in 1 .. Len(q)
        BY <1>2, <3>2
      <4> QED BY <4>1 DEF Chain
    <3> QED BY <1>2, <3>1, <3>2
  <2>4. ASSUME NEW i \in 1 .. Len(r) - 1  PROVE r[i + 1].under = After(r[i])
    <3>1. CASE i < Len(p)
      BY <1>2, <3>1 DEF Chain
    <3>2. CASE i = Len(p)
      <4>1. r[i] = p[Len(p)] /\ r[i + 1] = q[1]
        BY <1>2, <2>1, <3>2
      <4> QED BY <1>5, <4>1 DEF Chain
    <3>3. CASE i > Len(p)
      <4>1. r[i] = q[i - Len(p)] /\ r[i + 1] = q[(i - Len(p)) + 1] /\ i - Len(p) \in 1 .. Len(q) - 1
        BY <1>2, <3>3
      <4> QED BY <4>1 DEF Chain
    <3> QED BY <1>2, <3>1, <3>2, <3>3
  <2> QED BY <1>2, <1>5, <2>1, <2>2, <2>3, <2>4 DEF Chain
<1> QED BY <1>3, <1>4, <1>5

\* One step is a chain.
LEMMA ChainStep ==
  ASSUME NEW s \in Steps, Above(s)
  PROVE  Chain(<<s>>, s.under, After(s))
BY DEF Chain

\* A scope gives back the lock it takes, if that ranks above those held.
LEMMA ScopeChain ==
  ASSUME NEW mode \in {"read", "write"}, NEW l \in Locks, NEW u \in SUBSET Guards,
         \A g \in u : LockRank[g.lock] < LockRank[l],
         NEW b, Chain(b, u \cup {Guard(mode, l)}, u \cup {Guard(mode, l)})
  PROVE  Chain(Around(mode, l, u, b), u, u)
<1> DEFINE i == u \cup {Guard(mode, l)}
           s == [do |-> mode, lock |-> l, under |-> u]
           e == [do |-> "drop", lock |-> l, under |-> i]
<1>1. Guard(mode, l) \in Guards /\ i \in SUBSET Guards
  BY DEF Guard, Guards
<1>2. s \in Steps /\ e \in Steps
  BY <1>1 DEF Steps
<1>3. Above(s) /\ Above(e)
  BY DEF Above
<1>4. s.under = u /\ After(s) = i /\ e.under = i
  BY DEF After
<1>5. After(e) = u
  <2>1. After(e) = i \ {Guard("read", l), Guard("write", l)}
    BY DEF After
  <2>2. ASSUME NEW g \in u  PROVE g \notin {Guard("read", l), Guard("write", l)}
    <3>1. LockRank[g.lock] < LockRank[l] /\ Guard("read", l).lock = l /\ Guard("write", l).lock = l
      BY DEF Guard
    <3> QED BY <3>1, LockRankNat
  <2> QED BY <2>1, <2>2
<1> HIDE DEF i, s, e
<1>6. Chain(<<s>>, u, i) /\ Chain(<<e>>, i, u)
  BY <1>2, <1>3, <1>4, <1>5, ChainStep
<1>7. Chain(b, i, i)
  BY DEF i
<1>8. Chain(<<s>> \o b, u, i)
  BY <1>6, <1>7, ChainConcat
<1>9. Chain((<<s>> \o b) \o <<e>>, u, u)
  BY <1>6, <1>8, ChainConcat
<1> QED BY <1>9 DEF Around, s, e, i

-----------------------------------------------------------------------------
(* The calls *)

\* A call starts and ends without guards.
Whole(p) == Chain(p, {}, {})

\* The guards held around a table, and those around a log.
Map == {} \cup {Guard("read", "map")}
Table(mode, t) == Map \cup {Guard(mode, t)}
Lower == {g \in Guards : g.lock \in Tables \cup {"map"}}

\* The ranks: the map, the tables, the logs.
LEMMA Ranks ==
  /\ LockRank["map"] = 0 /\ "map" \in Locks
  /\ \A t \in Tables : t \in Locks /\ LockRank[t] = TableRank[t] /\ LockRank[t] \in 1 .. TopRank
  /\ \A l \in {"log", "wal"} : l \in Locks /\ LockRank[l] = TopRank + 1
  /\ \A g \in Lower : LockRank[g.lock] \in 0 .. TopRank
BY DatabaseAssumption, RankAssumption, TablesAssumption DEF LockRank, AllLocks, Lower

\* No steps are a chain.
LEMMA NoSteps == \A u : Chain(<<>>, u, u)
BY DEF Chain

\* A log is locked above the map and any tables.
LEMMA LogChain ==
  ASSUME NEW u \in SUBSET Lower, NEW mode \in {"read", "write"}, NEW l \in {"log", "wal"}
  PROVE  Chain(Around(mode, l, u, <<>>), u, u)
<1>1. \A g \in u : LockRank[g.lock] < LockRank[l]
  BY Ranks, RankAssumption
<1>2. u \in SUBSET Guards /\ l \in Locks
  BY Ranks DEF Lower
<1> QED BY <1>1, <1>2, NoSteps, ScopeChain

\* A table is locked above the map.
LEMMA TableChain ==
  ASSUME NEW t \in Tables, NEW mode \in {"read", "write"},
         NEW b, Chain(b, Table(mode, t), Table(mode, t))
  PROVE  Chain(Around(mode, t, Map, b), Map, Map)
<1>1. Map \in SUBSET Guards /\ \A g \in Map : g.lock = "map"
  BY Ranks DEF Map, Guard, Guards
<1>2. \A g \in Map : LockRank[g.lock] < LockRank[t]
  BY <1>1, Ranks
<1>3. Chain(b, Map \cup {Guard(mode, t)}, Map \cup {Guard(mode, t)})
  BY DEF Table
<1> QED BY <1>1, <1>2, <1>3, Ranks, ScopeChain

\* The map is locked first, and a table without it if nothing is held.
LEMMA FirstChain ==
  ASSUME NEW mode \in {"read", "write"}, NEW l \in Locks,
         NEW b, Chain(b, {} \cup {Guard(mode, l)}, {} \cup {Guard(mode, l)})
  PROVE  Whole(Around(mode, l, {}, b))
<1> DEFINE u == {}
<1>1. u \in SUBSET Guards /\ \A g \in u : LockRank[g.lock] < LockRank[l]
  OBVIOUS
<1>2. Chain(b, u \cup {Guard(mode, l)}, u \cup {Guard(mode, l)})
  OBVIOUS
<1> HIDE DEF u
<1>3. Chain(Around(mode, l, u, b), u, u)
  BY <1>1, <1>2, ScopeChain
<1> QED BY <1>3 DEF Whole, u

\* The guards around a log are those of the map and tables.
LEMMA TableGuards ==
  /\ Map \in SUBSET Lower
  /\ \A t \in Tables, mode \in {"read", "write"} : Table(mode, t) \in SUBSET Lower
BY Ranks DEF Map, Table, Lower, Guard, Guards

\* A call on one table under the read lock of the map.
LEMMA OneTableCall ==
  ASSUME NEW t \in Tables, NEW mode \in {"read", "write"},
         NEW b, Chain(b, Table(mode, t), Table(mode, t))
  PROVE  Whole(Around("read", "map", {}, Around(mode, t, Map, b)))
<1>1. Chain(Around(mode, t, Map, b), Map, Map)
  BY TableChain
<1>2. Chain(Around(mode, t, Map, b), {} \cup {Guard("read", "map")}, {} \cup {Guard("read", "map")})
  BY <1>1 DEF Map
<1> QED BY <1>2, Ranks, FirstChain

\* insert_row and its like record what they did in both logs, one after the
\* other, and keep none of them.
LEMMA InsertRowWhole == ASSUME NEW t \in Tables  PROVE Whole(InsertRow(t))
<1> DEFINE u == Table("write", t)
           b == Around("write", "log", u, <<>>) \o Around("write", "wal", u, <<>>)
<1>1. Chain(b, u, u)
  BY TableGuards, LogChain, ChainConcat
<1>2. InsertRow(t) = Around("read", "map", {}, Around("write", t, Map, b))
  BY DEF InsertRow, Writing, Recorded, Shared, Exclusive, Scope, Nothing,
         Around, Table, Map, Guard
<1> HIDE DEF b, u
<1>3. Whole(Around("read", "map", {}, Around("write", t, Map, b)))
  BY <1>1, OneTableCall DEF u
<1> QED BY <1>2, <1>3

\* The batch inserts write the two logs in the other order, which is as good.
LEMMA InsertBatchWhole == ASSUME NEW t \in Tables  PROVE Whole(InsertBatch(t))
<1> DEFINE u == Table("write", t)
           b == Around("write", "wal", u, <<>>) \o Around("write", "log", u, <<>>)
<1>1. Chain(b, u, u)
  BY TableGuards, LogChain, ChainConcat
<1>2. InsertBatch(t) = Around("read", "map", {}, Around("write", t, Map, b))
  BY DEF InsertBatch, Writing, Logged, Shared, Exclusive, Scope, Nothing,
         Around, Table, Map, Guard
<1> HIDE DEF b, u
<1>3. Whole(Around("read", "map", {}, Around("write", t, Map, b)))
  BY <1>1, OneTableCall DEF u
<1> QED BY <1>2, <1>3

\* delete_batch records each row while it holds the table.
LEMMA DeleteBatchWhole == ASSUME NEW t \in Tables  PROVE Whole(DeleteBatch(t))
<1> DEFINE u == Table("write", t)
           b == Around("write", "log", u, <<>>) \o Around("write", "wal", u, <<>>)
<1>1. Chain(b, u, u)
  BY TableGuards, LogChain, ChainConcat
<1>2. DeleteBatch(t) = Around("read", "map", {}, Around("write", t, Map, b \o b))
  BY DEF DeleteBatch, Writing, Recorded, Shared, Exclusive, Scope, Nothing,
         Around, Table, Map, Guard
<1> HIDE DEF b, u
<1>3. Chain(b \o b, u, u)
  BY <1>1, ChainConcat
<1>4. Whole(Around("read", "map", {}, Around("write", t, Map, b \o b)))
  BY <1>3, OneTableCall DEF u
<1> QED BY <1>2, <1>4

\* update_values, which logs nothing, and find.
LEMMA PlainCallsWhole ==
  ASSUME NEW t \in Tables  PROVE Whole(UpdateValues(t)) /\ Whole(Find(t))
<1>1. UpdateValues(t) = Around("read", "map", {}, Around("write", t, Map, <<>>))
  BY DEF UpdateValues, Writing, Shared, Exclusive, Scope, Nothing, Around, Map, Guard
<1>2. Find(t) = Around("read", "map", {}, Around("read", t, Map, <<>>))
  BY DEF Find, Reading, Shared, Scope, Nothing, Around, Map, Guard
<1>3. \A mode \in {"read", "write"} :
        Whole(Around("read", "map", {}, Around(mode, t, Map, <<>>)))
  BY NoSteps, OneTableCall
<1> QED BY <1>1, <1>2, <1>3

\* Calls that take one lock.
LEMMA SingleWhole ==
  ASSUME NEW l \in Locks
  PROVE  Whole(Shared(l, {}, Nothing)) /\ Whole(Exclusive(l, {}, Nothing))
<1>1. Shared(l, {}, Nothing) = Around("read", l, {}, <<>>)
  BY DEF Shared, Scope, Nothing, Around, Guard
<1>2. Exclusive(l, {}, Nothing) = Around("write", l, {}, <<>>)
  BY DEF Exclusive, Scope, Nothing, Around, Guard
<1>3. \A mode \in {"read", "write"} : Whole(Around(mode, l, {}, <<>>))
  BY NoSteps, FirstChain
<1> QED BY <1>1, <1>2, <1>3

\* A call after a call.
LEMMA WholeConcat ==
  ASSUME NEW p, NEW q, Whole(p), Whole(q)
  PROVE  Whole(p \o q)
BY ChainConcat DEF Whole

\* A handle outlives the guard of the map under which it was found.
LEMMA ByHandleWhole ==
  ASSUME NEW t \in Tables, NEW p \in ByHandle(t)  PROVE Whole(p)
<1>1. Whole(GetTable)
  BY Ranks, SingleWhole DEF GetTable
<1>2. Whole(Shared(t, {}, Nothing)) /\ Whole(Exclusive(t, {}, Nothing))
  BY Ranks, SingleWhole
<1>3. \/ p = GetTable \o Shared(t, {}, Nothing)
      \/ p = GetTable \o Exclusive(t, {}, Nothing)
  BY DEF ByHandle
<1> DEFINE r == Shared(t, {}, Nothing)
           w == Exclusive(t, {}, Nothing)
<1>4. Whole(r) /\ Whole(w) /\ (p = GetTable \o r \/ p = GetTable \o w)
  BY <1>2, <1>3
<1> HIDE DEF r, w
<1> QED BY <1>1, <1>4, WholeConcat

\* insert_or_replace is three calls, each of which returns its locks.
LEMMA InsertOrReplaceWhole ==
  ASSUME NEW t \in Tables, NEW p \in InsertOrReplace(t)  PROVE Whole(p)
<1>1. \/ p = Find(t) \o Find(t) \o UpdateValues(t)
      \/ p = Find(t) \o Find(t) \o InsertBatch(t)
  BY DEF InsertOrReplace
<1>2. Whole(Find(t) \o Find(t))
  BY PlainCallsWhole, WholeConcat
<1> QED BY <1>1, <1>2, PlainCallsWhole, InsertBatchWhole, WholeConcat

\* A join holds two tables, which must come in order.
LEMMA HashJoinWhole ==
  ASSUME NEW t1 \in Tables, NEW t2 \in Tables, TableRank[t1] < TableRank[t2]
  PROVE  Whole(HashJoin(t1, t2))
<1> DEFINE u == Table("read", t1)
           b == Around("read", t2, u, <<>>)
<1>1. HashJoin(t1, t2) = Around("read", "map", {}, Around("read", t1, Map, b))
  BY DEF HashJoin, Reading, Shared, Scope, Nothing, Around, Table, Map, Guard
<1>2. u \in SUBSET Guards /\ \A g \in u : g.lock \in {"map", t1}
  BY Ranks DEF Table, Map, Guard, Guards
<1> HIDE DEF u
<1>3. \A g \in u : LockRank[g.lock] < LockRank[t2]
  BY <1>2, Ranks
<1>4. Chain(b, u, u)
  BY <1>2, <1>3, Ranks, NoSteps, ScopeChain
<1> HIDE DEF b
<1> QED BY <1>1, <1>4, OneTableCall DEF u

\* recover_from_wal reads the log to its end before it replays.
LEMMA RecoverWhole == ASSUME NEW t \in Tables  PROVE Whole(Recover(t))
<1> DEFINE r == Shared("wal", {}, Nothing)
<1>1. Whole(r) /\ Recover(t) = r \o InsertRow(t)
  BY Ranks, SingleWhole DEF Recover
<1> HIDE DEF r
<1> QED BY <1>1, InsertRowWhole, WholeConcat

\* Counting from 0 reaches every number.
LEMMA CountingUp ==
  ASSUME NEW S, 0 \in S, \A n \in Nat : n \in S => n + 1 \in S
  PROVE  \A n \in Nat : n \in S
<1> DEFINE B == {n \in Nat : n \notin S}
<1> SUFFICES ASSUME B # {}  PROVE FALSE
  OBVIOUS
<1>1. PICK m \in B : \A k \in B : ~ (<<k, m>> \in OpToRel(<, Nat))
  BY NatLessThanWellFounded, WFMin
<1>2. m \in Nat /\ m \notin S /\ m # 0
  OBVIOUS
<1>2a. m - 1 \in Nat /\ m - 1 < m /\ (m - 1) + 1 = m
  BY <1>2
<1>3. m - 1 \notin B
  <2> HIDE DEF B
  <2> QED BY <1>1, <1>2, <1>2a DEF OpToRel
<1>4. (m - 1) + 1 \in S
  BY <1>2a, <1>3
<1> QED BY <1>2, <1>2a, <1>4

\* Chains that return to the guards they start with can follow one another in
\* any number.
LEMMA FlattenChain ==
  ASSUME NEW seqs \in Seq(Seq(Steps)), NEW u,
         \A i \in 1 .. Len(seqs) : Chain(seqs[i], u, u)
  PROVE  Chain(FlattenSeq(seqs), u, u)
<1> DEFINE n == Len(seqs)
           Solves(f, m) ==
             f = [i \in 1 .. m |-> IF i = 1 THEN seqs[i] ELSE f[i - 1] \o seqs[i]]
           Solved == {m \in Nat : \E f : Solves(f, m)}
<1>1. n \in Nat
  BY LenProperties
<1>2. 0 \in Solved
  <2>1. Solves([i \in 1 .. 0 |-> seqs[i]], 0)
    OBVIOUS
  <2> QED BY <2>1
<1>3. ASSUME NEW m \in Nat, m \in Solved  PROVE m + 1 \in Solved
  <2>1. PICK f : Solves(f, m)
    BY <1>3
  <2> DEFINE g == [i \in 1 .. m + 1 |->
                     IF i = m + 1 THEN (IF i = 1 THEN seqs[i] ELSE f[m] \o seqs[i]) ELSE f[i]]
  <2>2. ASSUME NEW i \in 1 .. m + 1
        PROVE  g[i] = IF i = 1 THEN seqs[i] ELSE g[i - 1] \o seqs[i]
    <3>1. CASE i = m + 1
      <4>1. i # 1 => g[i - 1] = f[m]
        BY <3>1
      <4>2. g[i] = IF i = 1 THEN seqs[i] ELSE f[m] \o seqs[i]
        BY <3>1
      <4> QED BY <4>1, <4>2
    <3>2. CASE i # m + 1
      <4>1. g[i] = f[i] /\ i \in 1 .. m /\ (i # 1 => g[i - 1] = f[i - 1])
        BY <3>2
      <4> HIDE DEF g
      <4>2. f[i] = IF i = 1 THEN seqs[i] ELSE f[i - 1] \o seqs[i]
        BY <2>1, <4>1
      <4> QED BY <4>1, <4>2
    <3> QED BY <3>1, <3>2
  <2>3. Solves(g, m + 1)
    BY <2>2
  <2> HIDE DEF g, Solves
  <2>4. m + 1 \in Nat
    OBVIOUS
  <2> QED BY <2>3, <2>4
<1>4. \A m \in Nat : m \in Solved
  <2> HIDE DEF Solved
  <2> QED BY <1>2, <1>3, CountingUp
<1> DEFINE flatten == CHOOSE f : Solves(f, n)
<1>5. Solves(flatten, n)
  <2>1. \E f : Solves(f, n)
    BY <1>1, <1>4
  <2> HIDE DEF Solves
  <2> QED BY <2>1
<1>6. FlattenSeq(seqs) = IF n = 0 THEN seqs ELSE flatten[n]
  BY DEF FlattenSeq
<1> HIDE DEF flatten
<1>7. \A i \in 1 .. n : flatten[i] = IF i = 1 THEN seqs[i] ELSE flatten[i - 1] \o seqs[i]
  BY <1>5
<1> DEFINE Chained == {i \in Nat : i \in 1 .. n => Chain(flatten[i], u, u)}
<1>8. 0 \in Chained
  OBVIOUS
<1>9. ASSUME NEW i \in Nat, i \in Chained  PROVE i + 1 \in Chained
  <2> SUFFICES ASSUME i + 1 \in 1 .. n  PROVE Chain(flatten[i + 1], u, u)
    OBVIOUS
  <2>1. Chain(seqs[i + 1], u, u)
    OBVIOUS
  <2>2. CASE i = 0
    <3>1. flatten[i + 1] = seqs[i + 1]
      BY <1>7, <2>2
    <3> QED BY <2>1, <3>1
  <2>3. CASE i # 0
    <3>1. flatten[i + 1] = flatten[i] \o seqs[i + 1]
      <4>1. i + 1 # 1 /\ (i + 1) - 1 = i
        BY <2>3
      <4> QED BY <1>7, <4>1
    <3>2. Chain(flatten[i], u, u)
      BY <1>1, <1>9, <2>3
    <3> QED BY <2>1, <3>1, <3>2, ChainConcat
  <2> QED BY <2>2, <2>3
<1>10. \A i \in Nat : i \in Chained
  <2> HIDE DEF Chained
  <2> QED BY <1>8, <1>9, CountingUp
<1>11. CASE n = 0
  <2>1. seqs = <<>>
    BY <1>11, EmptySeq
  <2> QED BY <1>6, <1>11, <2>1, NoSteps
<1>12. CASE n # 0
  <2>1. Chain(flatten[n], u, u)
    BY <1>1, <1>10, <1>12
  <2> QED BY <1>6, <1>12, <2>1
<1> QED BY <1>11, <1>12

\* The tables one after the other, in any order.
LEMMA EachTableChain ==
  ASSUME NEW order \in Orders
  PROVE  Chain(EachTable(order, Map), Map, Map)
<1> DEFINE seqs == [i \in DOMAIN order |-> Shared(order[i], Map, Nothing)]
           n == Cardinality(Tables)
<1>1. n \in Nat /\ order \in [1 .. n -> Tables]
  BY TablesAssumption, FS_CardinalityType DEF Orders, SetToSeqs
<1>2. ASSUME NEW i \in 1 .. n  PROVE Chain(seqs[i], Map, Map)
  <2>1. seqs[i] = Around("read", order[i], Map, <<>>)
    BY <1>1 DEF Shared, Scope, Nothing, Around, Guard
  <2> QED BY <1>1, <2>1, NoSteps, TableChain
<1>3. DOMAIN seqs = 1 .. n /\ Len(seqs) = n
  BY <1>1
<1>6. seqs \in Seq(Seq(Steps))
  <2>1. \A i \in 1 .. n : seqs[i] \in Seq(Steps)
    <3> HIDE DEF seqs
    <3> QED BY <1>2 DEF Chain
  <2> DEFINE S == Seq(Steps)
  <2>2. seqs = [i \in 1 .. n |-> seqs[i]] /\ \A i \in 1 .. n : seqs[i] \in S
    BY <1>1, <2>1
  <2> HIDE DEF seqs, S
  <2>3. seqs \in Seq(S)
    BY <1>1, <2>2, IsASeq
  <2> QED BY <2>3 DEF S
<1> HIDE DEF seqs
<1>4. EachTable(order, Map) = FlattenSeq(seqs)
  BY DEF EachTable, seqs
<1> HIDE DEF n
<1>5. Chain(FlattenSeq(seqs), Map, Map)
  BY <1>2, <1>3, <1>6, FlattenChain
<1> QED BY <1>4, <1>5

\* begin_transaction clones table by table; snapshot then reads the version log.
LEMMA CopiesWhole ==
  ASSUME NEW order \in Orders
  PROVE  Whole(BeginTransaction(order)) /\ Whole(Snapshot(order))
<1> DEFINE b == EachTable(order, Map)
           c == Around("read", "log", Map, <<>>)
<1>1. /\ BeginTransaction(order) = Around("read", "map", {}, b)
      /\ Snapshot(order) = Around("read", "map", {}, b \o c)
  BY DEF BeginTransaction, Snapshot, Shared, Scope, Nothing, Around, Map, Guard
<1>2. Chain(b, Map, Map) /\ Chain(c, Map, Map)
  BY EachTableChain, TableGuards, LogChain
<1> HIDE DEF b, c
<1>3. Chain(b \o c, Map, Map)
  BY <1>2, ChainConcat
<1>4. \A p : Chain(p, Map, Map) => Whole(Around("read", "map", {}, p))
  BY Ranks, FirstChain DEF Map
<1> QED BY <1>1, <1>2, <1>3, <1>4

\* Each of the calls takes its locks in their order and gives all of them back.
LEMMA CallsWhole ==
  ASSUME CallsInOrder, NEW p \in CallPrograms
  PROVE  Whole(p)
<1>1. PICK call \in Calls : p \in ProgramsOf(call)
  BY DEF CallPrograms
<1>2. call \in OrderedCalls
  BY DEF CallsInOrder
<1>3. CASE call \in {"insert_row", "insert_batch", "delete_batch", "update_values", "find", "recover"}
  BY <1>1, <1>3, InsertRowWhole, InsertBatchWhole, DeleteBatchWhole, PlainCallsWhole, RecoverWhole
     DEF ProgramsOf
<1>4. CASE call \in {"get_table", "create_table"}
  BY <1>1, <1>4, Ranks, SingleWhole DEF ProgramsOf, GetTable, CreateTable
<1>5. CASE call \in {"by_handle", "insert_or_replace"}
  BY <1>1, <1>5, ByHandleWhole, InsertOrReplaceWhole DEF ProgramsOf
<1>6. CASE call \in {"snapshot", "begin_transaction"}
  BY <1>1, <1>6, CopiesWhole DEF ProgramsOf
<1>7. CASE call = "hash_join"
  <2>1. PICK j \in JoinPairs : p = HashJoin(j[1], j[2])
    BY <1>1, <1>7 DEF ProgramsOf
  <2>2. j[1] \in Tables /\ j[2] \in Tables /\ TableRank[j[1]] < TableRank[j[2]]
    BY DEF CallsInOrder
  <2> QED BY <2>1, <2>2, HashJoinWhole
<1> QED BY <1>2, <1>3, <1>4, <1>5, <1>6, <1>7 DEF OrderedCalls, AllCalls

-----------------------------------------------------------------------------
(* The threads *)

\* A chain is an ordered and well scoped program.
LEMMA ChainOrdered ==
  ASSUME NEW p, Whole(p)
  PROVE  Ordered(p, LockRank) /\ WellScoped(p)
BY DEF Whole, Chain, Ordered, RespectsOrder, WellScoped, Above

\* The rest of a well scoped program is one, too.
LEMMA TailScoped ==
  ASSUME NEW p \in Seq(Steps), p # <<>>, WellScoped(p)
  PROVE  WellScoped(Tail(p))
<1>1. /\ Len(Tail(p)) = Len(p) - 1 /\ Len(p) \in Nat
      /\ \A i \in 1 .. Len(Tail(p)) : Tail(p)[i] = p[i + 1]
  BY HeadTailProperties, LenProperties
<1> DEFINE r == Tail(p)
<1>2. r # <<>> => Len(r) # 0
  BY HeadTailProperties, EmptySeq
<1> HIDE DEF r
<1>3. r # <<>> => After(r[Len(r)]) = {}
  BY <1>1, <1>2 DEF WellScoped, r
<1>4. ASSUME NEW i \in 1 .. Len(r) - 1  PROVE r[i + 1].under = After(r[i])
  <2>1. r[i] = p[i + 1] /\ r[i + 1] = p[(i + 1) + 1] /\ i + 1 \in 1 .. Len(p) - 1
    BY <1>1 DEF r
  <2> QED BY <2>1 DEF WellScoped
<1> QED BY <1>3, <1>4 DEF WellScoped, r

\* What a thread has still to do is well scoped.
ScopedInv == \A th \in Threads : WellScoped(todo[th])

\* Both are inductive: a thread starts a whole call or takes the next step of one.
LEMMA OrderNext ==
  ASSUME CallsInOrder, TypeOK, OrderedInv(LockRank), ScopedInv, [Next]_vars
  PROVE  OrderedInv(LockRank)' /\ ScopedInv'
<1>1. \A prog \in Programs : Ordered(prog, LockRank) /\ WellScoped(prog)
  BY DatabaseAssumption, CallsWhole, ChainOrdered
<1>2. OrderedInv(LockRank)'
  BY <1>1, OrderedNext
<1>3. ASSUME NEW th \in Threads, Busy(th), Advance(th)  PROVE ScopedInv'
  <2>1. WellScoped(Tail(todo[th]))
    BY <1>3, TailScoped DEF TypeOK, ScopedInv, Busy
  <2> QED BY <1>3, <2>1 DEF TypeOK, ScopedInv, Advance
<1>4. ASSUME NEW th \in Threads, Start(th)  PROVE ScopedInv'
  BY <1>1, <1>4 DEF TypeOK, ScopedInv, Start
<1>5. ASSUME NEW th \in Threads, Continue(th)  PROVE ScopedInv'
  <2>1. CASE Claim(th)
    BY <2>1 DEF ScopedInv, Claim
  <2>2. CASE Enter(th)
    BY <1>3, <2>2 DEF TypeOK, Enter, CanEnter
  <2>3. CASE Read(th)
    BY <1>3, <2>3 DEF Read, CanRead, At
  <2>4. CASE Drop(th)
    BY <1>3, <2>4 DEF Drop, CanDrop, At
  <2> QED BY <1>5, <2>1, <2>2, <2>3, <2>4 DEF Continue
<1>6. CASE UNCHANGED vars
  BY <1>2, <1>6 DEF ScopedInv, vars
<1> QED BY <1>2, <1>4, <1>5, <1>6 DEF Next

\* Every thread is always in the rest of a call that takes its locks in their
\* order, never one below one that it holds, and gives all of them back.
THEOREM DatabaseLocksInOrder == Spec => []LocksInOrder
<1> DEFINE Steady == OrderedInv(LockRank) /\ ScopedInv
<1>1. CASE CallsInOrder
  <2>1. Spec => []TypeOK
    <3>1. Programs \subseteq Seq(Steps)
      BY <1>1, DatabaseAssumption, CallsWhole, ChainOrdered DEF Ordered
    <3> QED BY <3>1, LocksTypeCorrect
  <2>2. Init => Steady
    <3>1. RespectsOrder(<<>>, LockRank) /\ WellScoped(<<>>)
      BY DEF RespectsOrder, WellScoped
    <3> QED BY <3>1 DEF Init, OrderedInv, ScopedInv
  <2>3. TypeOK /\ Steady /\ [Next]_vars => Steady'
    BY <1>1, OrderNext
  <2>4. Steady => LocksInOrder
    BY DEF LocksInOrder, OrderedInv, ScopedInv
  <2> QED BY <2>1, <2>2, <2>3, <2>4, PTL DEF Spec
<1>2. CASE ~CallsInOrder
  <2>1. LocksInOrder
    BY <1>2 DEF LocksInOrder
  <2> QED BY <2>1, PTL
<1> QED BY <1>1, <1>2

\* Any number of threads may make these calls on any number of tables: while one
\* of them has not returned, some thread can go on.
THEOREM DatabaseNeverDeadlocks == ASSUME CallsInOrder  PROVE Spec => []NoDeadlock
<1>1. \A prog \in Programs : Ordered(prog, LockRank)
  BY DatabaseAssumption, CallsWhole, ChainOrdered
<1>2. LockRank \in [Locks -> 0 .. TopRank + 1] /\ TopRank + 1 \in Nat
  BY LockRankNat, RankAssumption
<1> QED BY <1>1, <1>2, OrderedLocksNeverDeadlock

=============================================================================
