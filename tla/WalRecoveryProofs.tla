------------------------- MODULE WalRecoveryProofs -------------------------
(***************************************************************************)
(* Safety of module WalRecovery, for all schemas, profiles and bounds.     *)
(*                                                                         *)
(* NothingInvented needs to know that every place a row may come back from *)
(* holds only written rows: WInv.  OneImageSurvives needs which of the two *)
(* files is complete after how many cut saves: CutInv.                     *)
(*                                                                         *)
(* Durable is the hard one.  The log is never cleared, a new process may   *)
(* start from any image or from none, and recovery appends to the log what *)
(* it replays.  It recovers because of what the log does to each id by     *)
(* itself: an id that was only inserted gets its row if it has none, and   *)
(* one that was updated or deleted ends the same from every state, however *)
(* often the log repeats itself.  Recoverable says this of one id, and     *)
(* DInv of all; custom ids keep the ids apart, as a delete that moves a    *)
(* row is invisible through an exact id_map.                               *)
(*                                                                         *)
(* What a sequence of entries does is proved without induction: the least  *)
(* length for which it failed would have a predecessor (LeastElement,      *)
(* Counting).                                                              *)
(***************************************************************************)
EXTENDS WalRecovery, TableOpsProofs

\* One round of the loop of delete_batch.
DeleteStep(b, id) ==
  IF GetIndex(b.t, id) = 0 THEN b
  ELSE [t |-> Delete(b.t, id), log |-> Append(b.log, Entry("delete", id, NoRow))]

\* The recursion of DeleteBatch has a solution, so DeleteBatch is the last of
\* its steps.
LEMMA DeleteBatchSteps ==
  ASSUME NEW t, NEW ids \in Seq(Id)
  PROVE  \E done : /\ DeleteBatch(t, ids) = done[Len(ids)]
                   /\ done[0] = [t |-> t, log |-> <<>>]
                   /\ \A n \in 1 .. Len(ids) : done[n] = DeleteStep(done[n - 1], ids[n])
<1> DEFINE start == [t |-> t, log |-> <<>>]
           Solves(f, m) ==
             f = [n \in 0 .. m |-> IF n = 0 THEN start ELSE DeleteStep(f[n - 1], ids[n])]
           Bad == {m \in Nat : ~\E f : Solves(f, m)}
<1>1. Bad = {}
  <2> SUFFICES ASSUME Bad # {}  PROVE FALSE
    OBVIOUS
  <2>1. PICK m \in Bad : \A k \in Bad : m <= k
    BY LeastElement
  <2>2. Solves([n \in 0 .. 0 |-> start], 0)
    OBVIOUS
  <2>3. m # 0 /\ m \in Nat
    BY <2>2
  <2>4. PICK f : Solves(f, m - 1)
    <3>1. m - 1 \in Nat /\ ~(m <= m - 1)
      BY <2>3
    <3>2. m - 1 \notin Bad
      <4> HIDE DEF Bad
      <4> QED BY <2>1, <3>1
    <3> HIDE DEF Solves
    <3> QED BY <3>1, <3>2
  <2> DEFINE g == [n \in 0 .. m |-> IF n = m THEN DeleteStep(f[m - 1], ids[m]) ELSE f[n]]
  <2>5. \A n \in 0 .. m : g[n] = IF n = 0 THEN start ELSE DeleteStep(g[n - 1], ids[n])
    <3>1. ASSUME NEW n \in 0 .. m
          PROVE  g[n] = IF n = 0 THEN start ELSE DeleteStep(g[n - 1], ids[n])
      <4>1. CASE n = m
        <5>1. g[n] = DeleteStep(f[m - 1], ids[m]) /\ g[m - 1] = f[m - 1]
          BY <2>3, <4>1
        <5> HIDE DEF g
        <5> QED BY <2>3, <4>1, <5>1
      <4>2. CASE n # m
        <5>1. g[n] = f[n] /\ n \in 0 .. m - 1
          BY <2>3, <4>2
        <5>2. f[n] = IF n = 0 THEN start ELSE DeleteStep(f[n - 1], ids[n])
          <6> HIDE DEF g, start
          <6> QED BY <2>4, <5>1
        <5>3. n # 0 => g[n - 1] = f[n - 1]
          BY <2>3, <4>2
        <5> HIDE DEF g
        <5> QED BY <5>1, <5>2, <5>3
      <4> QED BY <4>1, <4>2
    <3> QED BY <3>1
  <2>6. Solves(g, m)
    BY <2>5
  <2> QED BY <2>6
<1> DEFINE done == CHOOSE f : Solves(f, Len(ids))
<1>2. Solves(done, Len(ids))
  <2>1. Len(ids) \notin Bad /\ Len(ids) \in Nat
    BY <1>1, LenProperties
  <2>2. \E f : Solves(f, Len(ids))
    BY <2>1
  <2> HIDE DEF Solves
  <2> QED BY <2>2
<1>3. DeleteBatch(t, ids) = done[Len(ids)]
  BY DEF DeleteBatch, DeleteStep
<1> QED
  <2> HIDE DEF done
  <2>1. \A n \in 0 .. Len(ids) : done[n] = IF n = 0 THEN start ELSE DeleteStep(done[n - 1], ids[n])
    BY <1>2
  <2>2. Len(ids) \in Nat
    BY LenProperties
  <2>3. done[0] = start
    BY <2>1, <2>2
  <2>4. \A n \in 1 .. Len(ids) : done[n] = DeleteStep(done[n - 1], ids[n])
    BY <2>1, <2>2
  <2> QED BY <1>3, <2>3, <2>4

-----------------------------------------------------------------------------
(* One id *)

\* What an id has: a row or none.
Absent == CHOOSE x : x \notin Row
State == Row \cup {Absent}

\* What an id has after an entry about it, and after any entry.
Follow(s, e) ==
  CASE e.op = "insert" -> IF s = Absent THEN e.row ELSE s
    [] e.op = "update" -> IF s = Absent THEN s ELSE e.row
    [] e.op = "delete" -> Absent

StepFor(x, s, e) == IF e.id = x THEN Follow(s, e) ELSE s

\* An entry that changes the table when it is replayed, and so is logged.
Effective(s, e) == IF e.op = "insert" THEN s = Absent ELSE s # Absent

\* Replaying es takes the id x from s to u.
Leads(x, s, es, u) ==
  \E g \in [0 .. Len(es) -> State] :
    /\ g[0] = s /\ g[Len(es)] = u
    /\ \A i \in 1 .. Len(es) : g[i] = StepFor(x, g[i - 1], es[i])

\* M is L and one more entry.
Longer(L, e, M) ==
  /\ Len(M) = Len(L) + 1
  /\ \A i \in 1 .. Len(L) : M[i] = L[i]
  /\ M[Len(L) + 1] = e

\* Having no row is not a row.
LEMMA AbsentIsNoRow == Absent \notin Row
BY BadRowAssumption DEF Absent

\* The kinds of entries.
LEMMA EntryKinds ==
  ASSUME NEW e \in Entries
  PROVE  /\ e.id \in Id
         /\ \/ e.op \in {"insert", "update"} /\ e.row \in Row /\ e = Entry(e.op, e.id, e.row)
            \/ e.op = "delete" /\ e = Entry("delete", e.id, NoRow)
<1> HIDE DEF Id, Row
<1> QED BY DEF Entries, Entry

\* An entry leaves an id with a row or with none.
LEMMA FollowType ==
  ASSUME NEW s \in State, NEW e \in Entries, NEW x
  PROVE  StepFor(x, s, e) \in State
BY EntryKinds DEF StepFor, Follow, State

\* An entry that is not effective changes nothing.
LEMMA NotEffective ==
  ASSUME NEW s \in State, NEW e \in Entries, ~Effective(s, e)
  PROVE  Follow(s, e) = s
BY EntryKinds DEF Effective, Follow

\* A log that leads an id to u leads it one step further with one more entry.
LEMMA LeadsExtend ==
  ASSUME NEW L, Len(L) \in Nat, NEW e \in Entries, NEW M, Longer(L, e, M),
         NEW x, NEW s, NEW u, Leads(x, s, L, u)
  PROVE  Leads(x, s, M, StepFor(x, u, e))
<1> DEFINE n == Len(L)
<1>1. PICK g \in [0 .. n -> State] :
        /\ g[0] = s /\ g[n] = u
        /\ \A i \in 1 .. n : g[i] = StepFor(x, g[i - 1], L[i])
  BY DEF Leads
<1>2. StepFor(x, u, e) \in State
  BY <1>1, FollowType
<1> DEFINE h == [i \in 0 .. n + 1 |-> IF i = n + 1 THEN StepFor(x, u, e) ELSE g[i]]
<1>3. /\ h \in [0 .. n + 1 -> State] /\ h[0] = s /\ h[n + 1] = StepFor(x, u, e)
      /\ \A i \in 0 .. n : h[i] = g[i]
  <2> HIDE DEF State
  <2> QED BY <1>1, <1>2
<1>4. \A i \in 1 .. n + 1 : h[i] = StepFor(x, h[i - 1], M[i])
  <2>1. ASSUME NEW i \in 1 .. n + 1
        PROVE  h[i] = StepFor(x, h[i - 1], M[i])
    <3> HIDE DEF h
    <3>1. CASE i = n + 1
      <4>1. i - 1 = n /\ M[i] = e /\ h[i - 1] = u
        BY <1>1, <1>3, <3>1 DEF Longer
      <4> QED BY <1>3, <3>1, <4>1
    <3>2. CASE i # n + 1
      <4>1. i \in 1 .. n /\ i - 1 \in 0 .. n /\ i \in 0 .. n
        BY <3>2
      <4>2. M[i] = L[i] /\ h[i] = g[i] /\ h[i - 1] = g[i - 1]
        BY <1>3, <4>1 DEF Longer
      <4> QED BY <1>1, <4>1, <4>2
    <3> QED BY <3>1, <3>2
  <2> QED BY <2>1
<1>5. Len(M) = n + 1
  BY DEF Longer
<1> HIDE DEF h
<1> QED BY <1>3, <1>4, <1>5 DEF Leads

\* What is left of a log leads on from where its first entry has led.
LEMMA LeadsTail ==
  ASSUME NEW es \in Seq(Entries), es # <<>>, NEW x, NEW s, NEW u, Leads(x, s, es, u)
  PROVE  Leads(x, StepFor(x, s, Head(es)), Tail(es), u)
<1> DEFINE n == Len(es)
<1>1. /\ n \in Nat /\ n # 0 /\ Len(Tail(es)) = n - 1 /\ Head(es) = es[1]
      /\ \A i \in 1 .. n - 1 : Tail(es)[i] = es[i + 1]
  BY HeadTailProperties, LenProperties, EmptySeq
<1>2. PICK g \in [0 .. n -> State] :
        /\ g[0] = s /\ g[n] = u
        /\ \A i \in 1 .. n : g[i] = StepFor(x, g[i - 1], es[i])
  BY DEF Leads
<1> DEFINE h == [i \in 0 .. n - 1 |-> g[i + 1]]
<1>3. h \in [0 .. n - 1 -> State]
  <2> HIDE DEF State
  <2> QED BY <1>1, <1>2
<1>4. h[0] = StepFor(x, s, Head(es)) /\ h[n - 1] = u
  <2>1. h[0] = g[1] /\ h[n - 1] = g[n]
    BY <1>1
  <2>2. g[1] = StepFor(x, g[0], es[1])
    BY <1>1, <1>2
  <2> HIDE DEF h
  <2> QED BY <1>1, <1>2, <2>1, <2>2
<1>5. ASSUME NEW i \in 1 .. n - 1
      PROVE  h[i] = StepFor(x, h[i - 1], Tail(es)[i])
  <2>1. h[i] = g[i + 1] /\ h[i - 1] = g[i]
    BY <1>1
  <2>2. g[i + 1] = StepFor(x, g[i], es[i + 1])
    BY <1>1, <1>2
  <2> HIDE DEF h
  <2> QED BY <1>1, <2>1, <2>2
<1> HIDE DEF h
<1> QED BY <1>1, <1>3, <1>4, <1>5 DEF Leads

\* The empty log leaves an id where it is, and nowhere else.
LEMMA LeadsNowhere ==
  ASSUME NEW x, NEW s \in State
  PROVE  Leads(x, s, <<>>, s) /\ \A u : Leads(x, s, <<>>, u) => u = s
<1> DEFINE g == [i \in 0 .. 0 |-> s]
<1>1. Len(<<>>) = 0 /\ 0 \in 0 .. 0 /\ 1 .. 0 = {}
  OBVIOUS
<1>2. g \in [0 .. 0 -> State] /\ g[0] = s
  OBVIOUS
<1>3. Leads(x, s, <<>>, s)
  <2> HIDE DEF g
  <2> QED BY <1>1, <1>2 DEF Leads
<1>4. ASSUME NEW u, Leads(x, s, <<>>, u)
      PROVE  u = s
  BY <1>1, <1>4 DEF Leads
<1> QED BY <1>3, <1>4

-----------------------------------------------------------------------------
(* One id and its log *)

\* Some entry of es is about x; all that are insert the row r.
Mentions(es, x) == \E i \in 1 .. Len(es) : es[i].id = x

OnlyInserts(es, x, r) ==
  \A i \in 1 .. Len(es) : es[i].id = x => es[i] = Entry("insert", x, r)

\* No call has named the id.
Untouched(x, L, pend, t, S, c) ==
  /\ ~Mentions(L, x) /\ ~Mentions(pend, x)
  /\ t = Absent /\ c = Absent /\ S \subseteq {Absent}
  /\ \A s \in State : Leads(x, s, L, s)

\* It was inserted, and nothing else: an image may be older than that, and the
\* log gives the row to it.
Inserted(x, L, pend, t, S, c) ==
  /\ c \in Row
  /\ Mentions(L, x) /\ OnlyInserts(L, x, c) /\ OnlyInserts(pend, x, c)
  /\ t \in {Absent, c} /\ (t = Absent => Mentions(pend, x))
  /\ S \subseteq {Absent, c}
  /\ \A s \in State : Leads(x, s, L, IF s = Absent THEN c ELSE s)

\* It was updated or deleted since: the log takes every image to the same
\* state, and the part recovery has still to replay takes the table to c.
Settled(x, L, pend, t, c) ==
  /\ Leads(x, t, pend, c)
  /\ \E y \in {t, c} : \A s \in State : Leads(x, s, L, y)

\* The log L, of which pend is still to be replayed, brings the id x from t,
\* which it has now, to c, and so it will from any image S it has.
Recoverable(x, L, pend, t, S, c) ==
  /\ t \in State /\ c \in State
  /\ \/ Untouched(x, L, pend, t, S, c)
     \/ Inserted(x, L, pend, t, S, c)
     \/ Settled(x, L, pend, t, c)

\* What one more entry does to the entries about an id.
LEMMA LongerMentions ==
  ASSUME NEW L, Len(L) \in Nat, NEW e, NEW M, Longer(L, e, M), NEW x
  PROVE  /\ Mentions(M, x) <=> Mentions(L, x) \/ e.id = x
         /\ \A r : OnlyInserts(M, x, r) <=>
                  OnlyInserts(L, x, r) /\ (e.id = x => e = Entry("insert", x, r))
<1>1. \A i \in 1 .. Len(L) + 1 : M[i] = IF i = Len(L) + 1 THEN e ELSE L[i]
  BY DEF Longer
<1>2. /\ Len(M) = Len(L) + 1 /\ Len(L) + 1 \in 1 .. Len(L) + 1
      /\ \A i \in 1 .. Len(L) : i \in 1 .. Len(L) + 1 /\ i # Len(L) + 1
      /\ \A i \in 1 .. Len(L) + 1 : i # Len(L) + 1 => i \in 1 .. Len(L)
  BY DEF Longer
<1>3. Mentions(M, x) <=> Mentions(L, x) \/ e.id = x
  BY <1>1, <1>2 DEF Mentions
<1>4. ASSUME NEW r
      PROVE  OnlyInserts(M, x, r) <=>
               OnlyInserts(L, x, r) /\ (e.id = x => e = Entry("insert", x, r))
  BY <1>1, <1>2 DEF OnlyInserts
<1> QED BY <1>3, <1>4

\* What the entries about an id lose with the first entry.
LEMMA TailMentions ==
  ASSUME NEW es \in Seq(Entries), es # <<>>, NEW x
  PROVE  /\ Mentions(es, x) <=> Mentions(Tail(es), x) \/ Head(es).id = x
         /\ \A r : OnlyInserts(es, x, r) <=>
                  /\ OnlyInserts(Tail(es), x, r)
                  /\ Head(es).id = x => Head(es) = Entry("insert", x, r)
<1> DEFINE n == Len(es)
<1>1. /\ n \in Nat /\ n # 0 /\ Len(Tail(es)) = n - 1 /\ Head(es) = es[1]
      /\ \A i \in 1 .. n - 1 : Tail(es)[i] = es[i + 1]
  BY HeadTailProperties, LenProperties, EmptySeq
<1>2. /\ \A i \in 1 .. n : i # 1 => i - 1 \in 1 .. n - 1 /\ Tail(es)[i - 1] = es[i]
      /\ \A i \in 1 .. n - 1 : i + 1 \in 1 .. n
      /\ 1 \in 1 .. n
  BY <1>1
<1>3. Mentions(es, x) <=> Mentions(Tail(es), x) \/ Head(es).id = x
  <2>1. ASSUME Mentions(es, x), Head(es).id # x
        PROVE  Mentions(Tail(es), x)
    <3>1. PICK i \in 1 .. n : es[i].id = x
      BY <2>1 DEF Mentions
    <3>2. i # 1
      BY <1>1, <2>1, <3>1
    <3> QED BY <1>1, <1>2, <3>1, <3>2 DEF Mentions
  <2>2. ASSUME Mentions(Tail(es), x)  PROVE Mentions(es, x)
    BY <1>1, <1>2, <2>2 DEF Mentions
  <2>3. ASSUME Head(es).id = x  PROVE Mentions(es, x)
    BY <1>1, <1>2, <2>3 DEF Mentions
  <2> QED BY <2>1, <2>2, <2>3
<1>4. ASSUME NEW r
      PROVE  OnlyInserts(es, x, r) <=>
               /\ OnlyInserts(Tail(es), x, r)
               /\ Head(es).id = x => Head(es) = Entry("insert", x, r)
  <2>1. ASSUME OnlyInserts(es, x, r)
        PROVE  /\ OnlyInserts(Tail(es), x, r)
               /\ Head(es).id = x => Head(es) = Entry("insert", x, r)
    BY <1>1, <1>2, <2>1 DEF OnlyInserts
  <2>2. ASSUME OnlyInserts(Tail(es), x, r),
               Head(es).id = x => Head(es) = Entry("insert", x, r),
               NEW i \in 1 .. n, es[i].id = x
        PROVE  es[i] = Entry("insert", x, r)
    <3>1. CASE i = 1
      BY <1>1, <2>2, <3>1
    <3>2. CASE i # 1
      BY <1>1, <1>2, <2>2, <3>2 DEF OnlyInserts
    <3> QED BY <3>1, <3>2
  <2> QED BY <2>1, <2>2 DEF OnlyInserts
<1> QED BY <1>3, <1>4

\* An entry for another id leaves the state of x.
LEMMA OtherEntry ==
  ASSUME NEW L, Len(L) \in Nat, NEW e \in Entries, NEW M, Longer(L, e, M),
         NEW x, e.id # x, NEW pend, NEW t, NEW S, NEW c, Recoverable(x, L, pend, t, S, c)
  PROVE  Recoverable(x, M, pend, t, S, c)
<1>1. ASSUME NEW s, NEW u, Leads(x, s, L, u)
      PROVE  Leads(x, s, M, u)
  BY <1>1, LeadsExtend DEF StepFor
<1>2. /\ Mentions(M, x) <=> Mentions(L, x)
      /\ \A r : OnlyInserts(M, x, r) <=> OnlyInserts(L, x, r)
  BY LongerMentions
<1>3. CASE Untouched(x, L, pend, t, S, c)
  BY <1>1, <1>2, <1>3 DEF Untouched, Recoverable
<1>4. CASE Inserted(x, L, pend, t, S, c)
  BY <1>1, <1>2, <1>4 DEF Inserted, Recoverable
<1>5. CASE Settled(x, L, pend, t, c)
  BY <1>1, <1>5 DEF Settled, Recoverable
<1> QED BY <1>3, <1>4, <1>5 DEF Recoverable

\* A call that took effect and was logged.
LEMMA CallRecoverable ==
  ASSUME NEW L, Len(L) \in Nat, NEW e \in Entries, NEW M, Longer(L, e, M),
         NEW S, NEW c \in State, Recoverable(e.id, L, <<>>, c, S, c), Effective(c, e)
  PROVE  Recoverable(e.id, M, <<>>, Follow(c, e), S, Follow(c, e))
<1> DEFINE x == e.id
           d == Follow(c, e)
<1>1. d \in State /\ StepFor(x, c, e) = d
  BY FollowType DEF StepFor
<1>2. ASSUME NEW s, NEW u, Leads(x, s, L, u)
      PROVE  Leads(x, s, M, Follow(u, e))
  BY <1>2, LeadsExtend DEF StepFor
<1>3. /\ Mentions(M, x)
      /\ \A r : OnlyInserts(M, x, r) <=> OnlyInserts(L, x, r) /\ e = Entry("insert", x, r)
  BY LongerMentions
<1>4. Leads(x, d, <<>>, d)
  BY <1>1, LeadsNowhere
<1>5. CASE Untouched(x, L, <<>>, c, S, c)
  <2>1. e.op = "insert" /\ e.row \in Row /\ e = Entry("insert", x, e.row) /\ d = e.row
    BY <1>5, EntryKinds DEF Effective, Follow, Untouched
  <2>2. OnlyInserts(L, x, d)
    BY <1>5 DEF Untouched, OnlyInserts, Mentions
  <2>3. OnlyInserts(<<>>, x, d)
    BY DEF OnlyInserts
  <2>4. \A s \in State : Leads(x, s, M, IF s = Absent THEN d ELSE s)
    BY <1>2, <1>5, <2>1 DEF Untouched, Follow
  <2>5. d # Absent
    BY <2>1, AbsentIsNoRow
  <2>6. Inserted(x, M, <<>>, d, S, d)
    BY <1>3, <1>5, <2>1, <2>2, <2>3, <2>4, <2>5 DEF Inserted, Untouched
  <2> QED BY <1>1, <2>6 DEF Recoverable
<1>6. CASE Inserted(x, L, <<>>, c, S, c)
  <2>1. c # Absent /\ e.op \in {"update", "delete"}
    BY <1>6, AbsentIsNoRow, EntryKinds DEF Effective, Inserted
  <2>2. ASSUME NEW s \in State
        PROVE  Leads(x, s, M, d)
    <3>1. \E u : u # Absent /\ Leads(x, s, L, u)
      BY <1>6, <2>1 DEF Inserted
    <3>2. \A u : u # Absent => Follow(u, e) = d
      BY <2>1 DEF Follow
    <3> QED BY <1>2, <3>1, <3>2
  <2> QED BY <1>1, <1>4, <2>2 DEF Recoverable, Settled
<1>7. CASE Settled(x, L, <<>>, c, c)
  BY <1>1, <1>2, <1>4, <1>7 DEF Recoverable, Settled
<1> QED BY <1>5, <1>6, <1>7 DEF Recoverable

\* A crash: the process starts from an image, or from nothing.
LEMMA RestartRecoverable ==
  ASSUME NEW x, NEW L, NEW c, NEW S, Recoverable(x, L, <<>>, c, S, c),
         NEW s \in State, s \in S \cup {Absent}, NEW T, T \subseteq S
  PROVE  Recoverable(x, L, L, s, T, c)
<1>1. CASE Untouched(x, L, <<>>, c, S, c)
  BY <1>1 DEF Untouched, Recoverable
<1>2. CASE Inserted(x, L, <<>>, c, S, c)
  BY <1>2 DEF Inserted, Recoverable
<1>3. CASE Settled(x, L, <<>>, c, c)
  BY <1>3 DEF Settled, Recoverable
<1> QED BY <1>1, <1>2, <1>3 DEF Recoverable

\* A save: the image has what the table has.
LEMMA SaveRecoverable ==
  ASSUME NEW x, NEW L, NEW c, NEW S, Recoverable(x, L, <<>>, c, S, c),
         NEW T, T \subseteq S \cup {c}
  PROVE  Recoverable(x, L, <<>>, c, T, c)
BY DEF Recoverable, Untouched, Inserted, Settled

\* When nothing is left to replay, the id has what it should have.
LEMMA Recovered ==
  ASSUME NEW x, NEW L, NEW t, NEW S, NEW c, Recoverable(x, L, <<>>, t, S, c)
  PROVE  t = c
<1>1. ~Mentions(<<>>, x)
  BY DEF Mentions
<1>2. CASE Settled(x, L, <<>>, t, c)
  BY <1>2, LeadsNowhere DEF Settled, Recoverable
<1> QED BY <1>1, <1>2 DEF Recoverable, Untouched, Inserted

\* Replaying an entry about the id, which is logged again if it is effective.
LEMMA ReplayRecoverable ==
  ASSUME NEW L, Len(L) \in Nat, NEW pend \in Seq(Entries), pend # <<>>,
         NEW M, NEW t, NEW S, NEW c, Recoverable(Head(pend).id, L, pend, t, S, c),
         IF Effective(t, Head(pend)) THEN Longer(L, Head(pend), M) ELSE M = L
  PROVE  Recoverable(Head(pend).id, M, Tail(pend), Follow(t, Head(pend)), S, c)
<1> DEFINE e == Head(pend)
           x == e.id
           u == Follow(t, e)
<1>0. e \in Entries
  BY HeadTailProperties
<1>1. t \in State /\ c \in State /\ u \in State /\ StepFor(x, t, e) = u
  BY <1>0, FollowType DEF StepFor, Recoverable
<1>2. Mentions(pend, x)
  BY TailMentions
<1>3. ~Untouched(x, L, pend, t, S, c)
  BY <1>2 DEF Untouched
<1>4. CASE Inserted(x, L, pend, t, S, c)
  <2>1. e = Entry("insert", x, c) /\ OnlyInserts(Tail(pend), x, c)
    BY <1>4, TailMentions DEF Inserted
  <2>2. e.op = "insert" /\ e.row = c
    BY <2>1 DEF Entry
  <2>3. c \in Row /\ c # Absent /\ u = c /\ t \in {Absent, c}
    BY <1>4, <2>2, AbsentIsNoRow DEF Inserted, Follow
  <2>4. CASE Effective(t, e)
    <3>1. Longer(L, e, M)
      BY <2>4
    <3>2. /\ Mentions(M, x)
          /\ OnlyInserts(M, x, c)
      BY <1>4, <2>1, <3>1, LongerMentions DEF Inserted
    <3>3. ASSUME NEW s \in State
          PROVE  Leads(x, s, M, IF s = Absent THEN c ELSE s)
      <4> DEFINE y == IF s = Absent THEN c ELSE s
      <4>1. Leads(x, s, L, y)
        BY <1>4 DEF Inserted
      <4>2. StepFor(x, y, e) = y
        BY <2>2, <2>3 DEF StepFor, Follow
      <4> QED BY <1>0, <3>1, <4>1, <4>2, LeadsExtend
    <3> QED BY <1>1, <1>4, <2>1, <2>3, <3>2, <3>3 DEF Inserted, Recoverable
  <2>5. CASE ~Effective(t, e)
    BY <1>1, <1>4, <2>1, <2>3, <2>5 DEF Inserted, Recoverable
  <2> QED BY <2>4, <2>5
<1>5. CASE Settled(x, L, pend, t, c)
  <2>1. Leads(x, u, Tail(pend), c)
    BY <1>1, <1>5, LeadsTail DEF Settled
  <2>2. PICK y \in {t, c} : \A s \in State : Leads(x, s, L, y)
    BY <1>5 DEF Settled
  <2>3. CASE Effective(t, e)
    <3>1. \A s \in State : Leads(x, s, M, Follow(y, e))
      BY <1>0, <2>2, <2>3, LeadsExtend DEF StepFor
    <3>2. Follow(y, e) \in {u, c}
      BY <1>0, <2>2, <2>3, EntryKinds DEF Effective, Follow
    <3> QED BY <1>1, <2>1, <3>1, <3>2 DEF Settled, Recoverable
  <2>4. CASE ~Effective(t, e)
    <3>1. u = t
      BY <1>0, <1>1, <2>4, NotEffective
    <3> QED BY <1>1, <2>1, <2>2, <2>4, <3>1 DEF Settled, Recoverable
  <2> QED BY <2>3, <2>4
<1> QED BY <1>3, <1>4, <1>5 DEF Recoverable

\* Replaying an entry about another id.
LEMMA ReplayOther ==
  ASSUME NEW L, Len(L) \in Nat, NEW pend \in Seq(Entries), pend # <<>>,
         NEW M, NEW x, NEW t, NEW S, NEW c, Recoverable(x, L, pend, t, S, c), Head(pend).id # x,
         Longer(L, Head(pend), M) \/ M = L
  PROVE  Recoverable(x, M, Tail(pend), t, S, c)
<1>1. Head(pend) \in Entries
  BY HeadTailProperties
<1>2. /\ Mentions(pend, x) <=> Mentions(Tail(pend), x)
      /\ \A r : OnlyInserts(pend, x, r) <=> OnlyInserts(Tail(pend), x, r)
  BY TailMentions
<1>3. Leads(x, t, pend, c) => Leads(x, t, Tail(pend), c)
  BY LeadsTail DEF StepFor
<1>4. Recoverable(x, L, Tail(pend), t, S, c)
  BY <1>2, <1>3 DEF Recoverable, Untouched, Inserted, Settled
<1> QED BY <1>1, <1>4, OtherEntry

-----------------------------------------------------------------------------
(* What the calls do to the contents *)

\* A call keeps the table's invariant, puts no row under an id that its entries
\* do not name, and logs all its entries or none.
Honest(t, o) ==
  /\ Inv(o.t)
  /\ o.did \in Seq(Entries)
  /\ o.logged = o.did \/ o.logged = <<>>
  /\ Contents(o.t) \subseteq Contents(t) \cup Rows(o.did)

\* A record built by Entry is an entry.
LEMMA EntryType ==
  ASSUME NEW id \in Id, NEW row \in Row
  PROVE  /\ Entry("insert", id, row) \in Entries
         /\ Entry("update", id, row) \in Entries
         /\ Entry("delete", id, NoRow) \in Entries
<1> HIDE DEF Id, Row
<1> QED BY DEF Entries, Entry

\* A record of its contents, for each position of a table.
LEMMA InContents ==
  ASSUME NEW t, NEW p \in Positions(t)
  PROVE  [id |-> t.ids[p], row |-> t.data[p]] \in Contents(t)
BY DEF Contents

\* The rows of entries, by the places of the entries.
LEMMA RowsByPlace ==
  ASSUME NEW es \in Seq(Entries)
  PROVE  Rows(es) = {[id |-> es[i].id, row |-> es[i].row] :
                      i \in {j \in 1 .. Len(es) : es[j].op # "delete"}}
<1>1. DOMAIN es = 1 .. Len(es)
  BY LenProperties
<1> QED BY <1>1 DEF Rows, Range

\* One entry with a row.
LEMMA RowsOfOne ==
  ASSUME NEW op \in {"insert", "update"}, NEW id \in Id, NEW row \in Row
  PROVE  Rows(<<Entry(op, id, row)>>) = {[id |-> id, row |-> row]}
<1> DEFINE es == <<Entry(op, id, row)>>
<1>1. Entry(op, id, row) \in Entries
  BY EntryType
<1>2. es \in Seq(Entries) /\ Len(es) = 1 /\ es[1] = Entry(op, id, row)
  BY <1>1
<1>3. es[1].op # "delete" /\ es[1].id = id /\ es[1].row = row
  BY <1>2 DEF Entry
<1>4. {j \in 1 .. Len(es) : es[j].op # "delete"} = {1}
  BY <1>2, <1>3
<1> HIDE DEF es
<1>5. Rows(es) = {[id |-> es[i].id, row |-> es[i].row] : i \in {1}}
  BY <1>2, <1>4, RowsByPlace
<1> QED BY <1>3, <1>5 DEF es

\* No entry has no rows.
LEMMA RowsOfNone == Rows(<<>>) = {}
<1>1. <<>> \in Seq(Entries) /\ Len(<<>>) = 0
  OBVIOUS
<1>2. {j \in 1 .. 0 : <<>>[j].op # "delete"} = {}
  OBVIOUS
<1> QED BY <1>1, <1>2, RowsByPlace

\* Appending rows adds them to the contents and nothing else.
LEMMA AppendedContents ==
  ASSUME NEW t, Inv(t), NEW newIds, NEW rows, NEW kinds, NEW w,
         Appended(t, newIds, rows, kinds, w)
  PROVE  Contents(w) \subseteq
           Contents(t) \cup {[id |-> newIds[i], row |-> rows[i]] : i \in 1 .. Len(rows)}
<1> DEFINE n == Len(t.ids)
           k == Len(rows)
<1>1. n \in Nat /\ k \in Nat /\ Len(w.ids) = n + k
  BY Fields DEF Appended
<1>2. ASSUME NEW p \in 1 .. n + k
      PROVE  [id |-> w.ids[p], row |-> w.data[p]] \in
               Contents(t) \cup {[id |-> newIds[i], row |-> rows[i]] : i \in 1 .. k}
  <2>1. CASE p <= n
    <3>1. p \in Positions(t) /\ w.ids[p] = t.ids[p] /\ w.data[p] = t.data[p]
      BY <1>1, <2>1 DEF Appended, Positions
    <3> QED BY <3>1, InContents
  <2>2. CASE ~(p <= n)
    <3>1. p - n \in 1 .. k /\ w.ids[p] = newIds[p - n] /\ w.data[p] = rows[p - n]
      BY <1>1, <2>2 DEF Appended
    <3> QED BY <3>1
  <2> QED BY <2>1, <2>2
<1> QED BY <1>1, <1>2 DEF Contents, Positions

\* Leaving the sequential mode moves no row.
LEMMA LeaveSequentialContents ==
  ASSUME NEW t, Inv(t)
  PROVE  Contents(LeaveSequential(t)) = Contents(t)
BY LeaveSequentialInv DEF Contents, Positions

\* What writing a row leaves and changes.
LEMMA WriteRowFields ==
  ASSUME NEW t, Inv(t), NEW p \in Positions(t), NEW id, NEW row
  PROVE  LET u == WriteRow(t, p, id, row)
         IN  /\ u.ids = t.ids /\ u.idMap = t.idMap
             /\ \A q \in Positions(t) : u.data[q] = IF q = p THEN row ELSE t.data[q]
<1> DEFINE u == WriteRow(t, p, id, row)
<1>1. /\ DOMAIN t.data = 1 .. Len(t.data) /\ Len(t.data) = Len(t.ids)
      /\ Positions(t) = 1 .. Len(t.ids)
  BY Fields, LenProperties
<1>2. u.ids = t.ids /\ u.idMap = t.idMap /\ u.data = [t.data EXCEPT ![p] = row]
  BY DEF WriteRow, Inv, Good, TableRecord
<1> HIDE DEF u
<1>3. \A q \in Positions(t) : u.data[q] = IF q = p THEN row ELSE t.data[q]
  BY <1>1, <1>2
<1> QED BY <1>2, <1>3 DEF u

\* Writing a row replaces the row of that position.
LEMMA WriteRowContents ==
  ASSUME NEW t, Inv(t), NEW p \in Positions(t), NEW id, NEW row
  PROVE  Contents(WriteRow(t, p, id, row))
           \subseteq Contents(t) \cup {[id |-> t.ids[p], row |-> row]}
<1> DEFINE w == WriteRow(t, p, id, row)
<1>1. w.ids = t.ids /\ \A q \in Positions(t) : w.data[q] = IF q = p THEN row ELSE t.data[q]
  BY WriteRowFields
<1> HIDE DEF w
<1>2. ASSUME NEW q \in Positions(t)
      PROVE  [id |-> w.ids[q], row |-> w.data[q]]
               \in Contents(t) \cup {[id |-> t.ids[p], row |-> row]}
  BY <1>1, InContents
<1> QED BY <1>1, <1>2 DEF Contents, Positions, w

\* A deletion puts no row anywhere.
LEMMA DeleteContents ==
  ASSUME NEW t, Inv(t), NEW id \in Id
  PROVE  Contents(Delete(t, id)) \subseteq Contents(t)
<1> DEFINE w == Delete(t, id)
<1>1. CASE GetIndex(t, id) = 0
  BY <1>1 DEF Delete
<1>2. CASE GetIndex(t, id) # 0
  <2> DEFINE n == Len(t.ids)
  <2>1. RowGone(t, id, w)
    BY <1>2, DeleteFields
  <2>2. /\ n \in Nat /\ n # 0 /\ Positions(w) = 1 .. n - 1
        /\ \A q \in Positions(w) : \E r \in Positions(t) :
             w.ids[q] = t.ids[r] /\ w.data[q] = t.data[r]
    <3> HIDE DEF w
    <3>1. /\ n \in Nat /\ n # 0 /\ Positions(w) = 1 .. n - 1
          /\ GetIndex(t, id) \in 1 .. n
      BY <2>1 DEF RowGone, Positions
    <3>2. ASSUME NEW q \in 1 .. n - 1
          PROVE  \E r \in 1 .. n : w.ids[q] = t.ids[r] /\ w.data[q] = t.data[r]
      <4>1. q \in 1 .. n /\ n \in 1 .. n
        BY <3>1
      <4>2. CASE q = GetIndex(t, id)
        BY <2>1, <4>1, <4>2 DEF RowGone
      <4>3. CASE q # GetIndex(t, id)
        BY <2>1, <4>1, <4>3 DEF RowGone
      <4> QED BY <4>2, <4>3
    <3> QED BY <3>1, <3>2 DEF Positions
  <2> HIDE DEF w
  <2>3. ASSUME NEW q \in Positions(w)
        PROVE  [id |-> w.ids[q], row |-> w.data[q]] \in Contents(t)
    BY <2>2, InContents
  <2> QED BY <2>3 DEF Contents, w
<1> QED BY <1>1, <1>2

\* A set of numbers that has 0 and with every number the next one has them all.
LEMMA Counting ==
  ASSUME NEW S, 0 \in S, \A n \in Nat : n \in S => n + 1 \in S
  PROVE  \A n \in Nat : n \in S
<1> DEFINE B == {n \in Nat : n \notin S}
<1> SUFFICES ASSUME B # {}  PROVE FALSE
  OBVIOUS
<1>1. PICK m \in B : \A k \in B : m <= k
  BY LeastElement
<1>2. m \in Nat /\ m \notin S /\ m # 0
  BY <1>1
<1>3. m - 1 \in Nat /\ m - 1 + 1 = m /\ ~(m <= m - 1)
  BY <1>2
<1>4. m - 1 \notin B
  <2> HIDE DEF B
  <2> QED BY <1>1, <1>3
<1> QED BY <1>2, <1>3, <1>4

\* The entry of an insert names the row it appends.
LEMMA HonestInsertAs ==
  ASSUME NEW t, Inv(t), NEW id \in Id, NEW row \in Row
  PROVE  Honest(t, InsertAs(t, id, row))
<1> DEFINE o == InsertAs(t, id, row)
           u == LeaveSequential(t)
           w == AppendRows(u, <<id>>, <<row>>, {"unique"})
<1>1. Inv(o.t) /\ o.t = InsertCustom(t, id, row) /\ o.logged = o.did
  BY InsertCustomInv DEF InsertAs, Outcome
<1>2. CASE IsDuplicate(t, id)
  <2>1. o.t = u /\ o.did = <<>>
    BY <1>2 DEF InsertAs, Outcome, InsertCustom
  <2>2. o.did \in Seq(Entries)
    BY <2>1
  <2>3. Contents(u) = Contents(t)
    BY LeaveSequentialContents
  <2>4. Honest(t, o)
    <3> HIDE DEF o, u
    <3> QED BY <1>1, <2>1, <2>2, <2>3 DEF Honest
  <2> QED BY <2>4
<1>3. CASE ~IsDuplicate(t, id)
  <2>1. o.t = w /\ o.did = <<Entry("insert", id, row)>>
    BY <1>3 DEF InsertAs, Outcome, InsertCustom
  <2>2. o.did \in Seq(Entries) /\ Rows(o.did) = {[id |-> id, row |-> row]}
    BY <2>1, EntryType, RowsOfOne
  <2>3. Inv(u) /\ Contents(u) = Contents(t)
    BY LeaveSequentialInv, LeaveSequentialContents
  <2>4. <<id>> \in Seq(Id) /\ <<row>> \in Seq(Row) /\ Len(<<id>>) = 1 /\ Len(<<row>>) = 1
    BY DEF Id
  <2>5. Contents(w) \subseteq Contents(u) \cup {[id |-> <<id>>[i], row |-> <<row>>[i]] : i \in 1 .. 1}
    <3> HIDE DEF u
    <3>1. Appended(u, <<id>>, <<row>>, {"unique"}, w)
      BY <2>3, <2>4, AppendRowsFieldwise
    <3> HIDE DEF w
    <3> QED BY <2>3, <2>4, <3>1, AppendedContents
  <2>6. {[id |-> <<id>>[i], row |-> <<row>>[i]] : i \in 1 .. 1} = {[id |-> id, row |-> row]}
    OBVIOUS
  <2>7. Honest(t, o)
    <3> HIDE DEF o, w, u
    <3> QED BY <1>1, <2>1, <2>2, <2>3, <2>5, <2>6 DEF Honest
  <2> QED BY <2>7
<1> QED BY <1>2, <1>3

\* Automatic ids: each row has an entry with the id it got.
LEMMA HonestAppendAuto ==
  ASSUME NEW t, Inv(t), NEW rows \in Seq(Row), NEW kinds, t.nextId + Len(rows) <= AutoLimit,
         NEW es, es = [i \in 1 .. Len(rows) |-> Entry("insert", t.nextId + i - 1, rows[i])],
         NEW logged, logged = es \/ logged = <<>>
  PROVE  Honest(t, Outcome(AppendAuto(t, rows, kinds), es, logged))
<1> DEFINE w == AppendAuto(t, rows, kinds)
           k == Len(rows)
           news == {[id |-> FreshIds(t, k)[i], row |-> rows[i]] : i \in 1 .. k}
<1>1. Inv(w) /\ Contents(w) \subseteq Contents(t) \cup news
  <2>1. Inv(w)
    BY AppendAutoInv
  <2>2. Appended(t, FreshIds(t, k), rows, kinds, w)
    BY AppendAutoFieldwise
  <2> HIDE DEF w
  <2> QED BY <2>1, <2>2, AppendedContents
<1>2. k \in Nat /\ t.nextId \in Nat /\ AutoLimit \in Nat
  BY Fields, LenProperties, AutoLimitAssumption
<1>3. ASSUME NEW i \in 1 .. k
      PROVE  /\ es[i] \in Entries /\ es[i].op # "delete"
             /\ es[i].id = FreshIds(t, k)[i] /\ es[i].row = rows[i]
  <2>1. rows[i] \in Row
    BY ElementOfSeq
  <2>2. t.nextId + i - 1 \in Id
    BY <1>2 DEF Id
  <2>3. es[i] = Entry("insert", t.nextId + i - 1, rows[i])
    OBVIOUS
  <2>4. es[i] \in Entries
    BY <2>1, <2>2, <2>3, EntryType
  <2> QED BY <2>3, <2>4 DEF Entry, FreshIds
<1>4. es \in Seq(Entries) /\ Len(es) = k
  <2>1. es \in [1 .. k -> Entries]
    <3> HIDE DEF Entries
    <3> QED BY <1>3
  <2>2. k \in Nat
    BY <1>2
  <2> HIDE DEF Entries, k, w, news
  <2> QED BY <2>1, <2>2, IsASeq
<1>5. Rows(es) = news
  <2>1. {j \in 1 .. Len(es) : es[j].op # "delete"} = 1 .. k
    BY <1>3, <1>4
  <2>2. Rows(es) = {[id |-> es[i].id, row |-> es[i].row] : i \in 1 .. k}
    BY <1>4, <2>1, RowsByPlace
  <2>3. \A i \in 1 .. k : es[i].id = FreshIds(t, k)[i] /\ es[i].row = rows[i]
    BY <1>3
  <2>4. {[id |-> es[i].id, row |-> es[i].row] : i \in 1 .. k} = news
    BY <2>3, Zenon
  <2> QED BY <2>2, <2>4
<1> HIDE DEF w, news
<1> QED BY <1>1, <1>4, <1>5 DEF Honest, Outcome, w

\* insert_row without an id puts one row under the next id.
LEMMA HonestInsertAuto ==
  ASSUME Inv(table), NEW row \in Row, table.nextId + 1 <= AutoLimit
  PROVE  Honest(table, InsertAuto(row))
<1> DEFINE e == <<Entry("insert", table.nextId, row)>>
<1>1. <<row>> \in Seq(Row) /\ Len(<<row>>) = 1 /\ table.nextId \in Nat
  BY Fields
<1>2. e = [i \in 1 .. Len(<<row>>) |-> Entry("insert", table.nextId + i - 1, <<row>>[i])]
  <2> DEFINE f == [i \in 1 .. Len(<<row>>) |-> Entry("insert", table.nextId + i - 1, <<row>>[i])]
  <2>1. DOMAIN f = 1 .. 1 /\ f[1] = Entry("insert", table.nextId, row)
    BY <1>1
  <2>2. f = [i \in 1 .. 1 |-> Entry("insert", table.nextId, row)]
    <3>1. \A i \in 1 .. 1 : f[i] = Entry("insert", table.nextId, row)
      BY <1>1
    <3> QED BY <1>1, <3>1
  <2> QED BY <2>2
<1> QED
  <2> HIDE DEF e
  <2>1. Honest(table, Outcome(AppendAuto(table, <<row>>, {"unique"}), e, e))
    BY <1>1, <1>2, HonestAppendAuto
  <2> QED BY <2>1 DEF InsertAuto, Insert, e

\* insert_batch puts no rows but the accepted ones, also when a later one fails it.
LEMMA HonestInsertBatch ==
  ASSUME Inv(table), NEW batch \in [1 .. 2 -> Row \cup {BadRow}], table.nextId + 2 <= AutoLimit
  PROVE  Honest(table, InsertBatchOutcome(batch))
<1> DEFINE rows == AcceptedPrefix(batch)
           es == [i \in 1 .. Len(rows) |-> Entry("insert", table.nextId + i - 1, rows[i])]
           l == IF rows = batch THEN es ELSE <<>>
<1>1. rows \in Seq(Row) /\ Len(rows) <= 2
  BY AcceptedPrefixType
<1>2. table.nextId + Len(rows) <= AutoLimit
  <2>1. table.nextId \in Nat /\ Len(rows) \in Nat
    BY <1>1, Fields, LenProperties
  <2> HIDE DEF rows
  <2> QED BY <1>1, <2>1, AutoLimitAssumption
<1>3. Honest(table, Outcome(AppendAuto(table, rows, {}), es, l))
  <2> HIDE DEF rows
  <2> QED BY <1>1, <1>2, HonestAppendAuto
<1> QED BY <1>3 DEF InsertBatchOutcome, InsertBatch

\* What update and update_values write, and what their entry says.
LEMMA HonestWriteRow ==
  ASSUME NEW t, Inv(t), NEW id \in Id, NEW row \in Row, NEW p \in Positions(t), t.ids[p] = id,
         NEW es, es = <<Entry("update", id, row)>>, NEW logged, logged = es \/ logged = <<>>
  PROVE  Honest(t, Outcome(WriteRow(t, p, id, row), es, logged))
<1>1. Inv(WriteRow(t, p, id, row))
  BY WriteRowInv
<1>2. es \in Seq(Entries) /\ Rows(es) = {[id |-> id, row |-> row]}
  BY EntryType, RowsOfOne
<1>3. Contents(WriteRow(t, p, id, row)) \subseteq Contents(t) \cup {[id |-> id, row |-> row]}
  BY WriteRowContents
<1> QED BY <1>1, <1>2, <1>3 DEF Honest, Outcome

\* A call that finds no row does nothing.
LEMMA HonestNothing ==
  ASSUME NEW t, Inv(t)
  PROVE  Honest(t, Outcome(t, <<>>, <<>>))
<1>1. <<>> \in Seq(Entries)
  OBVIOUS
<1> QED BY <1>1 DEF Honest, Outcome

\* update_row puts the new row under the id that has a row, or nothing.
LEMMA HonestUpdate ==
  ASSUME NEW t, Inv(t), NEW id \in Id, NEW row \in Row
  PROVE  Honest(t, UpdateRow(t, id, row))
<1>1. CASE t.idMap[id] = 0
  <2>1. UpdateRow(t, id, row) = Outcome(t, <<>>, <<>>)
    BY <1>1 DEF UpdateRow, Update
  <2> QED BY <2>1, HonestNothing
<1>2. CASE t.idMap[id] # 0
  <2>1. t.idMap[id] \in Positions(t) /\ t.ids[t.idMap[id]] = id
    BY <1>2 DEF Inv, Sound
  <2>2. UpdateRow(t, id, row) =
          Outcome(WriteRow(t, t.idMap[id], id, row), <<Entry("update", id, row)>>,
                  <<Entry("update", id, row)>>)
    BY <1>2 DEF UpdateRow, Update
  <2> QED BY <2>1, <2>2, HonestWriteRow
<1> QED BY <1>1, <1>2

\* update_values does the same, though it logs nothing.
LEMMA HonestUpdateValues ==
  ASSUME Inv(table), NEW id \in Id, NEW row \in Row
  PROVE  Honest(table, UpdateRowValues(id, row))
<1> DEFINE p == GetIndex(table, id)
<1>1. CASE p = 0
  <2>1. UpdateRowValues(id, row) = Outcome(table, <<>>, <<>>)
    BY <1>1 DEF UpdateRowValues, UpdateValues
  <2> QED BY <2>1, HonestNothing
<1>2. CASE p # 0
  <2>1. p \in Positions(table) /\ table.ids[p] = id
    BY <1>2, GetIndexFinds
  <2>2. UpdateRowValues(id, row) =
          Outcome(WriteRow(table, p, id, row), <<Entry("update", id, row)>>, <<>>)
    BY <1>2 DEF UpdateRowValues, UpdateValues
  <2> HIDE DEF p
  <2> QED BY <2>1, <2>2, HonestWriteRow
<1> QED BY <1>1, <1>2

\* The deletions of a batch, one after the other.
LEMMA HonestDelete ==
  ASSUME NEW t, Inv(t), NEW ids \in Seq(Id)
  PROVE  Honest(t, DeleteRows(t, ids))
<1> DEFINE N == Len(ids)
           Fine(b) == /\ Inv(b.t) /\ b.log \in Seq(Entries)
                      /\ Contents(b.t) \subseteq Contents(t)
<1>1. PICK done : /\ DeleteBatch(t, ids) = done[N]
                  /\ done[0] = [t |-> t, log |-> <<>>]
                  /\ \A n \in 1 .. N : done[n] = DeleteStep(done[n - 1], ids[n])
  BY DeleteBatchSteps
<1>2. N \in Nat
  BY LenProperties
<1>3. ASSUME NEW b, Fine(b), NEW id \in Id
      PROVE  Fine(DeleteStep(b, id))
  <2>1. CASE GetIndex(b.t, id) = 0
    BY <1>3, <2>1 DEF DeleteStep
  <2>2. CASE GetIndex(b.t, id) # 0
    <3> DEFINE e == Entry("delete", id, NoRow)
    <3>1. DeleteStep(b, id) = [t |-> Delete(b.t, id), log |-> Append(b.log, e)]
      BY <2>2 DEF DeleteStep
    <3>2. Inv(Delete(b.t, id)) /\ Contents(Delete(b.t, id)) \subseteq Contents(t)
      BY <1>3, DeleteInv, DeleteContents
    <3>3. Append(b.log, e) \in Seq(Entries)
      <4>1. e \in Entries /\ b.log \in Seq(Entries)
        BY <1>3, BadRowAssumption, EntryType DEF Entries, Entry
      <4> HIDE DEF Entries, e
      <4> QED BY <4>1, AppendProperties
    <3> HIDE DEF e
    <3> QED BY <3>1, <3>2, <3>3
  <2> QED BY <2>1, <2>2
<1> DEFINE S == {n \in Nat : n <= N => Fine(done[n])}
<1>4. Fine(done[0])
  <2>1. <<>> \in Seq(Entries)
    OBVIOUS
  <2> QED BY <1>1, <2>1
<1>5. ASSUME NEW n \in Nat, n \in S
      PROVE  n + 1 \in S
  <2>1. CASE n + 1 <= N
    <3>1. Fine(done[n]) /\ n + 1 \in 1 .. N /\ n + 1 - 1 = n
      BY <1>2, <1>5, <2>1
    <3>2. ids[n + 1] \in Id /\ done[n + 1] = DeleteStep(done[n], ids[n + 1])
      BY <1>1, <3>1, ElementOfSeq
    <3> HIDE DEF Fine
    <3> QED BY <1>3, <3>1, <3>2
  <2> QED BY <2>1
<1>6. Fine(done[N])
  <2>1. 0 \in S
    BY <1>4
  <2>2. \A n \in Nat : n \in S
    <3> HIDE DEF S
    <3> QED BY <1>5, <2>1, Counting
  <2> HIDE DEF Fine
  <2> QED BY <1>2, <2>2
<1>7. DeleteRows(t, ids) = Outcome(done[N].t, done[N].log, done[N].log)
  BY <1>1 DEF DeleteRows
<1> QED BY <1>6, <1>7 DEF Honest, Outcome

\* A replayed entry is what the replaying call does, if it does anything.
LEMMA ReplayDid ==
  ASSUME NEW t, Inv(t), NEW e \in Entries
  PROVE  /\ Honest(t, Replay(t, e))
         /\ Replay(t, e).logged = Replay(t, e).did
         /\ Replay(t, e).did = <<>> \/ Replay(t, e).did = <<e>>
<1>1. e.id \in Id
  BY EntryKinds
<1>2. CASE e.op = "insert"
  <2>1. e.row \in Row /\ e = Entry("insert", e.id, e.row)
    BY <1>2, EntryKinds
  <2>2. Replay(t, e) = InsertAs(t, e.id, e.row)
    BY <1>2 DEF Replay
  <2>3. Honest(t, InsertAs(t, e.id, e.row))
    BY <1>1, <2>1, HonestInsertAs
  <2> QED BY <2>1, <2>2, <2>3 DEF InsertAs, Outcome
<1>3. CASE e.op = "update"
  <2>1. e.row \in Row /\ e = Entry("update", e.id, e.row)
    BY <1>3, EntryKinds
  <2>2. Replay(t, e) = UpdateRow(t, e.id, e.row)
    BY <1>3 DEF Replay
  <2>3. Honest(t, UpdateRow(t, e.id, e.row))
    BY <1>1, <2>1, HonestUpdate
  <2> QED BY <2>1, <2>2, <2>3 DEF UpdateRow, Outcome
<1>4. CASE e.op = "delete"
  <2>1. e = Entry("delete", e.id, NoRow)
    BY <1>4, EntryKinds
  <2>2. Replay(t, e) = DeleteRows(t, <<e.id>>)
    BY <1>4 DEF Replay
  <2>3. <<e.id>> \in Seq(Id) /\ Len(<<e.id>>) = 1 /\ <<e.id>>[1] = e.id
    BY <1>1 DEF Id
  <2>4. Honest(t, DeleteRows(t, <<e.id>>))
    BY <2>3, HonestDelete
  <2>5. PICK done : /\ DeleteBatch(t, <<e.id>>) = done[1]
                    /\ done[0] = [t |-> t, log |-> <<>>]
                    /\ done[1] = DeleteStep(done[0], e.id)
    <3> DEFINE ids == <<e.id>>
    <3> HIDE DEF ids
    <3>1. ids \in Seq(Id) /\ Len(ids) = 1 /\ ids[1] = e.id
      BY <2>3 DEF ids
    <3>2. PICK done : /\ DeleteBatch(t, ids) = done[Len(ids)]
                      /\ done[0] = [t |-> t, log |-> <<>>]
                      /\ \A n \in 1 .. Len(ids) : done[n] = DeleteStep(done[n - 1], ids[n])
      BY <3>1, DeleteBatchSteps
    <3>3. DeleteBatch(t, ids) = done[1] /\ done[1] = DeleteStep(done[0], e.id)
      BY <3>1, <3>2
    <3> QED BY <3>2, <3>3 DEF ids
  <2>6. done[1].log = <<>> \/ done[1].log = <<e>>
    BY <2>1, <2>5 DEF DeleteStep
  <2> QED BY <2>2, <2>4, <2>5, <2>6 DEF DeleteRows, Outcome
<1> QED BY <1>2, <1>3, <1>4, EntryKinds

-----------------------------------------------------------------------------
(* The files *)

\* The entries whose rows are in W.
Known(W) == {e \in Entries : e.op # "delete" => [id |-> e.id, row |-> e.row] \in W}

\* A log of such entries and of lines that do not parse.
LogFile(f, W) ==
  /\ f \in [lines : Seq(Known(W) \cup {Garbage}), open : BOOLEAN]
  /\ f.open => f.lines # <<>>

\* A database file that, if it is complete, holds a sound table with rows of W.
ImageFile(f, W) == IsImage(f) => Inv(Rebuild(f)) /\ Contents(Rebuild(f)) \subseteq W

\* Both database files are such files.
DiskFiles(d, W) ==
  /\ d = [path |-> d.path, bak |-> d.bak]
  /\ ImageFile(d.path, W) /\ ImageFile(d.bak, W)

\* Entries are known with their own rows.
LEMMA KnownOwn ==
  ASSUME NEW es \in Seq(Entries), NEW W, Rows(es) \subseteq W
  PROVE  es \in Seq(Known(W))
<1>1. ASSUME NEW i \in 1 .. Len(es)
      PROVE  es[i] \in Known(W)
  <2>1. es[i] \in Entries
    BY ElementOfSeq
  <2>2. es[i].op # "delete" => [id |-> es[i].id, row |-> es[i].row] \in Rows(es)
    BY RowsByPlace
  <2> QED BY <2>1, <2>2 DEF Known
<1> HIDE DEF Known
<1> QED BY <1>1, LenProperties, IsASeq

\* More rows, more known entries.
LEMMA KnownMonotone ==
  ASSUME NEW W, NEW V, W \subseteq V
  PROVE  /\ Seq(Known(W)) \subseteq Seq(Known(V))
         /\ \A f : LogFile(f, W) => LogFile(f, V)
         /\ \A d : DiskFiles(d, W) => DiskFiles(d, V)
<1>1. Known(W) \subseteq Known(V)
  BY DEF Known
<1>2. Seq(Known(W)) \subseteq Seq(Known(V))
  <2> HIDE DEF Known
  <2> QED BY <1>1, SeqMonotonic
<1>3. Seq(Known(W) \cup {Garbage}) \subseteq Seq(Known(V) \cup {Garbage})
  <2>1. Known(W) \cup {Garbage} \subseteq Known(V) \cup {Garbage}
    BY <1>1
  <2> HIDE DEF Known
  <2> QED BY <2>1, SeqMonotonic
<1>4. ASSUME NEW f, LogFile(f, W)
      PROVE  LogFile(f, V)
  <2> HIDE DEF Known
  <2> QED BY <1>3, <1>4 DEF LogFile
<1>5. ASSUME NEW d, DiskFiles(d, W)
      PROVE  DiskFiles(d, V)
  BY <1>5 DEF DiskFiles, ImageFile
<1> QED BY <1>2, <1>4, <1>5

\* What append makes of a log.
LEMMA WrittenLog ==
  ASSUME NEW f, NEW W, LogFile(f, W), NEW es \in Seq(Known(W) \cup {Garbage})
  PROVE  /\ LogFile(Written(f, es), W)
         /\ es # <<>> => Written(f, es).lines # <<>>
<1> DEFINE Line == Known(W) \cup {Garbage}
           g == Written(f, es)
<1> HIDE DEF Line
<1>1. f.lines \in Seq(Line) /\ es \in Seq(Line) /\ Garbage \in Line
  BY DEF LogFile, Line
<1>2. CASE es = <<>>
  BY <1>2 DEF Written
<1>3. CASE es # <<>> /\ f.open
  <2>1. g = [lines |-> Append(Front(f.lines), Garbage) \o Tail(es), open |-> FALSE]
    BY <1>3 DEF Written
  <2>2. f.lines # <<>>
    BY <1>3 DEF LogFile
  <2>3. Front(f.lines) \in Seq(Line) /\ Tail(es) \in Seq(Line)
    <3>1. Len(f.lines) \in Nat /\ Len(f.lines) # 0
      BY <1>1, <2>2, LenProperties, EmptySeq
    <3> QED BY <1>1, <1>3, <3>1, SubSeqProperties, HeadTailProperties DEF Front
  <2>4. Append(Front(f.lines), Garbage) \in Seq(Line)
        /\ Len(Append(Front(f.lines), Garbage)) = Len(Front(f.lines)) + 1
    BY <1>1, <2>3, AppendProperties
  <2> DEFINE a == Append(Front(f.lines), Garbage)
  <2>5. a \o Tail(es) \in Seq(Line) /\ a \o Tail(es) # <<>>
    <3>1. Len(a) \in Nat /\ Len(a) # 0
      BY <2>3, <2>4, LenProperties
    <3>2. a # <<>>
      BY <2>4, <3>1, EmptySeq
    <3> HIDE DEF a
    <3> QED BY <2>3, <2>4, <3>2, ConcatProperties, ConcatEqualIffEmpty, ConcatLookup DEF a
  <2> QED BY <2>1, <2>5 DEF LogFile, Line
<1>4. CASE es # <<>> /\ ~f.open
  <2>1. g = [lines |-> f.lines \o es, open |-> FALSE]
    BY <1>4 DEF Written
  <2>2. f.lines \o es \in Seq(Line) /\ f.lines \o es # <<>>
    <3>1. Len(f.lines \o es) = Len(f.lines) + Len(es) /\ Len(f.lines) \in Nat /\ Len(es) \in Nat
      BY <1>1, ConcatLookup, LenProperties
    <3>2. Len(es) # 0
      BY <1>1, <1>4, EmptySeq
    <3> QED BY <1>1, <3>1, <3>2, ConcatProperties
  <2> QED BY <2>1, <2>2 DEF LogFile, Line
<1> QED BY <1>2, <1>3, <1>4

\* A torn append leaves such a log too, now with an unfinished line.
LEMMA InterruptedLog ==
  ASSUME NEW f, NEW W, LogFile(f, W), NEW e \in Known(W), NEW g \in Interrupted(f, e)
  PROVE  LogFile(g, W)
<1>1. ASSUME NEW x \in Known(W) \cup {Garbage}
      PROVE  LogFile([Written(f, <<x>>) EXCEPT !.open = TRUE], W)
  <2> HIDE DEF Known
  <2>1. <<x>> \in Seq(Known(W) \cup {Garbage}) /\ <<x>> # <<>>
    OBVIOUS
  <2>2. LogFile(Written(f, <<x>>), W) /\ Written(f, <<x>>).lines # <<>>
    BY <2>1, WrittenLog
  <2> QED BY <2>2 DEF LogFile
<1>2. Interrupted(f, e) = {f, [Written(f, <<Garbage>>) EXCEPT !.open = TRUE],
                           [Written(f, <<e>>) EXCEPT !.open = TRUE]}
  BY DEF Interrupted
<1> QED BY <1>1, <1>2

\* What recovery reads of it.
LEMMA ReadAllKnown ==
  ASSUME NEW f, NEW W, LogFile(f, W)
  PROVE  ReadAll(f) \in Seq(Known(W))
<1> HIDE DEF Known
<1>1. CASE Garbage \in Range(f.lines)
  <2>1. ReadAll(f) = <<>>
    BY <1>1 DEF ReadAll
  <2> QED BY <2>1
<1>2. CASE Garbage \notin Range(f.lines)
  <2>1. f.lines \in Seq(Known(W) \cup {Garbage})
    BY DEF LogFile
  <2>2. \A i \in 1 .. Len(f.lines) : f.lines[i] \in Known(W)
    <3>1. DOMAIN f.lines = 1 .. Len(f.lines)
      BY <2>1, LenProperties
    <3> QED BY <1>2, <2>1, <3>1, ElementOfSeq DEF Range
  <2>3. f.lines \in Seq(Known(W))
    BY <2>1, <2>2, LenProperties, IsASeq
  <2> QED BY <1>2, <2>3 DEF ReadAll
<1> QED BY <1>1, <1>2

\* The pairs of id_map bring the whole of it back.
LEMMA ArchiveRebuilt ==
  ASSUME NEW t \in TableRecord
  PROVE  /\ Rebuild(Archive(t)) = t
         /\ Archive(t) \in [t : TableRecord, idMapData : SUBSET [id : Id, at : Nat]]
<1> HIDE DEF Id
<1> DEFINE a == Archive(t)
           m == [id \in Id |-> IF \E e \in a.idMapData : e.id = id
                               THEN (CHOOSE e \in a.idMapData : e.id = id).at ELSE 0]
<1>1. t.idMap \in [Id -> Nat]
  BY DEF TableRecord
<1>2. a.idMapData = {[id |-> id, at |-> t.idMap[id]] : id \in {x \in Id : t.idMap[x] # 0}}
  BY DEF Archive
<1>3. a.t = [t EXCEPT !.idMap = EmptyTable.idMap]
  BY DEF Archive
<1>4. ASSUME NEW id \in Id
      PROVE  m[id] = t.idMap[id]
  <2>1. \A e \in a.idMapData : e.id = id => e.at = t.idMap[id] /\ t.idMap[id] # 0
    BY <1>2
  <2>2. CASE t.idMap[id] = 0
    <3>1. ~\E e \in a.idMapData : e.id = id
      BY <2>1, <2>2
    <3> HIDE DEF a
    <3> QED BY <2>2, <3>1
  <2>3. CASE t.idMap[id] # 0
    <3>1. \E e \in a.idMapData : e.id = id
      <4>1. [id |-> id, at |-> t.idMap[id]] \in a.idMapData
        BY <1>2, <2>3
      <4> HIDE DEF a
      <4> QED BY <4>1
    <3> HIDE DEF a
    <3> DEFINE e == CHOOSE x \in a.idMapData : x.id = id
    <3>2. e \in a.idMapData /\ e.id = id
      BY <3>1
    <3>3. m[id] = e.at
      BY <3>1
    <3> HIDE DEF e
    <3> QED BY <2>1, <3>2, <3>3
  <2> QED BY <2>2, <2>3
<1>5. m = t.idMap
  <2>1. m \in [Id -> Nat]
    <3> HIDE DEF a
    <3>1. m = [id \in Id |-> m[id]]
      OBVIOUS
    <3> HIDE DEF m
    <3> QED BY <1>1, <1>4, <3>1
  <2> HIDE DEF m
  <2> QED BY <1>1, <1>4, <2>1
<1>6. Rebuild(a) = [a.t EXCEPT !.idMap = m]
  BY DEF Rebuild
<1>7. [[t EXCEPT !.idMap = EmptyTable.idMap] EXCEPT !.idMap = t.idMap] = t
  BY DEF TableRecord
<1>8. a \in [t : TableRecord, idMapData : SUBSET [id : Id, at : Nat]]
  <2>1. EmptyTable.idMap \in [Id -> Nat]
    BY DEF EmptyTable
  <2>2. a.t \in TableRecord
    <3> HIDE DEF a
    <3> QED BY <1>3, <2>1 DEF TableRecord
  <2>3. a.idMapData \in SUBSET [id : Id, at : Nat]
    <3> HIDE DEF a
    <3> QED BY <1>1, <1>2
  <2>4. a = [t |-> a.t, idMapData |-> a.idMapData]
    BY DEF Archive
  <2> HIDE DEF a
  <2> QED BY <2>2, <2>3, <2>4
<1> HIDE DEF a, m
<1> QED BY <1>3, <1>5, <1>6, <1>7, <1>8 DEF a

\* Two pairs, one after the other.
LEMMA TwoPairs ==
  ASSUME NEW w, NEW x, NEW y, NEW z
  PROVE  <<w, x>> \o <<y, z>> = <<w, x, y, z>>
<1> DEFINE S == {w, x, y, z}
           a == <<w, x>>
           b == <<y, z>>
           c == <<w, x, y, z>>
<1>1. a \in Seq(S) /\ b \in Seq(S) /\ c \in Seq(S) /\ Len(a) = 2 /\ Len(b) = 2 /\ Len(c) = 4
  OBVIOUS
<1>2. a[1] = w /\ a[2] = x /\ b[1] = y /\ b[2] = z
  OBVIOUS
<1>3. c[1] = w /\ c[2] = x /\ c[3] = y /\ c[4] = z
  OBVIOUS
<1> HIDE DEF a, b, c, S
<1>4. /\ a \o b \in Seq(S) /\ Len(a \o b) = 4
      /\ \A p \in 1 .. 4 : (a \o b)[p] = IF p <= 2 THEN a[p] ELSE b[p - 2]
  <2>1. /\ a \o b \in Seq(S) /\ Len(a \o b) = Len(a) + Len(b)
        /\ \A p \in 1 .. Len(a) + Len(b) :
             (a \o b)[p] = IF p <= Len(a) THEN a[p] ELSE b[p - Len(a)]
    BY <1>1, ConcatLookup
  <2>2. Len(a) + Len(b) = 4
    BY <1>1
  <2> QED BY <1>1, <2>1, <2>2
<1>5. \A p \in 1 .. 4 : (a \o b)[p] = c[p]
  <2>1. ASSUME NEW p \in 1 .. 4
        PROVE  (a \o b)[p] = c[p]
    <3>1. p = 1 \/ p = 2 \/ p = 3 \/ p = 4
      OBVIOUS
    <3> QED BY <1>2, <1>3, <1>4, <3>1
  <2> QED BY <2>1
<1>6. a \o b = c
  BY <1>1, <1>4, <1>5, SeqEqual
<1> QED BY <1>6 DEF a, b, c

\* The states of the two files while save runs.
LEMMA SaveStepsStates ==
  ASSUME NEW d, d = [path |-> d.path, bak |-> d.bak], NEW a
  PROVE  /\ d.path = NoFile =>
              SaveSteps(d, a) = <<[path |-> Torn, bak |-> d.bak], [path |-> a, bak |-> d.bak]>>
         /\ d.path # NoFile =>
              SaveSteps(d, a) = <<[path |-> d.path, bak |-> Torn],
                                  [path |-> d.path, bak |-> d.path],
                                  [path |-> Torn, bak |-> d.path],
                                  [path |-> a, bak |-> d.path]>>
<1> DEFINE x == d.path
           y == d.bak
<1>1. /\ [d EXCEPT !.path = Torn] = [path |-> Torn, bak |-> y]
      /\ [d EXCEPT !.path = a] = [path |-> a, bak |-> y]
      /\ [d EXCEPT !.bak = x] = [path |-> x, bak |-> x]
      /\ [d EXCEPT !.bak = Torn] = [path |-> x, bak |-> Torn]
  <2>1. \A p, q, v : /\ [[path |-> p, bak |-> q] EXCEPT !.path = v] = [path |-> v, bak |-> q]
                    /\ [[path |-> p, bak |-> q] EXCEPT !.bak = v] = [path |-> p, bak |-> v]
    OBVIOUS
  <2> QED BY <2>1
<1>2. /\ [[d EXCEPT !.bak = x] EXCEPT !.path = Torn] = [path |-> Torn, bak |-> x]
      /\ [[d EXCEPT !.bak = x] EXCEPT !.path = a] = [path |-> a, bak |-> x]
  <2>1. /\ [[path |-> x, bak |-> x] EXCEPT !.path = Torn] = [path |-> Torn, bak |-> x]
        /\ [[path |-> x, bak |-> x] EXCEPT !.path = a] = [path |-> a, bak |-> x]
    OBVIOUS
  <2> QED BY <1>1, <2>1
<1>3. CASE x = NoFile
  <2>1. SaveSteps(d, a) = <<>> \o <<[d EXCEPT !.path = Torn], [d EXCEPT !.path = a]>>
    BY <1>3 DEF SaveSteps
  <2> QED BY <1>1, <1>3, <2>1
<1>4. CASE x # NoFile
  <2>1. SaveSteps(d, a) = <<[d EXCEPT !.bak = Torn], [d EXCEPT !.bak = x]>>
                           \o <<[[d EXCEPT !.bak = x] EXCEPT !.path = Torn],
                                [[d EXCEPT !.bak = x] EXCEPT !.path = a]>>
    BY <1>4 DEF SaveSteps
  <2> QED BY <1>1, <1>2, <1>4, <2>1, TwoPairs
<1> QED BY <1>3, <1>4

-----------------------------------------------------------------------------
(* Every row comes from a call *)

\* Where the rows are: in the table, in the log and what of it is still to be
\* replayed, and in the two files.  All of them were written by some call.
WInv ==
  /\ profile \in Profile
  /\ Inv(table)
  /\ Contents(table) \subseteq written
  /\ LogFile(file, written)
  /\ pending \in Seq(Known(written))
  /\ phase = "running" => pending = <<>>
  /\ DiskFiles(disk, written)

\* The first entries of an outcome that the log may get.
LEMMA PartLogged ==
  ASSUME NEW t, NEW o, Honest(t, o), NEW W, Rows(o.did) \subseteq W, NEW k \in 0 .. Len(o.logged)
  PROVE  /\ o.logged \in Seq(Known(W))
         /\ SubSeq(o.logged, 1, k) \in Seq(Known(W) \cup {Garbage})
<1>1. o.did \in Seq(Known(W)) /\ <<>> \in Seq(Known(W))
  BY KnownOwn DEF Honest
<1>2. o.logged \in Seq(Known(W))
  BY <1>1 DEF Honest
<1> HIDE DEF Known
<1>3. SubSeq(o.logged, 1, k) \in Seq(Known(W))
  <2>1. \A i \in 1 .. k : i \in 1 .. Len(o.logged)
    BY <1>2, LenProperties
  <2> QED BY <1>2, <2>1, SubSeqProperties, LenProperties, ElementOfSeq
<1>4. Seq(Known(W)) \subseteq Seq(Known(W) \cup {Garbage})
  BY SeqMonotonic
<1> QED BY <1>2, <1>3, <1>4

\* What a new process starts with.
LEMMA RestartInv ==
  ASSUME NEW W, NEW d, DiskFiles(d, W), NEW f, LogFile(f, W), Restart(f, d)
  PROVE  /\ Inv(table') /\ Contents(table') \subseteq W
         /\ file' = f /\ phase' = "replaying"
         /\ pending' \in Seq(Known(W))
         /\ DiskFiles(disk', W)
<1>1. PICK s \in Starts(d) : disk' = s.disk /\ table' = s.table
  BY DEF Restart
<1>2. file' = f /\ phase' = "replaying" /\ pending' = ReadAll(f)
  BY DEF Restart
<1>3. Inv(EmptyTable) /\ Contents(EmptyTable) \subseteq W
  BY EmptyInv DEF EmptyTable, Contents, Positions
<1>4. \/ IsImage(d.path) /\ s = [disk |-> d, table |-> Rebuild(d.path)]
      \/ s = [disk |-> d, table |-> EmptyTable]
      \/ IsImage(d.bak) /\ s = [disk |-> [d EXCEPT !.path = d.bak], table |-> Rebuild(d.bak)]
  BY <1>1 DEF Starts
<1>5. DiskFiles([d EXCEPT !.path = d.bak], W)
  <2>1. \A x, y : [[path |-> x, bak |-> y] EXCEPT !.path = y] = [path |-> y, bak |-> y]
    OBVIOUS
  <2>2. [d EXCEPT !.path = d.bak] = [path |-> d.bak, bak |-> d.bak]
    BY <2>1 DEF DiskFiles
  <2> QED BY <2>2 DEF DiskFiles
<1>6. Inv(s.table) /\ Contents(s.table) \subseteq W /\ DiskFiles(s.disk, W)
  <2> HIDE DEF Inv, Known
  <2> QED BY <1>3, <1>4, <1>5 DEF DiskFiles, ImageFile
<1> QED BY <1>1, <1>2, <1>6, ReadAllKnown

\* A call, whether it returns or the process dies inside it.
LEMMA CallInv ==
  ASSUME WInv, NEW o, Honest(table, o), Call(o)
  PROVE  WInv'
<1> DEFINE V == written \cup Rows(o.did)
<1>1. /\ phase = "running" /\ pending = <<>> /\ profile \in Profile
      /\ LogFile(file, V) /\ DiskFiles(disk, V)
  BY KnownMonotone DEF WInv, Call
<1>2. written' = V /\ profile' = profile
  BY DEF Call
<1>3. /\ o.logged \in Seq(Known(V))
      /\ \A k \in 0 .. Len(o.logged) : SubSeq(o.logged, 1, k) \in Seq(Known(V) \cup {Garbage})
  <2>1. Rows(o.did) \subseteq V
    OBVIOUS
  <2>2. \A k \in 0 .. Len(o.logged) :
          /\ o.logged \in Seq(Known(V))
          /\ SubSeq(o.logged, 1, k) \in Seq(Known(V) \cup {Garbage})
    <3> HIDE DEF V
    <3> QED BY <2>1, PartLogged
  <2>3. Len(o.logged) \in Nat
    BY LenProperties DEF Honest
  <2> HIDE DEF V
  <2> QED BY <2>2, <2>3
<1>4. Inv(o.t) /\ Contents(o.t) \subseteq V /\ Len(o.logged) \in Nat
  BY LenProperties DEF Honest, WInv
<1> HIDE DEF V, Known
<1>5. CASE Complete(o)
  <2>1. PICK k \in 0 .. Len(o.logged) : file' = Written(file, SubSeq(o.logged, 1, k))
    BY <1>4, <1>5 DEF Complete
  <2>2. LogFile(file', V)
    BY <1>1, <1>3, <2>1, WrittenLog
  <2>3. table' = o.t /\ UNCHANGED <<disk, phase, pending>>
    BY <1>5 DEF Complete
  <2>4. pending' \in Seq(Known(V))
    BY <1>1, <2>3
  <2> QED BY <1>1, <1>2, <1>4, <2>2, <2>3, <2>4 DEF WInv
<1>6. CASE CrashInside(o)
  <2>1. PICK k \in 0 .. Len(o.logged) :
          \E g \in {Written(file, SubSeq(o.logged, 1, k))} \cup
                   (IF "torn" \in profile.faults /\ k < Len(o.logged)
                    THEN Interrupted(Written(file, SubSeq(o.logged, 1, k)), o.logged[k + 1])
                    ELSE {}) : Restart(g, disk)
    BY <1>6 DEF CrashInside
  <2> DEFINE f == Written(file, SubSeq(o.logged, 1, k))
  <2>2. LogFile(f, V)
    BY <1>1, <1>3, WrittenLog
  <2> HIDE DEF f
  <2>3. PICK g : LogFile(g, V) /\ Restart(g, disk)
    <3>1. PICK g \in {f} \cup (IF "torn" \in profile.faults /\ k < Len(o.logged)
                               THEN Interrupted(f, o.logged[k + 1]) ELSE {}) : Restart(g, disk)
      BY <2>1 DEF f
    <3>2. CASE g = f
      BY <2>2, <3>1, <3>2
    <3>3. CASE g # f
      <4>1. k < Len(o.logged) /\ g \in Interrupted(f, o.logged[k + 1])
        BY <3>1, <3>3
      <4>2. k + 1 \in 1 .. Len(o.logged)
        BY <1>4, <4>1
      <4>3. o.logged[k + 1] \in Known(V)
        BY <1>3, <4>2, ElementOfSeq
      <4> QED BY <2>2, <3>1, <4>1, <4>3, InterruptedLog
    <3> QED BY <3>2, <3>3
  <2>4. /\ Inv(table') /\ Contents(table') \subseteq V
        /\ file' = g /\ phase' = "replaying"
        /\ pending' \in Seq(Known(V))
        /\ DiskFiles(disk', V)
    BY <1>1, <2>3, RestartInv
  <2> QED BY <1>1, <1>2, <2>3, <2>4 DEF WInv
<1> QED BY <1>5, <1>6 DEF Call

\* The outcomes of the calls clients make.
LEMMA ClientCalls ==
  ASSUME WInv,
         ClientInsert \/ ClientInsertAs \/ ClientInsertBatch \/ ClientUpdate
           \/ ClientUpdateValues \/ ClientDelete
  PROVE  \E o : Honest(table, o) /\ Call(o)
<1>1. Inv(table) /\ profile.ids \subseteq Id
  BY DEF WInv, Profile
<1>2. CASE ClientInsert
  <2>1. PICK row \in Row : Call(InsertAuto(row))
    BY <1>2 DEF ClientInsert
  <2>2. table.nextId + 1 <= AutoLimit
    BY <1>2 DEF ClientInsert, AutoRoom
  <2> QED BY <1>1, <2>1, <2>2, HonestInsertAuto
<1>3. CASE ClientInsertAs
  <2>1. PICK id \in CustomIds \cap profile.ids, row \in Row : Call(InsertAs(table, id, row))
    BY <1>3 DEF ClientInsertAs
  <2> QED BY <1>1, <2>1, HonestInsertAs
<1>4. CASE ClientInsertBatch
  <2>1. PICK batch \in [1 .. 2 -> Row \cup {BadRow}] : Call(InsertBatchOutcome(batch))
    BY <1>4 DEF ClientInsertBatch
  <2>2. table.nextId + 2 <= AutoLimit
    BY <1>4 DEF ClientInsertBatch, AutoRoom
  <2> QED BY <1>1, <2>1, <2>2, HonestInsertBatch
<1>5. CASE ClientUpdate
  <2>1. PICK id \in profile.ids, row \in Row : Call(UpdateRow(table, id, row))
    BY <1>5 DEF ClientUpdate
  <2> QED BY <1>1, <2>1, HonestUpdate
<1>6. CASE ClientUpdateValues
  <2>1. PICK id \in profile.ids, row \in Row : Call(UpdateRowValues(id, row))
    BY <1>6 DEF ClientUpdateValues
  <2> QED BY <1>1, <2>1, HonestUpdateValues
<1>7. CASE ClientDelete
  <2>1. PICK ids \in SeqOf(profile.ids, 2) : Call(DeleteRows(table, ids))
    BY <1>7 DEF ClientDelete
  <2>2. ids \in Seq(Id)
    <3>1. PICK m \in 0 .. 2 : ids \in [1 .. m -> profile.ids]
      BY DEF SeqOf
    <3> HIDE DEF Id
    <3>2. ids \in [1 .. m -> Id] /\ m \in Nat
      BY <1>1, <3>1
    <3> QED BY <3>2, IsASeq
  <2> QED BY <1>1, <2>1, <2>2, HonestDelete
<1> QED BY <1>2, <1>3, <1>4, <1>5, <1>6, <1>7

\* The image save writes.
LEMMA ArchiveFile ==
  ASSUME NEW t, Inv(t), NEW W, Contents(t) \subseteq W
  PROVE  ImageFile(Archive(t), W)
<1>1. Rebuild(Archive(t)) = t
  BY ArchiveRebuilt DEF Inv, Good
<1> QED BY <1>1 DEF ImageFile

\* Each state the two files pass through in a save.
LEMMA SaveFiles ==
  ASSUME NEW d, NEW W, DiskFiles(d, W), NEW a, ImageFile(a, W)
  PROVE  /\ \A k \in 1 .. Len(SaveSteps(d, a)) : DiskFiles(SaveSteps(d, a)[k], W)
         /\ Len(SaveSteps(d, a)) \in Nat \ {0}
<1>1. ImageFile(Torn, W) /\ ImageFile(d.path, W) /\ ImageFile(d.bak, W)
  BY DEF ImageFile, IsImage, DiskFiles
<1>2. \A x, y : ImageFile(x, W) /\ ImageFile(y, W) => DiskFiles([path |-> x, bak |-> y], W)
  BY DEF DiskFiles
<1>3. CASE d.path = NoFile
  <2> DEFINE s == <<[path |-> Torn, bak |-> d.bak], [path |-> a, bak |-> d.bak]>>
  <2>1. SaveSteps(d, a) = s
    BY <1>3, SaveStepsStates DEF DiskFiles
  <2>2. Len(s) = 2 /\ DiskFiles(s[1], W) /\ DiskFiles(s[2], W)
    BY <1>1, <1>2
  <2> HIDE DEF s
  <2>3. \A k \in 1 .. 2 : k = 1 \/ k = 2
    OBVIOUS
  <2> QED BY <2>1, <2>2, <2>3
<1>4. CASE d.path # NoFile
  <2> DEFINE s == <<[path |-> d.path, bak |-> Torn], [path |-> d.path, bak |-> d.path],
                    [path |-> Torn, bak |-> d.path], [path |-> a, bak |-> d.path]>>
  <2>1. SaveSteps(d, a) = s
    BY <1>4, SaveStepsStates DEF DiskFiles
  <2>2. /\ Len(s) = 4 /\ DiskFiles(s[1], W) /\ DiskFiles(s[2], W)
        /\ DiskFiles(s[3], W) /\ DiskFiles(s[4], W)
    BY <1>1, <1>2
  <2> HIDE DEF s
  <2>3. \A k \in 1 .. 4 : k = 1 \/ k = 2 \/ k = 3 \/ k = 4
    OBVIOUS
  <2> QED BY <2>1, <2>2, <2>3
<1> QED BY <1>3, <1>4

\* save keeps the invariant, to its end or to a crash or an error at any of its
\* steps.
LEMMA SaveInv ==
  ASSUME WInv, Save
  PROVE  WInv'
<1> DEFINE a == Archive(table)
           steps == SaveSteps(disk, a)
<1>1. ImageFile(a, written)
  BY ArchiveFile DEF WInv
<1> HIDE DEF a
<1>2. /\ \A k \in 1 .. Len(steps) : DiskFiles(steps[k], written)
      /\ Len(steps) \in Nat \ {0}
  BY <1>1, SaveFiles DEF WInv
<1> HIDE DEF steps
<1>3. UNCHANGED <<profile, written>> /\ phase = "running"
  BY DEF Save
<1>4. CASE /\ disk' \in {disk} \cup {steps[k] : k \in 1 .. Len(steps)}
           /\ UNCHANGED <<table, file, phase, pending>>
  <2>1. DiskFiles(disk', written)
    BY <1>2, <1>4 DEF WInv
  <2> QED BY <1>3, <1>4, <2>1 DEF WInv
<1>5. CASE \E k \in 1 .. Len(steps) - 1 : Restart(file, steps[k])
  <2>1. PICK k \in 1 .. Len(steps) : Restart(file, steps[k])
    BY <1>2, <1>5
  <2>2. DiskFiles(steps[k], written) /\ LogFile(file, written)
    BY <1>2 DEF WInv
  <2>3. /\ Inv(table') /\ Contents(table') \subseteq written
        /\ file' = file /\ phase' = "replaying"
        /\ pending' \in Seq(Known(written))
        /\ DiskFiles(disk', written)
    BY <2>1, <2>2, RestartInv
  <2> QED BY <1>3, <2>3 DEF WInv
<1>6. \/ /\ disk' \in {disk} \cup {steps[k] : k \in 1 .. Len(steps)}
         /\ UNCHANGED <<table, file, phase, pending>>
      \/ \E k \in 1 .. Len(steps) - 1 : Restart(file, steps[k])
  <2>1. Last(steps) \in {steps[k] : k \in 1 .. Len(steps)}
    BY <1>2 DEF Last
  <2>2. {steps[k] : k \in 1 .. Len(steps) - 1} \subseteq {steps[k] : k \in 1 .. Len(steps)}
    BY <1>2
  <2> QED BY <2>1, <2>2 DEF Save, steps, a
<1> QED BY <1>4, <1>5, <1>6

\* Replaying an entry of the log keeps the invariant.
LEMMA ReplayInv ==
  ASSUME WInv, ReplayNext
  PROVE  WInv'
<1> DEFINE e == Head(pending)
           o == Replay(table, e)
<1>1. pending \in Seq(Known(written)) /\ pending # <<>> /\ phase = "replaying"
  BY DEF WInv, ReplayNext
<1>2. e \in Known(written) /\ Tail(pending) \in Seq(Known(written))
  <2> HIDE DEF Known
  <2> QED BY <1>1, HeadTailProperties
<1>3. /\ Honest(table, o)
      /\ o.logged = o.did
      /\ o.did = <<>> \/ o.did = <<e>>
  BY <1>2, ReplayDid DEF WInv, Known
<1>4. Rows(o.did) \subseteq written
  <2>1. CASE o.did = <<>>
    BY <2>1, RowsOfNone
  <2>2. CASE o.did = <<e>>
    <3>1. Rows(<<e>>) = {[id |-> x.id, row |-> x.row] : x \in {y \in {e} : y.op # "delete"}}
      <4>1. Range(<<e>>) = {e}
        BY DEF Range
      <4> QED BY <4>1 DEF Rows
    <3> QED BY <1>2, <2>2, <3>1 DEF Known
  <2> QED BY <1>3, <2>1, <2>2
<1> HIDE DEF o, e
<1>5. o.logged \in Seq(Known(written) \cup {Garbage})
  <2>1. o.logged \in Seq(Known(written))
    BY <1>3, <1>4, KnownOwn DEF Honest
  <2>2. Seq(Known(written)) \subseteq Seq(Known(written) \cup {Garbage})
    <3> HIDE DEF Known
    <3> QED BY SeqMonotonic
  <2> QED BY <2>1, <2>2
<1>6. /\ table' = o.t /\ file' = Written(file, o.logged) /\ pending' = Tail(pending)
      /\ UNCHANGED <<profile, disk, phase, written>>
  BY DEF ReplayNext, o, e
<1>7. LogFile(file', written)
  BY <1>5, <1>6, WrittenLog DEF WInv
<1>8. Contents(table') \subseteq written /\ Inv(table')
  BY <1>3, <1>4, <1>6 DEF Honest, WInv
<1> HIDE DEF Known
<1> QED BY <1>1, <1>2, <1>6, <1>7, <1>8 DEF WInv

\* So does a crash with any of the images that a new process may start from.
LEMMA CrashInv ==
  ASSUME WInv, Restart(file, disk), UNCHANGED <<profile, written>>
  PROVE  WInv'
<1>1. LogFile(file, written) /\ DiskFiles(disk, written)
  BY DEF WInv
<1>2. /\ Inv(table') /\ Contents(table') \subseteq written
      /\ file' = file /\ phase' = "replaying"
      /\ pending' \in Seq(Known(written))
      /\ DiskFiles(disk', written)
  BY <1>1, RestartInv
<1> QED BY <1>2 DEF WInv

\* The invariant holds of a new database.
LEMMA WInvInit == Init => WInv
<1> SUFFICES ASSUME Init  PROVE WInv
  OBVIOUS
<1> HIDE DEF Known
<1>1. profile \in Profile /\ Inv(table) /\ Contents(table) = {}
  BY ProfilesAssumption, EmptyInv DEF Init, EmptyTable, Contents, Positions
<1>2. LogFile(file, written) /\ pending \in Seq(Known(written)) /\ pending = <<>>
  BY DEF Init, LogFile
<1>3. DiskFiles(disk, written)
  BY DEF Init, DiskFiles, ImageFile, IsImage
<1> QED BY <1>1, <1>2, <1>3 DEF WInv

\* Every call, crash, save and step of recovery keeps the invariant.
LEMMA WInvNext == WInv /\ [Next]_vars => WInv'
<1> SUFFICES ASSUME WInv, [Next]_vars  PROVE WInv'
  OBVIOUS
<1>1. CASE ClientInsert \/ ClientInsertAs \/ ClientInsertBatch \/ ClientUpdate
             \/ ClientUpdateValues \/ ClientDelete
  BY <1>1, ClientCalls, CallInv
<1>2. CASE Save
  BY <1>2, SaveInv
<1>3. CASE Crash
  BY <1>3, CrashInv DEF Crash
<1>4. CASE ReplayNext
  BY <1>4, ReplayInv
<1>5. CASE RecoveryDone
  BY <1>5 DEF RecoveryDone, WInv
<1>6. CASE CrashInRecovery
  BY <1>6, CrashInv DEF CrashInRecovery
<1>7. CASE UNCHANGED vars
  BY <1>7 DEF vars, WInv
<1> QED BY <1>1, <1>2, <1>3, <1>4, <1>5, <1>6, <1>7 DEF Next

\* WInv is an invariant: log, images and table hold only what calls have written.
LEMMA WInvHolds == Spec => []WInv
BY WInvInit, WInvNext, PTL DEF Spec

\* Whatever crashes happen, whatever lines are torn and whatever appends fail,
\* the table never shows a row that no call has put under its id: not while
\* recovery replays the log onto an older image, nor when the image is lost.
THEOREM NothingInventedHolds == Spec => []NothingInvented
<1>1. WInv => NothingInvented
  BY DEF WInv, NothingInvented
<1> QED BY <1>1, WInvHolds, PTL

-----------------------------------------------------------------------------
(* An image survives *)

\* After one save that did not end the .bak copy is complete, or there was
\* nothing to copy.  After two, nothing is promised.
CutInv ==
  /\ cut \in Nat
  /\ \/ cut > 1
     \/ disk.path = NoFile /\ disk.bak = NoFile
     \/ IsImage(disk.path)
     \/ cut = 1 /\ (IsImage(disk.bak) \/ (disk.path = Torn /\ disk.bak = NoFile))

\* A process that starts from a complete file counts from 0; one that does not
\* leaves the files as it found them.
LEMMA RestartCut ==
  ASSUME NEW f, NEW d, d = [path |-> d.path, bak |-> d.bak], Restart(f, d)
  PROVE  \/ IsImage(disk'.path) /\ cut' = 0
         \/ /\ ~IsImage(d.path) /\ disk' = d
            /\ cut' = cut + (IF d = disk THEN 0 ELSE 1)
<1>1. PICK s \in Starts(d) :
        /\ disk' = s.disk
        /\ cut' = IF IsImage(s.disk.path) THEN 0 ELSE cut + (IF d = disk THEN 0 ELSE 1)
  BY DEF Restart
<1>2. CASE IsImage(d.path)
  BY <1>1, <1>2 DEF Starts
<1>3. CASE ~IsImage(d.path)
  <2>1. \/ s.disk = d
        \/ IsImage(d.bak) /\ s.disk = [d EXCEPT !.path = d.bak]
    BY <1>1, <1>3 DEF Starts
  <2>2. \A x, y : [[path |-> x, bak |-> y] EXCEPT !.path = y].path = y
    OBVIOUS
  <2>3. [d EXCEPT !.path = d.bak].path = d.bak
    BY <2>2
  <2> QED BY <1>1, <1>3, <2>1, <2>3
<1> QED BY <1>2, <1>3

\* A crash outside save loses no file.
LEMMA CrashCut ==
  ASSUME WInv, CutInv, NEW f, Restart(f, disk)
  PROVE  CutInv'
<1>1. \/ IsImage(disk'.path) /\ cut' = 0
      \/ disk' = disk /\ cut' = cut + 0
  BY RestartCut DEF WInv, DiskFiles
<1> QED BY <1>1 DEF CutInv

\* A state d in which a save may stop before its end: the file is complete, or
\* nothing has changed, or what was complete is now in .bak, or it was not
\* complete before.
StopsAt(d) ==
  /\ d = [path |-> d.path, bak |-> d.bak]
  /\ \/ IsImage(d.path)
     \/ d = disk
     \/ cut = 0 /\ d # disk /\ (IsImage(d.bak) \/ (d.path = Torn /\ d.bak = NoFile))
     \/ cut >= 1 /\ d # disk

\* Each step of a save but the last is such a state.
LEMMA StopStates ==
  ASSUME WInv, CutInv, NEW a, NEW k \in 1 .. Len(SaveSteps(disk, a)) - 1
  PROVE  StopsAt(SaveSteps(disk, a)[k])
<1> DEFINE d == SaveSteps(disk, a)[k]
<1>1. disk = [path |-> disk.path, bak |-> disk.bak]
  BY DEF WInv, DiskFiles
<1>2. StopsAt(d)
  <2>1. CASE disk.path = NoFile
    <3> DEFINE s == <<[path |-> Torn, bak |-> disk.bak], [path |-> a, bak |-> disk.bak]>>
    <3>1. SaveSteps(disk, a) = s
      BY <1>1, <2>1, SaveStepsStates
    <3>2. Len(s) = 2 /\ s[1] = [path |-> Torn, bak |-> disk.bak]
      OBVIOUS
    <3>3. k = 1
      BY <3>1, <3>2
    <3> HIDE DEF s
    <3>4. d = [path |-> Torn, bak |-> disk.bak]
      BY <3>1, <3>2, <3>3
    <3>5. d.path = Torn /\ d.bak = disk.bak /\ d # disk
      BY <2>1, <3>4, FilesAssumption
    <3> HIDE DEF d
    <3> QED BY <2>1, <3>4, <3>5 DEF CutInv, IsImage, StopsAt
  <2>2. CASE disk.path # NoFile
    <3> DEFINE p == disk.path
               s == <<[path |-> p, bak |-> Torn], [path |-> p, bak |-> p],
                      [path |-> Torn, bak |-> p], [path |-> a, bak |-> p]>>
    <3>1. SaveSteps(disk, a) = s
      BY <1>1, <2>2, SaveStepsStates
    <3>2. Len(s) = 4 /\ s[1] = [path |-> p, bak |-> Torn] /\ s[2] = [path |-> p, bak |-> p]
          /\ s[3] = [path |-> Torn, bak |-> p]
      OBVIOUS
    <3>3. k = 1 \/ k = 2 \/ k = 3
      BY <3>1, <3>2
    <3> HIDE DEF s
    <3>4. \/ d = [path |-> p, bak |-> Torn] \/ d = [path |-> p, bak |-> p]
          \/ d = [path |-> Torn, bak |-> p]
      BY <3>1, <3>2, <3>3
    <3>5. p = disk.path
      OBVIOUS
    <3> HIDE DEF d, p
    <3>6. d = [path |-> d.path, bak |-> d.bak] /\ (d.path = p \/ (d.path = Torn /\ d.bak = p))
      BY <3>4
    <3>7. IsImage(p) /\ d.path = Torn => d # disk
      BY <3>5 DEF IsImage
    <3>8. cut \in Nat /\ (cut >= 1 \/ (cut = 0 /\ IsImage(p)))
      BY <2>2, <3>5 DEF CutInv
    <3>9. CASE IsImage(p)
      BY <3>6, <3>7, <3>8, <3>9 DEF StopsAt
    <3>10. CASE ~IsImage(p)
      BY <3>6, <3>8, <3>10 DEF StopsAt
    <3> QED BY <3>9, <3>10
  <2> QED BY <2>1, <2>2
<1> QED BY <1>2

\* The process dies inside save, with the files in the state d.
LEMMA CutSave ==
  ASSUME WInv, CutInv, NEW f, NEW d, StopsAt(d), Restart(f, d)
  PROVE  CutInv'
<1>1. \/ IsImage(disk'.path) /\ cut' = 0
      \/ /\ ~IsImage(d.path) /\ disk' = d
         /\ cut' = cut + (IF d = disk THEN 0 ELSE 1)
  BY RestartCut DEF StopsAt
<1> QED BY <1>1 DEF CutInv, StopsAt

\* save returns an error, with the files in the state d.
LEMMA FailedSave ==
  ASSUME CutInv, NEW d, StopsAt(d), disk' = d,
         cut' = IF IsImage(d.path) THEN 0 ELSE cut + (IF d = disk THEN 0 ELSE 1)
  PROVE  CutInv'
BY DEF CutInv, StopsAt

\* No save was cut before the first.
LEMMA CutInit == Init => CutInv
BY DEF Init, CutInv

\* Every step keeps the account of the cut saves.
LEMMA CutNext == WInv /\ CutInv /\ [Next]_vars => CutInv'
<1> SUFFICES ASSUME WInv, CutInv, [Next]_vars  PROVE CutInv'
  OBVIOUS
<1>1. ASSUME UNCHANGED <<disk, cut>>  PROVE CutInv'
  BY <1>1 DEF CutInv
<1>2. ASSUME NEW o, Call(o)  PROVE CutInv'
  <2>1. CASE Complete(o)
    BY <1>1, <2>1 DEF Complete
  <2>2. CASE CrashInside(o)
    BY <2>2, CrashCut DEF CrashInside
  <2> QED BY <1>2, <2>1, <2>2 DEF Call
<1>3. CASE ClientInsert \/ ClientInsertAs \/ ClientInsertBatch \/ ClientUpdate
             \/ ClientUpdateValues \/ ClientDelete
  BY <1>2, <1>3, ClientCalls
<1>4. CASE Save
  <2> DEFINE a == Archive(table)
  <2>1. IsImage(a)
    <3>1. a \in [t : TableRecord, idMapData : SUBSET [id : Id, at : Nat]]
      BY ArchiveRebuilt DEF WInv, Inv, Good
    <3> HIDE DEF a, Id
    <3> QED BY <3>1, FilesAssumption DEF IsImage
  <2> HIDE DEF a
  <2>2. CASE disk' = Last(SaveSteps(disk, a)) /\ cut' = 0
    <3>1. CASE disk.path = NoFile
      <4> DEFINE s == <<[path |-> Torn, bak |-> disk.bak], [path |-> a, bak |-> disk.bak]>>
      <4>1. SaveSteps(disk, a) = s
        BY <3>1, SaveStepsStates DEF WInv, DiskFiles
      <4>2. s[Len(s)] = [path |-> a, bak |-> disk.bak]
        OBVIOUS
      <4> HIDE DEF s
      <4> QED BY <2>1, <2>2, <4>1, <4>2 DEF Last, CutInv
    <3>2. CASE disk.path # NoFile
      <4> DEFINE p == disk.path
                 s == <<[path |-> p, bak |-> Torn], [path |-> p, bak |-> p],
                        [path |-> Torn, bak |-> p], [path |-> a, bak |-> p]>>
      <4>1. SaveSteps(disk, a) = s
        BY <3>2, SaveStepsStates DEF WInv, DiskFiles
      <4>2. s[Len(s)] = [path |-> a, bak |-> p]
        OBVIOUS
      <4> HIDE DEF s
      <4> QED BY <2>1, <2>2, <4>1, <4>2 DEF Last, CutInv
    <3> QED BY <3>1, <3>2
  <2>3. \A k \in 1 .. Len(SaveSteps(disk, a)) - 1 : StopsAt(SaveSteps(disk, a)[k])
    BY StopStates
  <2>4. StopsAt(disk)
    BY DEF WInv, DiskFiles, StopsAt
  <2>5. CASE \E k \in 1 .. Len(SaveSteps(disk, a)) - 1 : Restart(file, SaveSteps(disk, a)[k])
    BY <2>3, <2>5, CutSave
  <2>6. CASE /\ disk' \in {disk} \cup {SaveSteps(disk, a)[k] : k \in 1 .. Len(SaveSteps(disk, a)) - 1}
             /\ cut' = IF IsImage(disk'.path) THEN 0 ELSE cut + (IF disk' = disk THEN 0 ELSE 1)
    <3>1. PICK d : d = disk' /\ StopsAt(d)
      BY <2>3, <2>4, <2>6
    <3> QED BY <2>6, <3>1, FailedSave
  <2> QED BY <1>4, <2>2, <2>5, <2>6 DEF Save, a
<1>5. CASE Crash \/ CrashInRecovery
  BY <1>5, CrashCut DEF Crash, CrashInRecovery
<1>6. CASE ReplayNext \/ RecoveryDone \/ UNCHANGED vars
  BY <1>1, <1>6 DEF ReplayNext, RecoveryDone, vars
<1> QED BY <1>3, <1>4, <1>5, <1>6 DEF Next

\* A save that a crash or an error stops leaves a complete image, in the file or
\* in its .bak copy, once there was one; only a second such save, before the file
\* is complete again, may lose both.
THEOREM OneImageSurvivesHolds == Spec => []OneImageSurvives
<1>1. WInv /\ CutInv => OneImageSurvives
  <2> SUFFICES ASSUME WInv, CutInv  PROVE OneImageSurvives
    OBVIOUS
  <2>1. disk = [path |-> disk.path, bak |-> disk.bak]
    BY DEF WInv, DiskFiles
  <2> QED BY <2>1 DEF CutInv, OneImageSurvives
<1> QED BY <1>1, WInvInit, WInvNext, CutInit, CutNext, PTL DEF Spec

-----------------------------------------------------------------------------
(* Tables whose ids are all names *)

\* Such a table finds every row in id_map, by the one id the row has.
Named(t) ==
  /\ Inv(t)
  /\ Owned(t, Nat)
  /\ \A p \in Positions(t) : t.ids[p] \notin Nat

\* The row a table has for x, read through id_map, and all of them.
RowOf(t, x) == IF t.idMap[x] = 0 THEN Absent ELSE t.data[t.idMap[x]]
RowsOf(t) == [x \in Id |-> RowOf(t, x)]

\* The contents of a table that gives each id x the row c[x].
Shape(c) == {[id |-> x, row |-> c[x]] : x \in {y \in Id : c[y] # Absent}}

\* The entries about custom ids.
NamedEntries == {e \in Entries : e.id \notin Nat}

\* A new table has no row for any id.
LEMMA EmptyNamed ==
  /\ Named(EmptyTable)
  /\ \A x \in Id : RowOf(EmptyTable, x) = Absent
<1>1. Inv(EmptyTable) /\ Owned(EmptyTable, Nat)
  BY EmptyInv, EmptyOwned
<1>2. Positions(EmptyTable) = {}
  BY DEF Positions, EmptyTable
<1>3. \A x \in Id : EmptyTable.idMap[x] = 0
  BY DEF EmptyTable
<1> QED BY <1>1, <1>2, <1>3 DEF Named, RowOf

\* In a table of named rows id_map is exact: an id has one position, and is at it.
LEMMA NamedFields ==
  ASSUME NEW t, Named(t)
  PROVE  /\ RowsOf(t) \in [Id -> State]
         /\ t.sequential => Len(t.ids) = 0
         /\ \A p \in Positions(t) : t.ids[p] \in Id /\ t.idMap[t.ids[p]] = p
         /\ \A x \in Id : x \notin Nat => GetIndex(t, x) = t.idMap[x]
         /\ \A x \in Id : t.idMap[x] # 0 =>
              /\ t.idMap[x] \in Positions(t) /\ t.ids[t.idMap[x]] = x
              /\ RowOf(t, x) \in Row
<1>0. Inv(t)
  BY DEF Named
<1>1. \A x \in Id : x \notin Nat => GetIndex(t, x) = t.idMap[x]
  BY DEF GetIndex
<1>2. \A p \in Positions(t) : t.ids[p] \in Id /\ t.data[p] \in Row
  BY <1>0, Fields
<1>3. ASSUME NEW p \in Positions(t)
      PROVE  t.ids[p] \in Id /\ t.idMap[t.ids[p]] = p
  <2>1. t.ids[p] \notin Nat
    BY DEF Named
  <2>2. GetIndex(t, t.ids[p]) = p
    BY <2>1, OwnedFound DEF Named
  <2> QED BY <1>1, <1>2, <2>1, <2>2
<1>4. ASSUME NEW x \in Id, t.idMap[x] # 0
      PROVE  /\ t.idMap[x] \in Positions(t) /\ t.ids[t.idMap[x]] = x
             /\ RowOf(t, x) \in Row
  <2>1. t.idMap[x] \in Positions(t) /\ t.ids[t.idMap[x]] = x
    BY <1>0, <1>4 DEF Inv, Sound
  <2> QED BY <1>2, <1>4, <2>1 DEF RowOf
<1>5. RowsOf(t) \in [Id -> State]
  <2>1. \A x \in Id : RowOf(t, x) \in State
    BY <1>4 DEF RowOf, State
  <2> HIDE DEF Id, State
  <2> QED BY <2>1 DEF RowsOf
<1>6. t.sequential => Len(t.ids) = 0
  <2>1. Len(t.ids) \in Nat
    BY <1>0, Fields
  <2>2. ASSUME t.sequential, Len(t.ids) # 0
        PROVE  FALSE
    <3>1. 1 \in Positions(t)
      BY <2>1, <2>2 DEF Positions
    <3>2. t.ids[1] = 1 - 1
      BY <1>0, <2>2, <3>1 DEF Inv, Dense
    <3> QED BY <3>1, <3>2 DEF Named
  <2> QED BY <2>2
<1> QED BY <1>1, <1>3, <1>4, <1>5, <1>6

\* The contents say what each id has, and each row is there once.
LEMMA NamedContents ==
  ASSUME NEW t, Named(t)
  PROVE  /\ Contents(t) = Shape(RowsOf(t))
         /\ Cardinality(Contents(t)) = Len(t.ids)
<1> DEFINE n == Len(t.ids)
<1>1. n \in Nat /\ Positions(t) = 1 .. n /\ \A p \in Positions(t) : t.data[p] \in Row
  BY Fields DEF Named
<1>2. ASSUME NEW p \in Positions(t)
      PROVE  /\ t.ids[p] \in Id /\ RowsOf(t)[t.ids[p]] = t.data[p]
             /\ RowsOf(t)[t.ids[p]] # Absent
  <2>1. t.ids[p] \in Id /\ t.idMap[t.ids[p]] = p /\ p # 0
    BY <1>1, NamedFields
  <2>2. RowsOf(t)[t.ids[p]] = t.data[p]
    BY <2>1 DEF RowsOf, RowOf
  <2> QED BY <1>1, <2>1, <2>2, AbsentIsNoRow
<1>3. ASSUME NEW x \in Id, RowsOf(t)[x] # Absent
      PROVE  /\ t.idMap[x] \in Positions(t) /\ t.ids[t.idMap[x]] = x
             /\ t.data[t.idMap[x]] = RowsOf(t)[x]
  <2>1. RowsOf(t)[x] = RowOf(t, x)
    BY DEF RowsOf
  <2>2. t.idMap[x] # 0
    BY <1>3, <2>1 DEF RowOf
  <2> QED BY <2>1, <2>2, NamedFields DEF RowOf
<1>4. Contents(t) = Shape(RowsOf(t))
  <2>1. ASSUME NEW p \in Positions(t)
        PROVE  [id |-> t.ids[p], row |-> t.data[p]] \in Shape(RowsOf(t))
    <3>1. [id |-> t.ids[p], row |-> RowsOf(t)[t.ids[p]]] \in Shape(RowsOf(t))
      BY <1>2 DEF Shape
    <3> QED BY <1>2, <3>1
  <2>2. ASSUME NEW x \in Id, RowsOf(t)[x] # Absent
        PROVE  [id |-> x, row |-> RowsOf(t)[x]] \in Contents(t)
    <3>1. [id |-> t.ids[t.idMap[x]], row |-> t.data[t.idMap[x]]] \in Contents(t)
      BY <1>3, <2>2, InContents
    <3> QED BY <1>3, <2>2, <3>1
  <2>3. Contents(t) \subseteq Shape(RowsOf(t))
    BY <2>1 DEF Contents
  <2>4. Shape(RowsOf(t)) \subseteq Contents(t)
    BY <2>2 DEF Shape
  <2> QED BY <2>3, <2>4
<1>5. Cardinality(Contents(t)) = n
  <2> DEFINE f == [p \in 1 .. n |-> [id |-> t.ids[p], row |-> t.data[p]]]
  <2>1. f \in Bijection(1 .. n, Contents(t))
    <3>1. f \in [1 .. n -> Contents(t)]
      BY <1>1, InContents
    <3>2. ASSUME NEW p \in 1 .. n, NEW q \in 1 .. n, f[p] = f[q]
          PROVE  p = q
      <4>1. t.ids[p] = t.ids[q]
        BY <3>2
      <4>2. t.idMap[t.ids[p]] = p /\ t.idMap[t.ids[q]] = q
        BY <1>1, NamedFields
      <4> QED BY <4>1, <4>2
    <3>3. ASSUME NEW k \in Contents(t)
          PROVE  \E p \in 1 .. n : f[p] = k
      BY <1>1, <3>3 DEF Contents
    <3> HIDE DEF f
    <3> QED BY <3>1, <3>2, <3>3 DEF Bijection, Injection, Surjection, IsInjective
  <2>2. ExistsBijection(1 .. n, Contents(t))
    <3> HIDE DEF f
    <3> QED BY <2>1 DEF ExistsBijection
  <2> HIDE DEF f
  <2> QED BY <1>1, <2>2, FS_CountingElements
<1> QED BY <1>4, <1>5

-----------------------------------------------------------------------------
(* What the logged calls do to each id *)

\* The entry takes the ids from c to d, and it takes effect.
Takes(c, e, d) ==
  /\ e \in NamedEntries
  /\ Effective(c[e.id], e)
  /\ d = [c EXCEPT ![e.id] = Follow(@, e)]

\* The entries take the ids from g[0] through g[1], g[2], ...
Path(es, g) ==
  /\ \A i \in 0 .. Len(es) : g[i] \in [Id -> State]
  /\ \A i \in 1 .. Len(es) : Takes(g[i - 1], es[i], g[i])

\* An outcome whose entries, all of them logged, say what it did.
Performs(t, o) ==
  /\ Named(o.t)
  /\ o.logged = o.did /\ o.did \in Seq(NamedEntries)
  /\ \E g : Path(o.did, g) /\ g[0] = RowsOf(t) /\ g[Len(o.did)] = RowsOf(o.t)

\* A named entry is an entry about a custom id.
LEMMA NamedEntry ==
  ASSUME NEW e \in NamedEntries
  PROVE  e \in Entries /\ e.id \in Id /\ e.id \notin Nat
<1> HIDE DEF Id, Entries
<1> QED BY EntryKinds DEF NamedEntries

\* Inserts and updates of custom ids are named entries.
LEMMA NamedEntryType ==
  ASSUME NEW id \in Id, id \notin Nat, NEW row \in Row
  PROVE  /\ Entry("insert", id, row) \in NamedEntries
         /\ Entry("update", id, row) \in NamedEntries
<1> HIDE DEF Id, Entries
<1>1. Entry("insert", id, row).id = id /\ Entry("update", id, row).id = id
  BY DEF Entry
<1> QED BY <1>1, EntryType DEF NamedEntries

\* Nothing was done.
LEMMA PerformsNothing ==
  ASSUME NEW t, NEW u, Named(u), RowsOf(u) = RowsOf(t)
  PROVE  Performs(t, Outcome(u, <<>>, <<>>))
<1> DEFINE g == [i \in 0 .. 0 |-> RowsOf(u)]
<1>1. g[0] = RowsOf(u) /\ RowsOf(u) \in [Id -> State]
  BY NamedFields
<1>2. Len(<<>>) = 0 /\ <<>> \in Seq(NamedEntries) /\ 1 .. 0 = {} /\ \A i \in 0 .. 0 : i = 0
  OBVIOUS
<1> HIDE DEF g
<1>3. Path(<<>>, g)
  BY <1>1, <1>2 DEF Path
<1> QED BY <1>1, <1>2, <1>3 DEF Performs, Outcome

\* A path, and one entry more.
LEMMA PathMore ==
  ASSUME NEW es \in Seq(NamedEntries), NEW g, Path(es, g), NEW e, NEW d, Takes(g[Len(es)], e, d)
  PROVE  \E h : Path(Append(es, e), h) /\ h[0] = g[0] /\ h[Len(Append(es, e))] = d
<1> DEFINE n == Len(es)
           h == [i \in 0 .. n + 1 |-> IF i = n + 1 THEN d ELSE g[i]]
           fs == Append(es, e)
<1>1. /\ n \in Nat /\ Len(fs) = n + 1 /\ fs[n + 1] = e
      /\ \A i \in 1 .. n : fs[i] = es[i]
  <2>1. e \in NamedEntries
    BY DEF Takes
  <2> HIDE DEF NamedEntries
  <2> QED BY <2>1, AppendProperties, LenProperties
<1>2. h[n + 1] = d /\ \A i \in 0 .. n : h[i] = g[i]
  BY <1>1
<1>3. d \in [Id -> State]
  <2>1. e \in Entries /\ e.id \in Id
    BY NamedEntry DEF Takes
  <2>2. g[n] \in [Id -> State] /\ d = [g[n] EXCEPT ![e.id] = Follow(g[n][e.id], e)]
    BY <1>1 DEF Path, Takes
  <2> HIDE DEF Id, State
  <2>3. Follow(g[n][e.id], e) \in State
    BY <2>1, <2>2, FollowType DEF StepFor
  <2> QED BY <2>1, <2>2, <2>3
<1> HIDE DEF h, fs
<1>4. \A i \in 0 .. n + 1 : h[i] \in [Id -> State]
  <2>1. \A i \in 0 .. n + 1 : i = n + 1 \/ i \in 0 .. n
    BY <1>1
  <2> QED BY <1>2, <1>3, <2>1 DEF Path
<1>5. ASSUME NEW i \in 1 .. n + 1
      PROVE  Takes(h[i - 1], fs[i], h[i])
  <2>1. CASE i = n + 1
    <3>1. i - 1 = n /\ n \in 0 .. n
      BY <1>1, <2>1
    <3> QED BY <1>1, <1>2, <2>1, <3>1
  <2>2. CASE i # n + 1
    <3>1. i \in 1 .. n /\ i \in 0 .. n /\ i - 1 \in 0 .. n
      BY <1>1, <2>2
    <3> QED BY <1>1, <1>2, <3>1 DEF Path
  <2> QED BY <2>1, <2>2
<1>6. h[0] = g[0]
  BY <1>1, <1>2
<1> QED BY <1>1, <1>2, <1>4, <1>5, <1>6 DEF Path, fs

\* One effective entry.
LEMMA PerformsOne ==
  ASSUME NEW t, Named(t), NEW u, Named(u), NEW e, Takes(RowsOf(t), e, RowsOf(u))
  PROVE  Performs(t, Outcome(u, <<e>>, <<e>>))
<1> DEFINE g == [i \in 0 .. 0 |-> RowsOf(t)]
           N == <<>>
<1>1. g[0] = RowsOf(t) /\ RowsOf(t) \in [Id -> State]
  BY NamedFields
<1>2. Len(N) = 0 /\ N \in Seq(NamedEntries) /\ 1 .. 0 = {} /\ \A i \in 0 .. 0 : i = 0
  OBVIOUS
<1>3. Append(N, e) = <<e>>
  OBVIOUS
<1> HIDE DEF g, N
<1>4. Path(N, g) /\ Takes(g[Len(N)], e, RowsOf(u))
  BY <1>1, <1>2 DEF Path
<1>5. \E h : Path(Append(N, e), h) /\ h[0] = g[0] /\ h[Len(Append(N, e))] = RowsOf(u)
  <2>1. N \in Seq(NamedEntries)
    BY <1>2
  <2> HIDE DEF NamedEntries
  <2> QED BY <1>4, <2>1, PathMore
<1>6. e \in NamedEntries
  BY DEF Takes
<1>7. <<e>> \in Seq(NamedEntries)
  <2> HIDE DEF NamedEntries
  <2> QED BY <1>6
<1> QED BY <1>1, <1>3, <1>5, <1>7 DEF Performs, Outcome

\* update_row does to a table of named rows what it logs.
LEMMA PerformsUpdate ==
  ASSUME NEW t, Named(t), NEW id \in Id, id \notin Nat, NEW row \in Row
  PROVE  Performs(t, UpdateRow(t, id, row))
<1> DEFINE p == t.idMap[id]
           e == Entry("update", id, row)
           u == Update(t, id, row)
<1>1. Inv(t) /\ Owned(t, Nat)
  BY DEF Named
<1>2. Inv(u) /\ Owned(u, Nat)
  BY <1>1, UpdateInv, UpdateOwned
<1>3. CASE p = 0
  <2>1. UpdateRow(t, id, row) = Outcome(t, <<>>, <<>>)
    BY <1>3 DEF UpdateRow, Update
  <2> QED BY <2>1, PerformsNothing
<1>4. CASE p # 0
  <2>1. UpdateRow(t, id, row) = Outcome(u, <<e>>, <<e>>)
    BY <1>4 DEF UpdateRow
  <2>2. /\ p \in Positions(t) /\ t.ids[p] = id /\ RowOf(t, id) \in Row
    BY <1>4, NamedFields
  <2>3. /\ u.ids = t.ids /\ u.idMap = t.idMap
        /\ \A q \in Positions(t) : u.data[q] = IF q = p THEN row ELSE t.data[q]
    <3>1. u = WriteRow(t, p, id, row)
      BY <1>4 DEF Update
    <3> HIDE DEF u, p
    <3> QED BY <1>1, <2>2, <3>1, WriteRowFields
  <2> HIDE DEF u
  <2>4. Named(u)
    BY <1>2, <2>3 DEF Named, Positions
  <2>5. ASSUME NEW x \in Id
        PROVE  RowOf(u, x) = IF x = id THEN row ELSE RowOf(t, x)
    <3>1. t.idMap[x] # 0 => t.idMap[x] \in Positions(t) /\ t.ids[t.idMap[x]] = x
      BY NamedFields
    <3> QED BY <1>4, <2>2, <2>3, <3>1 DEF RowOf
  <2>6. RowsOf(u) = [RowsOf(t) EXCEPT ![id] = row]
    <3> HIDE DEF Id
    <3> QED BY <2>5 DEF RowsOf
  <2>7. Takes(RowsOf(t), e, RowsOf(u))
    <3>1. e.op = "update" /\ e.id = id /\ e.row = row
      BY DEF Entry
    <3>2. RowsOf(t)[id] # Absent
      BY <2>2, AbsentIsNoRow DEF RowsOf
    <3>3. Effective(RowsOf(t)[id], e) /\ Follow(RowsOf(t)[id], e) = row
      BY <3>1, <3>2 DEF Effective, Follow
    <3>4. e \in NamedEntries
      BY NamedEntryType
    <3> HIDE DEF e
    <3> QED BY <2>6, <3>1, <3>3, <3>4 DEF Takes
  <2> HIDE DEF e
  <2> QED BY <2>1, <2>4, <2>7, PerformsOne
<1> QED BY <1>3, <1>4

\* Leaving the sequential mode fills no id_map: there are no rows yet.
LEMMA LeaveNamed ==
  ASSUME NEW t, Named(t)
  PROVE  \A x \in Id : LeaveSequential(t).idMap[x] = t.idMap[x]
<1>1. Inv(t) /\ Positions(t) = 1 .. Len(t.ids)
  BY Fields DEF Named
<1>2. CASE t.sequential
  <2>1. Positions(t) = {}
    BY <1>1, <1>2, NamedFields
  <2> QED BY <1>1, <1>2, <2>1 DEF LeaveSequential, FillIdMap, Inv, Good, TableRecord
<1>3. CASE ~t.sequential
  BY <1>1, <1>3, LeaveSequentialInv
<1> QED BY <1>2, <1>3

\* A custom id is refused exactly if it has a row.
LEMMA DuplicateNamed ==
  ASSUME NEW t, Named(t), NEW id \in Id
  PROVE  IsDuplicate(t, id) <=> t.idMap[id] # 0
BY LeaveNamed DEF IsDuplicate

\* insert_row with a custom id does to a table of named rows what it logs.
LEMMA PerformsInsertAs ==
  ASSUME NEW t, Named(t), NEW id \in Id, id \notin Nat, NEW row \in Row
  PROVE  Performs(t, InsertAs(t, id, row))
<1> DEFINE u == LeaveSequential(t)
           w == InsertCustom(t, id, row)
           e == Entry("insert", id, row)
           n == Len(t.ids)
<1>1. Inv(t) /\ Owned(t, Nat) /\ n \in Nat /\ Positions(t) = 1 .. n
  BY Fields DEF Named
<1>2. id \in CustomIds
  BY AutoLimitAssumption DEF Id
<1>3. /\ Inv(u) /\ u.sequential = FALSE /\ u.ids = t.ids /\ u.data = t.data
      /\ Owned(u, Nat)
  BY <1>1, LeaveSequentialInv, LeaveSequentialOwned
<1>4. \A x \in Id : u.idMap[x] = t.idMap[x]
  BY LeaveNamed
<1>5. Inv(w) /\ Owned(w, Nat)
  <2>1. CustomIds \cap Nat \subseteq Nat
    OBVIOUS
  <2> QED BY <1>1, <1>2, <2>1, InsertCustomInv, InsertCustomOwned
<1>6. Named(u) /\ RowsOf(u) = RowsOf(t)
  <2> HIDE DEF u
  <2>1. Named(u)
    BY <1>3 DEF Named, Positions
  <2>2. \A x \in Id : RowOf(u, x) = RowOf(t, x)
    BY <1>3, <1>4 DEF RowOf
  <2> QED BY <2>1, <2>2 DEF RowsOf
<1>7. CASE IsDuplicate(t, id)
  <2>1. InsertAs(t, id, row) = Outcome(u, <<>>, <<>>)
    BY <1>7 DEF InsertAs, InsertCustom
  <2> HIDE DEF u
  <2> QED BY <1>6, <2>1, PerformsNothing
<1>8. CASE ~IsDuplicate(t, id)
  <2>1. InsertAs(t, id, row) = Outcome(w, <<e>>, <<e>>)
    BY <1>8 DEF InsertAs
  <2>2. u.idMap[id] = 0
    BY <1>8 DEF IsDuplicate
  <2>3. w = AppendRows(u, <<id>>, <<row>>, {"unique"})
    BY <1>8 DEF InsertCustom
  <2>4. Appended(u, <<id>>, <<row>>, {"unique"}, w)
    <3>1. <<id>> \in Seq(Id) /\ <<row>> \in Seq(Row) /\ Len(<<id>>) = 1 /\ Len(<<row>>) = 1
      BY DEF Id
    <3> HIDE DEF u, w
    <3> QED BY <1>3, <2>3, <3>1, AppendRowsFieldwise
  <2>5. /\ Len(w.ids) = n + 1
        /\ \A p \in 1 .. n + 1 : w.ids[p] = IF p <= n THEN t.ids[p] ELSE id
        /\ \A p \in 1 .. n + 1 : w.data[p] = IF p <= n THEN t.data[p] ELSE row
        /\ \A x \in Id : w.idMap[x] = IF x = id THEN n + 1 ELSE u.idMap[x]
    <3> DEFINE i1 == <<id>>
               r1 == <<row>>
    <3>1. Len(i1) = 1 /\ i1[1] = id /\ Len(r1) = 1 /\ r1[1] = row
      OBVIOUS
    <3>2. Appended(u, i1, r1, {"unique"}, w)
      BY <2>4
    <3> HIDE DEF u, w, i1, r1
    <3>3. \A p \in 1 .. n + 1 : p <= n \/ p - n = 1
      BY <1>1
    <3>4. \A i \in 1 .. 1 : i = 1
      OBVIOUS
    <3> QED BY <1>1, <1>3, <3>1, <3>2, <3>3, <3>4 DEF Appended
  <2> HIDE DEF u, w
  <2>6. Named(w)
    BY <1>1, <1>5, <2>5 DEF Named, Positions
  <2>7. ASSUME NEW x \in Id
        PROVE  RowOf(w, x) = IF x = id THEN row ELSE RowOf(t, x)
    <3>1. CASE x = id
      <4>1. n + 1 \in 1 .. n + 1 /\ ~(n + 1 <= n) /\ n + 1 # 0
        BY <1>1
      <4> QED BY <2>5, <3>1, <4>1 DEF RowOf
    <3>2. CASE x # id
      <4>1. w.idMap[x] = t.idMap[x]
        BY <1>4, <2>5, <3>2
      <4>2. t.idMap[x] # 0 => t.idMap[x] \in 1 .. n
        BY <1>1, NamedFields
      <4>3. t.idMap[x] # 0 => t.idMap[x] \in 1 .. n + 1 /\ t.idMap[x] <= n
        BY <1>1, <4>2
      <4> QED BY <2>5, <3>2, <4>1, <4>3 DEF RowOf
    <3> QED BY <3>1, <3>2
  <2>8. RowsOf(w) = [RowsOf(t) EXCEPT ![id] = row]
    <3> HIDE DEF Id
    <3> QED BY <2>7 DEF RowsOf
  <2>9. Takes(RowsOf(t), e, RowsOf(w))
    <3>1. e.op = "insert" /\ e.id = id /\ e.row = row
      BY DEF Entry
    <3>2. RowsOf(t)[id] = Absent
      BY <1>4, <2>2 DEF RowsOf, RowOf
    <3>3. Effective(RowsOf(t)[id], e) /\ Follow(RowsOf(t)[id], e) = row
      BY <3>1, <3>2 DEF Effective, Follow
    <3>4. e \in NamedEntries
      BY NamedEntryType
    <3> HIDE DEF e
    <3> QED BY <2>8, <3>1, <3>3, <3>4 DEF Takes
  <2> HIDE DEF e
  <2> QED BY <2>1, <2>6, <2>9, PerformsOne
<1> QED BY <1>7, <1>8

\* One deletion.
LEMMA DeleteTakes ==
  ASSUME NEW t, Named(t), NEW id \in Id, id \notin Nat, GetIndex(t, id) # 0
  PROVE  /\ Named(Delete(t, id))
         /\ Takes(RowsOf(t), Entry("delete", id, NoRow), RowsOf(Delete(t, id)))
<1> DEFINE n == Len(t.ids)
           p == GetIndex(t, id)
           w == Delete(t, id)
           e == Entry("delete", id, NoRow)
           last == t.ids[n]
<1>1. /\ Inv(t) /\ Owned(t, Nat) /\ n \in Nat /\ Positions(t) = 1 .. n
      /\ p = t.idMap[id]
  BY Fields, NamedFields DEF Named
<1>2. RowGone(t, id, w)
  BY <1>1, DeleteFields
<1>3. Inv(w) /\ Owned(w, Nat)
  BY <1>1, DeleteInv, DeleteOwned
<1>4. LeaveSequential(t).idMap = t.idMap
  <2>1. p \in 1 .. n
    BY <1>2 DEF RowGone
  <2>2. ~t.sequential
    BY <1>1, <2>1, NamedFields
  <2> QED BY <1>1, <2>2, LeaveSequentialInv
<1> HIDE DEF w
<1>5. /\ p \in 1 .. n /\ t.ids[p] = id /\ last \in Id /\ n >= 1 /\ n \in 1 .. n
      /\ Len(w.ids) = n - 1 /\ Positions(w) = 1 .. n - 1
      /\ \A q \in 1 .. n - 1 : w.ids[q] = IF q = p THEN last ELSE t.ids[q]
      /\ \A q \in 1 .. n - 1 : w.data[q] = IF q = p THEN t.data[n] ELSE t.data[q]
      /\ \A x \in Id : w.idMap[x] = IF p < n /\ x = last THEN p
                                    ELSE IF x = id THEN 0 ELSE t.idMap[x]
  <2>1. p \in 1 .. n /\ n >= 1 /\ n \in 1 .. n
    BY <1>1, <1>2 DEF RowGone
  <2> HIDE DEF p
  <2> QED BY <1>1, <1>2, <1>4, <2>1 DEF RowGone, Positions, p
<1> HIDE DEF p
<1>6. Named(w)
  <2>1. ASSUME NEW q \in 1 .. n - 1
        PROVE  w.ids[q] \notin Nat
    <3>1. q \in 1 .. n
      BY <1>1
    <3> QED BY <1>1, <1>5, <3>1 DEF Named
  <2> QED BY <1>3, <1>5, <2>1 DEF Named
<1>7. \A q \in 1 .. n : t.idMap[t.ids[q]] = q
  BY <1>1, NamedFields
<1>8. ASSUME NEW x \in Id
      PROVE  RowOf(w, x) = IF x = id THEN Absent ELSE RowOf(t, x)
  <2>1. CASE x = id
    <3>1. ~(p < n /\ x = last)
      BY <1>1, <1>5, <1>7, <2>1
    <3> QED BY <1>5, <2>1, <3>1 DEF RowOf
  <2>2. CASE x # id /\ x = last
    <3>1. p # n /\ p < n /\ p \in 1 .. n - 1 /\ t.idMap[x] = n
      BY <1>1, <1>5, <1>7, <2>2
    <3>2. w.idMap[x] = p /\ w.data[p] = t.data[n]
      BY <1>5, <2>2, <3>1
    <3> QED BY <1>1, <1>5, <2>2, <3>1, <3>2 DEF RowOf
  <2>3. CASE x # id /\ x # last
    <3>1. w.idMap[x] = t.idMap[x]
      BY <1>5, <2>3
    <3>2. CASE t.idMap[x] = 0
      BY <2>3, <3>1, <3>2 DEF RowOf
    <3>3. CASE t.idMap[x] # 0
      <4>1. t.idMap[x] \in 1 .. n /\ t.ids[t.idMap[x]] = x
        BY <1>1, <3>3, NamedFields
      <4>2. t.idMap[x] \in 1 .. n - 1 /\ t.idMap[x] # p
        BY <1>1, <1>5, <2>3, <4>1
      <4> QED BY <1>5, <2>3, <3>1, <4>2 DEF RowOf
    <3> QED BY <3>2, <3>3
  <2> QED BY <2>1, <2>2, <2>3
<1>9. RowsOf(w) = [RowsOf(t) EXCEPT ![id] = Absent]
  <2> HIDE DEF Id
  <2> QED BY <1>8 DEF RowsOf
<1>10. Takes(RowsOf(t), e, RowsOf(w))
  <2>1. e.op = "delete" /\ e.id = id
    BY DEF Entry
  <2>2. RowsOf(t)[id] # Absent
    <3>1. t.idMap[id] # 0
      BY <1>1 DEF p
    <3>2. RowOf(t, id) \in Row
      BY <3>1, NamedFields
    <3> QED BY <3>2, AbsentIsNoRow DEF RowsOf
  <2>3. Effective(RowsOf(t)[id], e) /\ Follow(RowsOf(t)[id], e) = Absent
    BY <2>1, <2>2 DEF Effective, Follow
  <2>4. e \in NamedEntries
    <3>1. e \in Entries
      <4> HIDE DEF Id
      <4> QED BY DEF Entries, Entry
    <3> HIDE DEF e, Entries
    <3> QED BY <2>1, <3>1 DEF NamedEntries
  <2> HIDE DEF e
  <2> QED BY <1>9, <2>1, <2>3, <2>4 DEF Takes
<1> QED BY <1>6, <1>10 DEF w

\* A batch of deletions takes the ids along the path of its log.
LEMMA PerformsDelete ==
  ASSUME NEW t, Named(t), NEW ids \in Seq(Id \ Nat)
  PROVE  Performs(t, DeleteRows(t, ids))
<1> DEFINE N == Len(ids)
           Fine(b) == Performs(t, Outcome(b.t, b.log, b.log))
<1>1. PICK done : /\ DeleteBatch(t, ids) = done[N]
                  /\ done[0] = [t |-> t, log |-> <<>>]
                  /\ \A n \in 1 .. N : done[n] = DeleteStep(done[n - 1], ids[n])
  <2>1. ids \in Seq(Id)
    <3>1. Id \ Nat \subseteq Id
      OBVIOUS
    <3> HIDE DEF Id
    <3> QED BY <3>1, SeqMonotonic
  <2> QED BY <2>1, DeleteBatchSteps
<1>2. N \in Nat
  BY LenProperties
<1>3. ASSUME NEW b, Fine(b), NEW id \in Id, id \notin Nat
      PROVE  Fine(DeleteStep(b, id))
  <2>1. CASE GetIndex(b.t, id) = 0
    BY <1>3, <2>1 DEF DeleteStep
  <2>2. CASE GetIndex(b.t, id) # 0
    <3> DEFINE e == Entry("delete", id, NoRow)
               u == Delete(b.t, id)
    <3>1. DeleteStep(b, id) = [t |-> u, log |-> Append(b.log, e)]
      BY <2>2 DEF DeleteStep
    <3>2. PICK g : /\ Named(b.t) /\ b.log \in Seq(NamedEntries)
                   /\ Path(b.log, g) /\ g[0] = RowsOf(t) /\ g[Len(b.log)] = RowsOf(b.t)
      BY <1>3 DEF Performs, Outcome
    <3>3. Named(u) /\ Takes(RowsOf(b.t), e, RowsOf(u))
      BY <1>3, <2>2, <3>2, DeleteTakes
    <3>4. e \in NamedEntries
      BY <3>3 DEF Takes
    <3> HIDE DEF e, u, NamedEntries
    <3>5. Append(b.log, e) \in Seq(NamedEntries)
      BY <3>2, <3>4, AppendProperties
    <3>6. \E h : /\ Path(Append(b.log, e), h) /\ h[0] = RowsOf(t)
                 /\ h[Len(Append(b.log, e))] = RowsOf(u)
      <4>1. Takes(g[Len(b.log)], e, RowsOf(u))
        BY <3>2, <3>3
      <4>2. \E h : /\ Path(Append(b.log, e), h) /\ h[0] = g[0]
                   /\ h[Len(Append(b.log, e))] = RowsOf(u)
        <5> DEFINE es == b.log
                   d == RowsOf(u)
        <5>1. es \in Seq(NamedEntries) /\ Path(es, g) /\ Takes(g[Len(es)], e, d)
          BY <3>2, <4>1
        <5> HIDE DEF es, d
        <5>2. \E h : Path(Append(es, e), h) /\ h[0] = g[0] /\ h[Len(Append(es, e))] = d
          BY <5>1, PathMore
        <5> QED BY <5>2 DEF es, d
      <4> QED BY <3>2, <4>2
    <3>7. Performs(t, Outcome(u, Append(b.log, e), Append(b.log, e)))
      BY <3>3, <3>5, <3>6 DEF Performs, Outcome
    <3> QED BY <3>1, <3>7
  <2> QED BY <2>1, <2>2
<1> DEFINE S == {n \in Nat : n <= N => Fine(done[n])}
<1>4. Fine(done[0])
  <2>1. Performs(t, Outcome(t, <<>>, <<>>))
    BY PerformsNothing
  <2> QED BY <1>1, <2>1
<1>5. ASSUME NEW n \in Nat, n \in S
      PROVE  n + 1 \in S
  <2>1. CASE n + 1 <= N
    <3>1. Fine(done[n]) /\ n + 1 \in 1 .. N /\ n + 1 - 1 = n
      BY <1>2, <1>5, <2>1
    <3>2. ids[n + 1] \in Id \ Nat /\ done[n + 1] = DeleteStep(done[n], ids[n + 1])
      <4> HIDE DEF Id
      <4> QED BY <1>1, <3>1, ElementOfSeq
    <3> HIDE DEF Fine
    <3> QED BY <1>3, <3>1, <3>2
  <2> QED BY <2>1
<1>6. Fine(done[N])
  <2>1. 0 \in S
    BY <1>4
  <2>2. \A n \in Nat : n \in S
    <3> HIDE DEF S
    <3> QED BY <1>5, <2>1, Counting
  <2> HIDE DEF Fine
  <2> QED BY <1>2, <2>2
<1>7. DeleteRows(t, ids) = Outcome(done[N].t, done[N].log, done[N].log)
  BY <1>1 DEF DeleteRows
<1> QED BY <1>6, <1>7

\* An entry that is replayed is logged again if and only if it takes effect.
LEMMA PerformsReplay ==
  ASSUME NEW t, Named(t), NEW e \in NamedEntries
  PROVE  LET o == Replay(t, e)
         IN  /\ Named(o.t)
             /\ o.logged = IF Effective(RowOf(t, e.id), e) THEN <<e>> ELSE <<>>
             /\ \A x \in Id : RowOf(o.t, x) = StepFor(x, RowOf(t, x), e)
<1> DEFINE o == Replay(t, e)
           s == RowOf(t, e.id)
<1>1. e \in Entries /\ e.id \in Id /\ e.id \notin Nat
  BY NamedEntry
<1>2. Performs(t, o)
  <2>1. CASE e.op = "insert"
    <3>1. e.row \in Row
      BY <1>1, <2>1, EntryKinds
    <3> QED BY <1>1, <2>1, <3>1, PerformsInsertAs DEF Replay
  <2>2. CASE e.op = "update"
    <3>1. e.row \in Row
      BY <1>1, <2>2, EntryKinds
    <3> QED BY <1>1, <2>2, <3>1, PerformsUpdate DEF Replay
  <2>3. CASE e.op = "delete"
    <3>1. <<e.id>> \in Seq(Id \ Nat)
      BY <1>1 DEF Id
    <3> QED BY <2>3, <3>1, PerformsDelete DEF Replay
  <2> QED BY <1>1, <2>1, <2>2, <2>3, EntryKinds
<1>3. o.did = <<>> \/ o.did = <<e>>
  BY <1>1, ReplayDid DEF Named
<1>4. o.did = IF Effective(s, e) THEN <<e>> ELSE <<>>
  <2>1. s = Absent <=> t.idMap[e.id] = 0
    <3>1. t.idMap[e.id] # 0 => s \in Row
      BY <1>1, NamedFields
    <3> QED BY <3>1, AbsentIsNoRow DEF RowOf
  <2>2. GetIndex(t, e.id) = t.idMap[e.id]
    BY <1>1, NamedFields
  <2>3. CASE e.op = "insert"
    <3>1. IsDuplicate(t, e.id) <=> t.idMap[e.id] # 0
      BY <1>1, DuplicateNamed
    <3>2. e = Entry("insert", e.id, e.row)
      BY <1>1, <2>3, EntryKinds
    <3> QED BY <2>1, <2>3, <3>1, <3>2 DEF Replay, InsertAs, Outcome, Effective
  <2>4. CASE e.op = "update"
    <3>1. e = Entry("update", e.id, e.row)
      BY <1>1, <2>4, EntryKinds
    <3> QED BY <2>1, <2>4, <3>1 DEF Replay, UpdateRow, Outcome, Effective
  <2>5. CASE e.op = "delete"
    <3>1. e = Entry("delete", e.id, NoRow)
      BY <1>1, <2>5, EntryKinds
    <3> DEFINE ids == <<e.id>>
    <3> HIDE DEF ids
    <3>2. ids \in Seq(Id) /\ Len(ids) = 1 /\ ids[1] = e.id
      BY <1>1 DEF ids, Id
    <3>3. PICK done : /\ DeleteBatch(t, ids) = done[Len(ids)]
                      /\ done[0] = [t |-> t, log |-> <<>>]
                      /\ \A n \in 1 .. Len(ids) : done[n] = DeleteStep(done[n - 1], ids[n])
      BY <3>2, DeleteBatchSteps
    <3>4. DeleteBatch(t, ids) = DeleteStep([t |-> t, log |-> <<>>], e.id)
      BY <3>2, <3>3
    <3>5. o.did = DeleteBatch(t, ids).log
      BY <2>5 DEF Replay, DeleteRows, Outcome, ids
    <3> QED BY <2>1, <2>2, <2>5, <3>1, <3>4, <3>5 DEF DeleteStep, Effective
  <2> QED BY <1>1, <2>3, <2>4, <2>5, EntryKinds
<1> HIDE DEF o, s
<1>5. PICK g : Path(o.did, g) /\ g[0] = RowsOf(t) /\ g[Len(o.did)] = RowsOf(o.t)
  BY <1>2 DEF Performs
<1>6. s \in State /\ RowsOf(t) \in [Id -> State]
  BY <1>1, NamedFields DEF s, RowsOf
<1>7. RowsOf(o.t) = [RowsOf(t) EXCEPT ![e.id] = Follow(@, e)]
  <2>1. CASE Effective(s, e)
    <3>1. Len(o.did) = 1 /\ o.did[1] = e
      BY <1>4, <2>1
    <3>2. Takes(g[0], e, g[1])
      BY <1>5, <3>1 DEF Path
    <3> QED BY <1>5, <3>1, <3>2 DEF Takes
  <2>2. CASE ~Effective(s, e)
    <3>1. Len(o.did) = 0
      BY <1>4, <2>2
    <3>2. Follow(s, e) = s
      BY <1>1, <1>6, <2>2, NotEffective
    <3>3. RowsOf(t)[e.id] = s
      BY <1>1 DEF RowsOf, s
    <3> HIDE DEF Id, State
    <3> QED BY <1>1, <1>5, <1>6, <3>1, <3>2, <3>3
  <2> QED BY <2>1, <2>2
<1>8. ASSUME NEW x \in Id
      PROVE  RowOf(o.t, x) = StepFor(x, RowOf(t, x), e)
  <2>1. RowOf(o.t, x) = RowsOf(o.t)[x] /\ RowOf(t, x) = RowsOf(t)[x]
    BY DEF RowsOf
  <2> HIDE DEF Id, State
  <2> QED BY <1>1, <1>6, <1>7, <2>1 DEF StepFor
<1>9. Named(o.t) /\ o.logged = IF Effective(s, e) THEN <<e>> ELSE <<>>
  BY <1>2, <1>4 DEF Performs
<1> QED BY <1>8, <1>9 DEF o, s

-----------------------------------------------------------------------------
(* What clients expect, and what the log says *)

\* Part of a path is the path of a part of its entries.
LEMMA PathPrefix ==
  ASSUME NEW es \in Seq(NamedEntries), NEW g, Path(es, g), NEW k \in 0 .. Len(es)
  PROVE  /\ SubSeq(es, 1, k) \in Seq(NamedEntries) /\ Len(SubSeq(es, 1, k)) = k
         /\ \A i \in 1 .. k : SubSeq(es, 1, k)[i] = es[i]
         /\ Path(SubSeq(es, 1, k), g)
<1> HIDE DEF NamedEntries
<1>1. Len(es) \in Nat
  BY LenProperties
<1>2. /\ SubSeq(es, 1, k) \in Seq(NamedEntries) /\ Len(SubSeq(es, 1, k)) = k
      /\ \A i \in 1 .. k : SubSeq(es, 1, k)[i] = es[i]
  <2>1. \A i \in 1 .. k : es[i] \in NamedEntries
    BY <1>1, ElementOfSeq
  <2> QED BY <1>1, <2>1, SubSeqProperties
<1>3. Path(SubSeq(es, 1, k), g)
  BY <1>1, <1>2 DEF Path
<1> QED BY <1>2, <1>3

\* What the last entry about an id gives it.
Final(es, i, n) == \A j \in i + 1 .. n : es[j].id # es[i].id
\* What an entry that changes the table leaves its id with.
Left(e) == IF e.op = "delete" THEN Absent ELSE e.row

\* After a path an id has what the last entry about it left, or what it had before.
LEMMA PathLast ==
  ASSUME NEW es \in Seq(NamedEntries), NEW g, Path(es, g), NEW x \in Id
  PROVE  \/ (\A i \in 1 .. Len(es) : es[i].id # x) /\ g[Len(es)][x] = g[0][x]
         \/ \E i \in 1 .. Len(es) :
              es[i].id = x /\ Final(es, i, Len(es)) /\ g[Len(es)][x] = Left(es[i])
<1> DEFINE Said(n) == \/ (\A i \in 1 .. n : es[i].id # x) /\ g[n][x] = g[0][x]
                      \/ \E i \in 1 .. n :
                           es[i].id = x /\ Final(es, i, n) /\ g[n][x] = Left(es[i])
           S == {n \in Nat : n <= Len(es) => Said(n)}
<1>1. Len(es) \in Nat
  BY LenProperties
<1>2. 0 \in S
  OBVIOUS
<1>3. ASSUME NEW n \in Nat, n \in S
      PROVE  n + 1 \in S
  <2> SUFFICES ASSUME n + 1 <= Len(es)  PROVE Said(n + 1)
    OBVIOUS
  <2> DEFINE e == es[n + 1]
  <2>1. n + 1 \in 1 .. Len(es) /\ n \in 0 .. Len(es) /\ n + 1 - 1 = n
    BY <1>1
  <2>2. Said(n)
    BY <1>1, <1>3
  <2>3. /\ Takes(g[n], e, g[n + 1])
        /\ g[n] \in [Id -> State]
    BY <2>1 DEF Path
  <2>4. e \in Entries /\ e.id \in Id
    BY <2>3, NamedEntry DEF Takes
  <2>5. CASE e.id = x
    <3>1. Effective(g[n][x], e) /\ g[n + 1] = [g[n] EXCEPT ![x] = Follow(@, e)]
      BY <2>3, <2>5 DEF Takes
    <3>2. g[n + 1][x] = Follow(g[n][x], e)
      <4> HIDE DEF e, Id, State
      <4> QED BY <2>3, <3>1
    <3>3. Follow(g[n][x], e) = Left(e)
      BY <2>4, <3>1, EntryKinds DEF Follow, Left, Effective
    <3>4. Final(es, n + 1, n + 1)
      BY DEF Final
    <3>5. n + 1 \in 1 .. n + 1
      OBVIOUS
    <3> QED BY <2>5, <3>2, <3>3, <3>4, <3>5
  <2>6. CASE e.id # x
    <3>1. g[n + 1][x] = g[n][x]
      <4> HIDE DEF e, Id, State
      <4> QED BY <2>3, <2>6 DEF Takes
    <3>2. \A i \in 1 .. n + 1 : i \in 1 .. n \/ i = n + 1
      OBVIOUS
    <3>3. CASE (\A i \in 1 .. n : es[i].id # x) /\ g[n][x] = g[0][x]
      BY <2>6, <3>1, <3>2, <3>3
    <3>4. CASE \E i \in 1 .. n : es[i].id = x /\ Final(es, i, n) /\ g[n][x] = Left(es[i])
      <4>1. PICK i \in 1 .. n : es[i].id = x /\ Final(es, i, n) /\ g[n][x] = Left(es[i])
        BY <3>4
      <4>2. Final(es, i, n + 1)
        <5>1. \A j \in i + 1 .. n + 1 : j \in i + 1 .. n \/ j = n + 1
          OBVIOUS
        <5> QED BY <2>6, <4>1, <5>1 DEF Final
      <4>3. i \in 1 .. n + 1
        OBVIOUS
      <4> QED BY <3>1, <4>1, <4>2, <4>3
    <3> QED BY <2>2, <3>3, <3>4
  <2> QED BY <2>5, <2>6
<1>4. \A n \in Nat : n \in S
  <2> HIDE DEF S
  <2> QED BY <1>2, <1>3, Counting
<1>5. Said(Len(es))
  <2> HIDE DEF Said
  <2> QED BY <1>1, <1>4
<1> QED BY <1>5

\* What clients expect of a path is where it leads.
LEMMA PathEffects ==
  ASSUME NEW es \in Seq(NamedEntries), NEW g, Path(es, g)
  PROVE  Effects(Shape(g[0]), es) = Shape(g[Len(es)])
<1> DEFINE n == Len(es)
           kept == {k \in Shape(g[0]) : \A i \in 1 .. n : es[i].id # k.id}
           put == {[id |-> es[i].id, row |-> es[i].row] :
                     i \in {j \in 1 .. n : Final(es, j, n) /\ es[j].op # "delete"}}
<1>1. Effects(Shape(g[0]), es) = kept \cup put
  BY DEF Effects, Final
<1>2. n \in Nat
  BY LenProperties
<1>3. \A i \in 1 .. n : es[i] \in Entries /\ es[i].id \in Id
  <2> HIDE DEF Id, Entries, NamedEntries
  <2> QED BY <1>2, ElementOfSeq, NamedEntry
<1>4. ASSUME NEW k \in kept
      PROVE  k \in Shape(g[n])
  <2>1. PICK x \in Id : g[0][x] # Absent /\ k = [id |-> x, row |-> g[0][x]]
    BY <1>4 DEF Shape
  <2>2. \A i \in 1 .. n : es[i].id # x
    BY <1>4, <2>1
  <2>3. g[n][x] = g[0][x]
    BY <2>2, PathLast
  <2> QED BY <2>1, <2>3 DEF Shape
<1>5. ASSUME NEW i \in 1 .. n, Final(es, i, n), es[i].op # "delete"
      PROVE  [id |-> es[i].id, row |-> es[i].row] \in Shape(g[n])
  <2> DEFINE x == es[i].id
  <2>1. PICK m \in 1 .. n : es[m].id = x /\ Final(es, m, n) /\ g[n][x] = Left(es[m])
    BY <1>3, PathLast
  <2>2. m = i
    <3>1. ~(m < i)
      <4>1. m < i => i \in m + 1 .. n
        OBVIOUS
      <4> QED BY <2>1, <4>1 DEF Final
    <3>2. ~(i < m)
      <4>1. i < m => m \in i + 1 .. n
        OBVIOUS
      <4> QED BY <1>5, <2>1, <4>1 DEF Final
    <3> QED BY <3>1, <3>2
  <2>3. g[n][x] = es[i].row /\ es[i].row \in Row
    BY <1>3, <1>5, <2>1, <2>2, EntryKinds DEF Left
  <2> QED BY <1>3, <2>3, AbsentIsNoRow DEF Shape
<1>6. ASSUME NEW x \in Id, g[n][x] # Absent
      PROVE  [id |-> x, row |-> g[n][x]] \in kept \cup put
  <2>1. CASE (\A i \in 1 .. n : es[i].id # x) /\ g[n][x] = g[0][x]
    <3>1. [id |-> x, row |-> g[0][x]] \in Shape(g[0])
      BY <1>6, <2>1 DEF Shape
    <3> QED BY <2>1, <3>1
  <2>2. CASE \E i \in 1 .. n : es[i].id = x /\ Final(es, i, n) /\ g[n][x] = Left(es[i])
    <3>1. PICK i \in 1 .. n : es[i].id = x /\ Final(es, i, n) /\ g[n][x] = Left(es[i])
      BY <2>2
    <3>2. es[i].op # "delete" /\ g[n][x] = es[i].row
      BY <1>6, <3>1 DEF Left
    <3>3. [id |-> es[i].id, row |-> es[i].row] \in put
      BY <3>1, <3>2
    <3> HIDE DEF put
    <3> QED BY <3>1, <3>2, <3>3
  <2> HIDE DEF kept, put
  <2> QED BY <2>1, <2>2, PathLast
<1>7. Shape(g[n]) \subseteq kept \cup put
  <2> HIDE DEF kept, put
  <2> QED BY <1>6 DEF Shape
<1>8. put \subseteq Shape(g[n])
  <2> SUFFICES ASSUME NEW k \in put  PROVE k \in Shape(g[n])
    BY Zenon
  <2> QED BY <1>5
<1> HIDE DEF kept, put
<1> QED BY <1>1, <1>4, <1>7, <1>8

\* The log and one entry more.
LEMMA LongerConcat ==
  ASSUME NEW L \in Seq(NamedEntries), NEW es \in Seq(NamedEntries), NEW k \in Nat, k + 1 <= Len(es)
  PROVE  /\ Len(L \o SubSeq(es, 1, k)) \in Nat
         /\ Longer(L \o SubSeq(es, 1, k), es[k + 1], L \o SubSeq(es, 1, k + 1))
<1> DEFINE a == SubSeq(es, 1, k)
           b == SubSeq(es, 1, k + 1)
<1> HIDE DEF NamedEntries
<1>1. Len(es) \in Nat /\ Len(L) \in Nat /\ \A i \in 1 .. Len(es) : es[i] \in NamedEntries
  BY LenProperties, ElementOfSeq
<1>2. /\ a \in Seq(NamedEntries) /\ Len(a) = k /\ \A i \in 1 .. k : a[i] = es[i]
      /\ b \in Seq(NamedEntries) /\ Len(b) = k + 1 /\ \A i \in 1 .. k + 1 : b[i] = es[i]
  BY <1>1, SubSeqProperties
<1> HIDE DEF a, b
<1>3. /\ Len(L \o a) = Len(L) + k /\ Len(L \o b) = Len(L) + k + 1
      /\ \A p \in 1 .. Len(L) + k : (L \o a)[p] = IF p <= Len(L) THEN L[p] ELSE a[p - Len(L)]
      /\ \A p \in 1 .. Len(L) + k + 1 : (L \o b)[p] = IF p <= Len(L) THEN L[p] ELSE b[p - Len(L)]
  <2>1. /\ Len(L \o a) = Len(L) + Len(a)
        /\ \A p \in 1 .. Len(L) + Len(a) :
             (L \o a)[p] = IF p <= Len(L) THEN L[p] ELSE a[p - Len(L)]
    BY <1>2, ConcatLookup
  <2>2. /\ Len(L \o b) = Len(L) + Len(b)
        /\ \A p \in 1 .. Len(L) + Len(b) :
             (L \o b)[p] = IF p <= Len(L) THEN L[p] ELSE b[p - Len(L)]
    BY <1>2, ConcatLookup
  <2>3. Len(L) + Len(b) = Len(L) + k + 1
    BY <1>1, <1>2
  <2> QED BY <1>2, <2>1, <2>2, <2>3
<1>4. ASSUME NEW p \in 1 .. Len(L) + k
      PROVE  (L \o b)[p] = (L \o a)[p]
  <2>1. p \in 1 .. Len(L) + k + 1 /\ (~(p <= Len(L)) => p - Len(L) \in 1 .. k)
    BY <1>1
  <2>2. ~(p <= Len(L)) => a[p - Len(L)] = b[p - Len(L)]
    BY <1>1, <1>2, <2>1
  <2> QED BY <1>3, <2>1, <2>2
<1>5. (L \o b)[Len(L) + k + 1] = es[k + 1]
  <2>1. /\ Len(L) + k + 1 \in 1 .. Len(L) + k + 1 /\ ~(Len(L) + k + 1 <= Len(L))
        /\ Len(L) + k + 1 - Len(L) = k + 1 /\ k + 1 \in 1 .. k + 1
    BY <1>1
  <2> QED BY <1>2, <1>3, <2>1
<1> QED BY <1>1, <1>3, <1>4, <1>5 DEF Longer, a, b

\* The log stays one that recovers every id, call by call.
LEMMA PathRecoverable ==
  ASSUME NEW L \in Seq(NamedEntries), NEW es \in Seq(NamedEntries), NEW g, Path(es, g), NEW S,
         \A x \in Id : Recoverable(x, L, <<>>, g[0][x], S[x], g[0][x])
  PROVE  \A x \in Id :
           Recoverable(x, L \o es, <<>>, g[Len(es)][x], S[x], g[Len(es)][x])
<1> DEFINE Safe(k) == \A x \in Id :
                        Recoverable(x, L \o SubSeq(es, 1, k), <<>>, g[k][x], S[x], g[k][x])
           Good0 == {k \in Nat : k <= Len(es) => Safe(k)}
<1>1. Len(es) \in Nat
  BY LenProperties
<1>2. L \o SubSeq(es, 1, 0) = L /\ SubSeq(es, 1, Len(es)) = es
  <2> HIDE DEF NamedEntries
  <2>1. SubSeq(es, 1, 0) = <<>>
    BY SubSeqEmpty
  <2> QED BY <2>1, ConcatEmptySeq, SubSeqFull
<1>3. 0 \in Good0
  BY <1>2
<1>4. ASSUME NEW k \in Nat, k \in Good0
      PROVE  k + 1 \in Good0
  <2> SUFFICES ASSUME k + 1 <= Len(es)  PROVE Safe(k + 1)
    OBVIOUS
  <2> DEFINE e == es[k + 1]
             M == L \o SubSeq(es, 1, k)
             N == L \o SubSeq(es, 1, k + 1)
  <2>1. k + 1 \in 1 .. Len(es) /\ k \in 0 .. Len(es) /\ k + 1 - 1 = k
    BY <1>1
  <2>2. Safe(k)
    BY <1>1, <1>4
  <2>3. Takes(g[k], e, g[k + 1]) /\ g[k] \in [Id -> State]
    BY <2>1 DEF Path
  <2>4. e \in Entries /\ e.id \in Id
    BY <2>3, NamedEntry DEF Takes
  <2>5. Len(M) \in Nat /\ Longer(M, e, N)
    BY LongerConcat
  <2>6. Effective(g[k][e.id], e) /\ g[k + 1] = [g[k] EXCEPT ![e.id] = Follow(@, e)]
    BY <2>3 DEF Takes
  <2> HIDE DEF M, N, e
  <2>7. ASSUME NEW x \in Id, x # e.id
        PROVE  Recoverable(x, N, <<>>, g[k + 1][x], S[x], g[k + 1][x])
    <3>1. g[k + 1][x] = g[k][x]
      <4> HIDE DEF Id, State
      <4> QED BY <2>3, <2>6, <2>7
    <3>2. Recoverable(x, M, <<>>, g[k][x], S[x], g[k][x])
      BY <2>2 DEF M
    <3> QED BY <2>4, <2>5, <2>7, <3>1, <3>2, OtherEntry
  <2>8. Recoverable(e.id, N, <<>>, g[k + 1][e.id], S[e.id], g[k + 1][e.id])
    <3> DEFINE c == g[k][e.id]
    <3>1. g[k + 1][e.id] = Follow(c, e) /\ c \in State
      <4> HIDE DEF Id, State
      <4> QED BY <2>3, <2>4, <2>6
    <3>2. Recoverable(e.id, M, <<>>, c, S[e.id], c)
      BY <2>2, <2>4 DEF M
    <3> HIDE DEF c
    <3>3. Recoverable(e.id, N, <<>>, Follow(c, e), S[e.id], Follow(c, e))
      BY <2>4, <2>5, <2>6, <3>1, <3>2, CallRecoverable DEF c
    <3> QED BY <3>1, <3>3
  <2> QED BY <2>7, <2>8 DEF N
<1>5. Safe(Len(es))
  <2>1. \A k \in Nat : k \in Good0
    <3> HIDE DEF Good0
    <3> QED BY <1>3, <1>4, Counting
  <2> HIDE DEF Safe
  <2> QED BY <1>1, <2>1
<1> QED BY <1>2, <1>5

-----------------------------------------------------------------------------
(* The log recovers *)

\* The rows an id has in the images.
ImageRows(d, x) == {RowOf(Rebuild(f), x) : f \in {g \in {d.path, d.bak} : IsImage(g)}}

\* The complete database files hold tables of named rows.
NamedImages(d) == \A f \in {d.path, d.bak} : IsImage(f) => Named(Rebuild(f))

\* The log holds what brings every image, and the table as far as it was
\* replayed, to contents that clients may expect.
LogHolds ==
  \E c \in [Id -> State] :
    /\ Shape(c) \in expected
    /\ \A x \in Id :
         Recoverable(x, file.lines, pending, RowOf(table, x), ImageRows(disk, x), c[x])

\* The invariant of disciplined clients.
DInv ==
  Disciplined =>
    /\ Named(table)
    /\ NamedImages(disk)
    /\ file = [lines |-> file.lines, open |-> FALSE]
    /\ file.lines \in Seq(NamedEntries)
    /\ pending \in Seq(NamedEntries)
    /\ LogHolds

\* Appending to a log whose last line is finished.
LEMMA WrittenPlain ==
  ASSUME NEW f, f = [lines |-> f.lines, open |-> FALSE],
         f.lines \in Seq(NamedEntries), NEW es \in Seq(NamedEntries)
  PROVE  /\ Written(f, es) = [lines |-> f.lines \o es, open |-> FALSE]
         /\ f.lines \o es \in Seq(NamedEntries)
<1> HIDE DEF NamedEntries
<1>1. f.lines \o es \in Seq(NamedEntries)
  BY ConcatProperties
<1>2. CASE es = <<>>
  <2>1. f.lines \o <<>> = f.lines
    BY ConcatEmptySeq
  <2> QED BY <1>1, <1>2, <2>1 DEF Written
<1>3. CASE es # <<>>
  BY <1>1, <1>3 DEF Written
<1> QED BY <1>2, <1>3

\* Recovery reads all of it.
LEMMA ReadAllPlain ==
  ASSUME NEW f, f.lines \in Seq(NamedEntries)
  PROVE  ReadAll(f) = f.lines
<1>1. \A i \in 1 .. Len(f.lines) : f.lines[i] # Garbage
  <2>1. Garbage \notin NamedEntries
    BY GarbageAssumption DEF NamedEntries
  <2> HIDE DEF NamedEntries
  <2> QED BY <2>1, ElementOfSeq
<1>2. DOMAIN f.lines = 1 .. Len(f.lines)
  <2> HIDE DEF NamedEntries
  <2> QED BY LenProperties
<1> QED BY <1>1, <1>2 DEF ReadAll, Range

\* What a new process starts from is in an image, or nothing.
LEMMA RestartNamed ==
  ASSUME NEW f, NEW d, d = [path |-> d.path, bak |-> d.bak], NamedImages(d), Restart(f, d)
  PROVE  /\ Named(table') /\ NamedImages(disk')
         /\ file' = f /\ pending' = ReadAll(f)
         /\ \A x \in Id : /\ RowOf(table', x) \in ImageRows(d, x) \cup {Absent}
                          /\ ImageRows(disk', x) \subseteq ImageRows(d, x)
<1>1. PICK s \in Starts(d) : disk' = s.disk /\ table' = s.table
  BY DEF Restart
<1>2. file' = f /\ pending' = ReadAll(f)
  BY DEF Restart
<1>3. ASSUME NEW p, p = d.path \/ p = d.bak, IsImage(p)
      PROVE  Named(Rebuild(p)) /\ \A x \in Id : RowOf(Rebuild(p), x) \in ImageRows(d, x)
  BY <1>3 DEF NamedImages, ImageRows
<1>4. CASE IsImage(d.path) /\ s = [disk |-> d, table |-> Rebuild(d.path)]
  BY <1>1, <1>2, <1>3, <1>4
<1>5. CASE s = [disk |-> d, table |-> EmptyTable]
  BY <1>1, <1>2, <1>5, EmptyNamed
<1>6. CASE IsImage(d.bak) /\ s = [disk |-> [d EXCEPT !.path = d.bak], table |-> Rebuild(d.bak)]
  <2>1. \A x, y : [[path |-> x, bak |-> y] EXCEPT !.path = y] = [path |-> y, bak |-> y]
    OBVIOUS
  <2>2. disk' = [path |-> d.bak, bak |-> d.bak] /\ table' = Rebuild(d.bak)
    BY <1>1, <1>6, <2>1
  <2>3. NamedImages(disk') /\ \A x : ImageRows(disk', x) \subseteq ImageRows(d, x)
    BY <2>2 DEF NamedImages, ImageRows
  <2> QED BY <1>2, <1>3, <1>6, <2>2, <2>3
<1> QED BY <1>1, <1>4, <1>5, <1>6 DEF Starts

\* A call of a disciplined client, to its end or to a crash.
LEMMA CallHolds ==
  ASSUME WInv, DInv, Disciplined, NEW o, Performs(table, o), Call(o)
  PROVE  DInv'
<1>1. /\ phase = "running" /\ pending = <<>> /\ profile' = profile
      /\ disk = [path |-> disk.path, bak |-> disk.bak]
      /\ profile.faults \subseteq {"in_save", "save_error"}
  BY DEF WInv, DiskFiles, Call, Disciplined
<1>2. PICK c \in [Id -> State] :
        /\ Shape(c) \in expected
        /\ \A x \in Id :
             Recoverable(x, file.lines, <<>>, RowOf(table, x), ImageRows(disk, x), c[x])
  BY <1>1 DEF DInv, LogHolds
<1>3. \A x \in Id : RowOf(table, x) = c[x]
  BY <1>2, Recovered
<1>4. RowsOf(table) = c
  <2> HIDE DEF Id, State
  <2> QED BY <1>3 DEF RowsOf
<1>5. PICK g : Path(o.did, g) /\ g[0] = c /\ g[Len(o.did)] = RowsOf(o.t)
  BY <1>4 DEF Performs
<1>6. /\ o.logged = o.did /\ o.did \in Seq(NamedEntries) /\ Named(o.t)
      /\ Len(o.did) \in Nat /\ file = [lines |-> file.lines, open |-> FALSE]
      /\ file.lines \in Seq(NamedEntries) /\ NamedImages(disk)
  BY LenProperties DEF Performs, DInv
<1> DEFINE L(k) == file.lines \o SubSeq(o.did, 1, k)
           part(k) == SubSeq(o.did, 1, k)
           S == [x \in Id |-> ImageRows(disk, x)]
<1>7. ASSUME NEW k \in 0 .. Len(o.did)
      PROVE  /\ Written(file, part(k)) = [lines |-> L(k), open |-> FALSE]
             /\ L(k) \in Seq(NamedEntries)
             /\ g[k] \in [Id -> State]
             /\ Shape(g[k]) = Effects(Shape(c), part(k))
             /\ \A x \in Id :
                  Recoverable(x, L(k), <<>>, g[k][x], ImageRows(disk, x), g[k][x])
  <2>1. part(k) \in Seq(NamedEntries) /\ Len(part(k)) = k /\ Path(part(k), g)
    BY <1>5, <1>6, PathPrefix
  <2> HIDE DEF part
  <2>2. L(k) = file.lines \o part(k)
    BY DEF part
  <2> HIDE DEF L
  <2>3. /\ Written(file, part(k)) = [lines |-> L(k), open |-> FALSE]
        /\ L(k) \in Seq(NamedEntries)
    <3> HIDE DEF NamedEntries
    <3> QED BY <1>6, <2>1, <2>2, WrittenPlain
  <2>4. g[k] \in [Id -> State]
    BY <1>5 DEF Path
  <2>5. Effects(Shape(g[0]), part(k)) = Shape(g[Len(part(k))])
    BY <2>1, PathEffects
  <2>6. Shape(g[k]) = Effects(Shape(c), part(k))
    BY <1>5, <2>1, <2>5
  <2>7. \A x \in Id : Recoverable(x, file.lines, <<>>, g[0][x], S[x], g[0][x])
    BY <1>2, <1>3, <1>5
  <2> HIDE DEF S
  <2>8. \A x \in Id : Recoverable(x, file.lines \o part(k), <<>>,
                                  g[Len(part(k))][x], S[x], g[Len(part(k))][x])
    BY <1>6, <2>1, <2>7, PathRecoverable
  <2>9. \A x \in Id : S[x] = ImageRows(disk, x)
    BY DEF S
  <2> QED BY <2>1, <2>2, <2>3, <2>4, <2>6, <2>8, <2>9
<1> HIDE DEF L, part, S
<1>8. CASE Complete(o)
  <2> DEFINE n == Len(o.did)
  <2>1. n \in 0 .. n /\ "append_fails" \notin profile.faults
    BY <1>1, <1>6
  <2>2. /\ file' = Written(file, part(n)) /\ table' = o.t
        /\ expected' = {Effects(K, o.did) : K \in expected}
        /\ UNCHANGED <<disk, pending>>
    BY <1>6, <1>8, <2>1 DEF Complete, part
  <2>3. part(n) = o.did
    <3> HIDE DEF NamedEntries
    <3> QED BY <1>6, SubSeqFull DEF part
  <2>4. Shape(g[n]) \in expected'
    BY <1>2, <1>7, <2>1, <2>2, <2>3
  <2>5. /\ file' = [lines |-> L(n), open |-> FALSE] /\ L(n) \in Seq(NamedEntries)
        /\ g[n] \in [Id -> State]
        /\ \A x \in Id : Recoverable(x, L(n), <<>>, g[n][x], ImageRows(disk, x), g[n][x])
    BY <1>7, <2>1, <2>2
  <2>6. \A x \in Id : RowOf(o.t, x) = g[n][x]
    BY <1>5 DEF RowsOf
  <2>7. \A x \in Id : Recoverable(x, file'.lines, pending', RowOf(table', x),
                                  ImageRows(disk', x), g[n][x])
    BY <1>1, <2>2, <2>5, <2>6
  <2>8. LogHolds'
    BY <2>4, <2>5, <2>7 DEF LogHolds
  <2>9. pending' \in Seq(NamedEntries)
    BY <2>2, <1>1
  <2> HIDE DEF n
  <2> QED BY <1>6, <2>2, <2>5, <2>8, <2>9 DEF DInv
<1>9. CASE CrashInside(o)
  <2>1. "torn" \notin profile.faults
    BY <1>1
  <2>2. PICK k \in 0 .. Len(o.did) :
          /\ Restart(Written(file, part(k)), disk)
          /\ expected' = {Effects(K, SubSeq(o.did, 1, j)) : K \in expected, j \in 0 .. Len(o.did)}
    BY <1>6, <1>9, <2>1 DEF CrashInside, part
  <2>3. Shape(g[k]) \in expected'
    <3>1. Shape(g[k]) = Effects(Shape(c), SubSeq(o.did, 1, k))
      BY <1>7 DEF part
    <3> DEFINE K0 == Shape(c)
               E(K, j) == Effects(K, SubSeq(o.did, 1, j))
    <3>2. Effects(Shape(c), SubSeq(o.did, 1, k)) \in
            {Effects(K, SubSeq(o.did, 1, j)) : K \in expected, j \in 0 .. Len(o.did)}
      <4>1. K0 \in expected
        BY <1>2
      <4> HIDE DEF K0, E
      <4>2. E(K0, k) \in {E(K, j) : K \in expected, j \in 0 .. Len(o.did)}
        BY <4>1
      <4> QED BY <4>2 DEF E, K0
    <3> QED BY <2>2, <3>1, <3>2
  <2> DEFINE f == Written(file, part(k))
  <2>4. f = [lines |-> L(k), open |-> FALSE] /\ L(k) \in Seq(NamedEntries)
    BY <1>7
  <2> HIDE DEF f
  <2>5. /\ Named(table') /\ NamedImages(disk')
        /\ file' = f /\ pending' = ReadAll(f)
        /\ \A x \in Id : /\ RowOf(table', x) \in ImageRows(disk, x) \cup {Absent}
                         /\ ImageRows(disk', x) \subseteq ImageRows(disk, x)
    BY <1>1, <1>6, <2>2, RestartNamed DEF f
  <2>6. file'.lines = L(k) /\ pending' = L(k) /\ file' = [lines |-> file'.lines, open |-> FALSE]
    BY <2>4, <2>5, ReadAllPlain
  <2>7. \A x \in Id : RowOf(table', x) \in State
    BY <2>5, NamedFields DEF RowOf, State
  <2>8. ASSUME NEW x \in Id
        PROVE  Recoverable(x, L(k), L(k), RowOf(table', x), ImageRows(disk', x), g[k][x])
    <3>1. Recoverable(x, L(k), <<>>, g[k][x], ImageRows(disk, x), g[k][x])
      BY <1>7
    <3> QED BY <2>5, <2>7, <3>1, RestartRecoverable
  <2>9. LogHolds'
    BY <1>7, <2>3, <2>6, <2>8 DEF LogHolds
  <2> QED BY <2>4, <2>5, <2>6, <2>9 DEF DInv
<1> QED BY <1>8, <1>9 DEF Call

\* The calls such clients make: the others log nothing, or give ids that a
\* replayed entry could not name.
LEMMA DisciplinedCalls ==
  ASSUME WInv, DInv, Disciplined,
         ClientInsert \/ ClientInsertAs \/ ClientInsertBatch \/ ClientUpdate
           \/ ClientUpdateValues \/ ClientDelete
  PROVE  \E o : Performs(table, o) /\ Call(o)
<1>1. Named(table) /\ profile.ids \subseteq Id \ Nat
  BY DEF DInv, WInv, Profile, Disciplined
<1>2. ~(ClientInsert \/ ClientInsertBatch \/ ClientUpdateValues)
  BY DEF ClientInsert, ClientInsertBatch, ClientUpdateValues, Disciplined, LoggedCalls
<1>3. CASE ClientInsertAs
  <2>1. PICK id \in CustomIds \cap profile.ids, row \in Row : Call(InsertAs(table, id, row))
    BY <1>3 DEF ClientInsertAs
  <2> QED BY <1>1, <2>1, PerformsInsertAs
<1>4. CASE ClientUpdate
  <2>1. PICK id \in profile.ids, row \in Row : Call(UpdateRow(table, id, row))
    BY <1>4 DEF ClientUpdate
  <2> QED BY <1>1, <2>1, PerformsUpdate
<1>5. CASE ClientDelete
  <2>1. PICK ids \in SeqOf(profile.ids, 2) : Call(DeleteRows(table, ids))
    BY <1>5 DEF ClientDelete
  <2>2. ids \in Seq(Id \ Nat)
    <3>1. PICK m \in 0 .. 2 : ids \in [1 .. m -> profile.ids]
      BY DEF SeqOf
    <3> HIDE DEF Id
    <3>2. ids \in [1 .. m -> Id \ Nat] /\ m \in Nat
      BY <1>1, <3>1
    <3> QED BY <3>2, IsASeq
  <2> QED BY <1>1, <2>1, <2>2, PerformsDelete
<1> QED BY <1>2, <1>3, <1>4, <1>5

\* In every state of a save the files hold what they held before, the table, or
\* nothing complete.
LEMMA SaveStepsParts ==
  ASSUME NEW d, d = [path |-> d.path, bak |-> d.bak], NEW a, NEW k \in 1 .. Len(SaveSteps(d, a))
  PROVE  LET s == SaveSteps(d, a)[k]
         IN  /\ s = [path |-> s.path, bak |-> s.bak]
             /\ s.path \in {d.path, d.bak, Torn, a} /\ s.bak \in {d.path, d.bak, Torn, a}
<1> DEFINE s == SaveSteps(d, a)[k]
           Parts == {d.path, d.bak, Torn, a}
<1>1. \A x, y : s = [path |-> x, bak |-> y] =>
        s = [path |-> s.path, bak |-> s.bak] /\ s.path = x /\ s.bak = y
  <2> HIDE DEF s
  <2> QED OBVIOUS
<1>2. \E x, y \in Parts : s = [path |-> x, bak |-> y]
  <2>1. CASE d.path = NoFile
    <3> DEFINE q == <<[path |-> Torn, bak |-> d.bak], [path |-> a, bak |-> d.bak]>>
    <3>1. SaveSteps(d, a) = q
      BY <2>1, SaveStepsStates
    <3>2. Len(q) = 2 /\ q[1] = [path |-> Torn, bak |-> d.bak] /\ q[2] = [path |-> a, bak |-> d.bak]
      OBVIOUS
    <3> HIDE DEF q
    <3>3. k = 1 \/ k = 2
      BY <3>1, <3>2
    <3>4. s = [path |-> Torn, bak |-> d.bak] \/ s = [path |-> a, bak |-> d.bak]
      BY <3>1, <3>2, <3>3
    <3> HIDE DEF s
    <3> QED BY <3>4
  <2>2. CASE d.path # NoFile
    <3> DEFINE p == d.path
               q == <<[path |-> p, bak |-> Torn], [path |-> p, bak |-> p],
                      [path |-> Torn, bak |-> p], [path |-> a, bak |-> p]>>
    <3>1. SaveSteps(d, a) = q
      BY <2>2, SaveStepsStates
    <3>2. Len(q) = 4 /\ q[1] = [path |-> p, bak |-> Torn] /\ q[2] = [path |-> p, bak |-> p]
          /\ q[3] = [path |-> Torn, bak |-> p] /\ q[4] = [path |-> a, bak |-> p]
      OBVIOUS
    <3> HIDE DEF q
    <3>3. k = 1 \/ k = 2 \/ k = 3 \/ k = 4
      BY <3>1, <3>2
    <3>4. \/ s = [path |-> p, bak |-> Torn] \/ s = [path |-> p, bak |-> p]
          \/ s = [path |-> Torn, bak |-> p] \/ s = [path |-> a, bak |-> p]
      BY <3>1, <3>2, <3>3
    <3> HIDE DEF s
    <3> QED BY <3>4
  <2> QED BY <2>1, <2>2
<1> HIDE DEF s
<1> QED BY <1>1, <1>2 DEF s

\* A save adds what the table has to the rows of the images.
LEMMA SaveImages ==
  ASSUME WInv, Named(table), NamedImages(disk), NEW k \in 1 .. Len(SaveSteps(disk, Archive(table)))
  PROVE  LET s == SaveSteps(disk, Archive(table))[k]
         IN  /\ s = [path |-> s.path, bak |-> s.bak]
             /\ NamedImages(s)
             /\ \A x \in Id : ImageRows(s, x) \subseteq ImageRows(disk, x) \cup {RowOf(table, x)}
<1> DEFINE a == Archive(table)
           s == SaveSteps(disk, a)[k]
<1>1. Rebuild(a) = table
  BY ArchiveRebuilt DEF WInv, Inv, Good
<1>2. disk = [path |-> disk.path, bak |-> disk.bak]
  BY DEF WInv, DiskFiles
<1>3. /\ s = [path |-> s.path, bak |-> s.bak]
      /\ s.path \in {disk.path, disk.bak, Torn, a} /\ s.bak \in {disk.path, disk.bak, Torn, a}
  <2> HIDE DEF a
  <2> QED BY <1>2, SaveStepsParts DEF a
<1> HIDE DEF s, a
<1>4. ASSUME NEW f \in {s.path, s.bak}, IsImage(f)
      PROVE  /\ Named(Rebuild(f))
             /\ \A x \in Id : RowOf(Rebuild(f), x) \in ImageRows(disk, x) \cup {RowOf(table, x)}
  <2>1. f = a \/ f \in {disk.path, disk.bak}
    BY <1>3, <1>4 DEF IsImage
  <2>2. CASE f = a
    BY <1>1, <2>2
  <2>3. CASE f \in {disk.path, disk.bak}
    BY <1>4, <2>3 DEF NamedImages, ImageRows
  <2> QED BY <2>1, <2>2, <2>3
<1>5. NamedImages(s)
  BY <1>4 DEF NamedImages
<1>6. ASSUME NEW x \in Id
      PROVE  ImageRows(s, x) \subseteq ImageRows(disk, x) \cup {RowOf(table, x)}
  BY <1>4 DEF ImageRows
<1> QED BY <1>3, <1>5, <1>6 DEF s, a

\* save keeps it: the image it writes is the table, and the log still leads from it to itself.
LEMMA SaveHolds ==
  ASSUME WInv, DInv, Disciplined, Save
  PROVE  DInv'
<1> DEFINE steps == SaveSteps(disk, Archive(table))
<1>1. /\ phase = "running" /\ pending = <<>> /\ UNCHANGED <<profile, expected>>
      /\ Named(table) /\ NamedImages(disk)
      /\ file = [lines |-> file.lines, open |-> FALSE] /\ file.lines \in Seq(NamedEntries)
  BY DEF WInv, Save, DInv
<1>2. PICK c \in [Id -> State] :
        /\ Shape(c) \in expected
        /\ \A x \in Id :
             Recoverable(x, file.lines, <<>>, RowOf(table, x), ImageRows(disk, x), c[x])
  BY <1>1 DEF DInv, LogHolds
<1>3. \A x \in Id : RowOf(table, x) = c[x]
  BY <1>2, Recovered
<1>4. /\ \A k \in 1 .. Len(steps) :
           /\ steps[k] = [path |-> steps[k].path, bak |-> steps[k].bak]
           /\ NamedImages(steps[k])
           /\ \A x \in Id : ImageRows(steps[k], x) \subseteq ImageRows(disk, x) \cup {c[x]}
      /\ Len(steps) \in Nat \ {0}
  <2>1. \A k \in 1 .. Len(steps) :
          /\ steps[k] = [path |-> steps[k].path, bak |-> steps[k].bak]
          /\ NamedImages(steps[k])
          /\ \A x \in Id : ImageRows(steps[k], x) \subseteq ImageRows(disk, x) \cup {RowOf(table, x)}
    BY <1>1, SaveImages
  <2>2. Len(steps) \in Nat \ {0}
    BY ArchiveFile, SaveFiles DEF WInv
  <2> HIDE DEF steps
  <2> QED BY <1>3, <2>1, <2>2
<1>5. \/ /\ disk' \in {disk} \cup {steps[k] : k \in 1 .. Len(steps)}
         /\ UNCHANGED <<table, file, phase, pending>>
      \/ \E k \in 1 .. Len(steps) - 1 : Restart(file, steps[k])
  <2>1. Last(steps) \in {steps[k] : k \in 1 .. Len(steps)}
    <3> HIDE DEF steps
    <3> QED BY <1>4 DEF Last
  <2>2. {steps[k] : k \in 1 .. Len(steps) - 1} \subseteq {steps[k] : k \in 1 .. Len(steps)}
    <3> HIDE DEF steps
    <3> QED BY <1>4
  <2> QED BY <2>1, <2>2 DEF Save
<1> HIDE DEF steps
<1>6. CASE /\ disk' \in {disk} \cup {steps[k] : k \in 1 .. Len(steps)}
           /\ UNCHANGED <<table, file, phase, pending>>
  <2>1. NamedImages(disk') /\ \A x \in Id : ImageRows(disk', x) \subseteq ImageRows(disk, x) \cup {c[x]}
    BY <1>1, <1>4, <1>6
  <2>2. ASSUME NEW x \in Id
        PROVE  Recoverable(x, file'.lines, pending', RowOf(table', x), ImageRows(disk', x), c[x])
    <3>1. ImageRows(disk', x) \subseteq ImageRows(disk, x) \cup {c[x]}
      BY <2>1
    <3>2. Recoverable(x, file.lines, <<>>, c[x], ImageRows(disk, x), c[x])
      BY <1>2, <1>3
    <3>3. Recoverable(x, file.lines, <<>>, c[x], ImageRows(disk', x), c[x])
      BY <3>1, <3>2, SaveRecoverable
    <3> QED BY <1>1, <1>3, <1>6, <3>3
  <2>3. LogHolds'
    BY <1>1, <1>2, <2>2 DEF LogHolds
  <2>5. file' = [lines |-> file'.lines, open |-> FALSE] /\ file'.lines \in Seq(NamedEntries)
        /\ pending' \in Seq(NamedEntries) /\ Named(table')
    BY <1>1, <1>6
  <2> QED BY <2>1, <2>3, <2>5 DEF DInv
<1>7. CASE \E k \in 1 .. Len(steps) - 1 : Restart(file, steps[k])
  <2>1. PICK k \in 1 .. Len(steps) : Restart(file, steps[k])
    BY <1>4, <1>7
  <2> DEFINE d == steps[k]
  <2>2. /\ d = [path |-> d.path, bak |-> d.bak] /\ NamedImages(d)
        /\ \A x \in Id : ImageRows(d, x) \subseteq ImageRows(disk, x) \cup {c[x]}
    BY <1>4
  <2> HIDE DEF d
  <2>3. /\ Named(table') /\ NamedImages(disk')
        /\ file' = file /\ pending' = file.lines
        /\ \A x \in Id : /\ RowOf(table', x) \in ImageRows(d, x) \cup {Absent}
                         /\ ImageRows(disk', x) \subseteq ImageRows(d, x)
    BY <1>1, <2>1, <2>2, RestartNamed, ReadAllPlain DEF d
  <2>4. ASSUME NEW x \in Id
        PROVE  Recoverable(x, file'.lines, pending', RowOf(table', x), ImageRows(disk', x), c[x])
    <3>1. Recoverable(x, file.lines, <<>>, c[x], ImageRows(disk, x), c[x])
      BY <1>2, <1>3
    <3>2. Recoverable(x, file.lines, <<>>, c[x], ImageRows(d, x), c[x])
      BY <2>2, <3>1, SaveRecoverable
    <3>3. RowOf(table', x) \in State
      BY <2>3, NamedFields DEF RowOf, State
    <3>4. /\ RowOf(table', x) \in ImageRows(d, x) \cup {Absent}
          /\ ImageRows(disk', x) \subseteq ImageRows(d, x)
      BY <2>3
    <3>5. Recoverable(x, file.lines, file.lines, RowOf(table', x), ImageRows(disk', x), c[x])
      BY <3>2, <3>3, <3>4, RestartRecoverable
    <3> QED BY <2>3, <3>5
  <2>5. LogHolds'
    BY <1>1, <1>2, <2>4 DEF LogHolds
  <2>6. file' = [lines |-> file'.lines, open |-> FALSE] /\ file'.lines \in Seq(NamedEntries)
        /\ pending' \in Seq(NamedEntries)
    BY <1>1, <2>3
  <2> QED BY <2>3, <2>5, <2>6 DEF DInv
<1> QED BY <1>5, <1>6, <1>7

\* A crash between calls keeps it: the log leads from every image to the table that was lost.
LEMMA CrashHolds ==
  ASSUME WInv, DInv, Disciplined, phase = "running", Restart(file, disk),
         UNCHANGED <<profile, expected>>
  PROVE  DInv'
<1>1. /\ pending = <<>>
      /\ disk = [path |-> disk.path, bak |-> disk.bak]
      /\ Named(table) /\ NamedImages(disk)
      /\ file = [lines |-> file.lines, open |-> FALSE] /\ file.lines \in Seq(NamedEntries)
  BY DEF WInv, DiskFiles, DInv
<1>2. PICK c \in [Id -> State] :
        /\ Shape(c) \in expected
        /\ \A x \in Id :
             Recoverable(x, file.lines, <<>>, RowOf(table, x), ImageRows(disk, x), c[x])
  BY <1>1 DEF DInv, LogHolds
<1>3. /\ Named(table') /\ NamedImages(disk')
      /\ file' = file /\ pending' = file.lines
      /\ \A x \in Id : /\ RowOf(table', x) \in ImageRows(disk, x) \cup {Absent}
                       /\ ImageRows(disk', x) \subseteq ImageRows(disk, x)
  BY <1>1, RestartNamed, ReadAllPlain
<1>4. ASSUME NEW x \in Id
      PROVE  Recoverable(x, file'.lines, pending', RowOf(table', x), ImageRows(disk', x), c[x])
  <2>1. RowOf(table, x) = c[x]
    BY <1>2, Recovered
  <2>2. Recoverable(x, file.lines, <<>>, c[x], ImageRows(disk, x), c[x])
    BY <1>2, <2>1
  <2>3. RowOf(table', x) \in State
    BY <1>3, NamedFields DEF RowOf, State
  <2>4. /\ RowOf(table', x) \in ImageRows(disk, x) \cup {Absent}
        /\ ImageRows(disk', x) \subseteq ImageRows(disk, x)
    BY <1>3
  <2>5. Recoverable(x, file.lines, file.lines, RowOf(table', x), ImageRows(disk', x), c[x])
    BY <2>2, <2>3, <2>4, RestartRecoverable
  <2> QED BY <1>3, <2>5
<1>5. LogHolds'
  BY <1>2, <1>4 DEF LogHolds
<1>6. file' = [lines |-> file'.lines, open |-> FALSE] /\ file'.lines \in Seq(NamedEntries)
      /\ pending' \in Seq(NamedEntries)
  BY <1>1, <1>3
<1> QED BY <1>3, <1>5, <1>6 DEF DInv

\* A step of recovery keeps it: what it appends to the log repeats what the log did.
LEMMA ReplayHolds ==
  ASSUME WInv, DInv, Disciplined, ReplayNext
  PROVE  DInv'
<1> DEFINE e == Head(pending)
           o == Replay(table, e)
<1>1. /\ pending # <<>> /\ pending \in Seq(NamedEntries)
      /\ Named(table) /\ NamedImages(disk) /\ LogHolds
      /\ file = [lines |-> file.lines, open |-> FALSE] /\ file.lines \in Seq(NamedEntries)
  BY DEF ReplayNext, DInv
<1>2. e \in NamedEntries /\ Tail(pending) \in Seq(NamedEntries) /\ pending \in Seq(Entries)
  <2>1. NamedEntries \subseteq Entries
    BY DEF NamedEntries
  <2> HIDE DEF NamedEntries, Entries
  <2> QED BY <1>1, <2>1, HeadTailProperties, SeqMonotonic
<1>3. /\ Named(o.t)
      /\ o.logged = IF Effective(RowOf(table, e.id), e) THEN <<e>> ELSE <<>>
      /\ \A x \in Id : RowOf(o.t, x) = StepFor(x, RowOf(table, x), e)
  BY <1>1, <1>2, PerformsReplay
<1>4. /\ table' = o.t /\ file' = Written(file, o.logged) /\ pending' = Tail(pending)
      /\ UNCHANGED <<profile, disk, expected>>
  BY DEF ReplayNext
<1> HIDE DEF o
<1>5. o.logged \in Seq(NamedEntries)
  <2>1. <<e>> \in Seq(NamedEntries) /\ <<>> \in Seq(NamedEntries)
    <3> HIDE DEF NamedEntries, e
    <3> QED BY <1>2
  <2> QED BY <1>3, <2>1
<1>6. /\ file' = [lines |-> file.lines \o o.logged, open |-> FALSE]
      /\ file.lines \o o.logged \in Seq(NamedEntries)
  <2> HIDE DEF NamedEntries
  <2> QED BY <1>1, <1>4, <1>5, WrittenPlain
<1>7. /\ Len(file.lines) \in Nat
      /\ IF Effective(RowOf(table, e.id), e) THEN Longer(file.lines, e, file'.lines)
                                             ELSE file'.lines = file.lines
  <2>1. Len(file.lines) \in Nat
    BY <1>1, LenProperties
  <2>2. CASE Effective(RowOf(table, e.id), e)
    <3> DEFINE one == <<e>>
    <3>1. one \in Seq(NamedEntries) /\ Len(one) = 1 /\ one[1] = e
      <4> HIDE DEF NamedEntries, e
      <4> QED BY <1>2
    <3>2. file'.lines = file.lines \o one
      BY <1>3, <1>6, <2>2
    <3> HIDE DEF one, NamedEntries, e
    <3>3. /\ Len(file.lines \o one) = Len(file.lines) + Len(one)
          /\ \A p \in 1 .. Len(file.lines) + Len(one) :
               (file.lines \o one)[p] = IF p <= Len(file.lines) THEN file.lines[p]
                                        ELSE one[p - Len(file.lines)]
      BY <1>1, <3>1, ConcatLookup
    <3>4. Longer(file.lines, e, file.lines \o one)
      BY <2>1, <3>1, <3>3 DEF Longer
    <3> QED BY <2>1, <2>2, <3>2, <3>4
  <2>3. CASE ~Effective(RowOf(table, e.id), e)
    <3>1. file.lines \o <<>> = file.lines
      <4> HIDE DEF NamedEntries
      <4> QED BY <1>1, ConcatEmptySeq
    <3> QED BY <1>3, <1>6, <2>1, <2>3, <3>1
  <2> QED BY <2>2, <2>3
<1>8. PICK c \in [Id -> State] :
        /\ Shape(c) \in expected
        /\ \A x \in Id :
             Recoverable(x, file.lines, pending, RowOf(table, x), ImageRows(disk, x), c[x])
  BY <1>1 DEF LogHolds
<1>9. ASSUME NEW x \in Id
      PROVE  Recoverable(x, file'.lines, pending', RowOf(table', x), ImageRows(disk', x), c[x])
  <2>1. Recoverable(x, file.lines, pending, RowOf(table, x), ImageRows(disk, x), c[x])
    BY <1>8
  <2>2. RowOf(table', x) = StepFor(x, RowOf(table, x), e)
    BY <1>3, <1>4
  <2>3. CASE e.id = x
    <3>1. RowOf(table', x) = Follow(RowOf(table, x), e)
      BY <2>2, <2>3 DEF StepFor
    <3>2. Recoverable(x, file'.lines, Tail(pending), Follow(RowOf(table, x), e),
                      ImageRows(disk, x), c[x])
      BY <1>1, <1>2, <1>7, <2>1, <2>3, ReplayRecoverable
    <3> QED BY <1>4, <3>1, <3>2
  <2>4. CASE e.id # x
    <3>1. RowOf(table', x) = RowOf(table, x)
      BY <2>2, <2>4 DEF StepFor
    <3>2. Longer(file.lines, e, file'.lines) \/ file'.lines = file.lines
      BY <1>7
    <3>3. Recoverable(x, file'.lines, Tail(pending), RowOf(table, x), ImageRows(disk, x), c[x])
      BY <1>1, <1>2, <1>7, <2>1, <2>4, <3>2, ReplayOther
    <3> QED BY <1>4, <3>1, <3>3
  <2> QED BY <2>3, <2>4
<1>10. LogHolds'
  BY <1>4, <1>8, <1>9 DEF LogHolds
<1>11. /\ Named(table') /\ NamedImages(disk')
       /\ file' = [lines |-> file'.lines, open |-> FALSE]
  <2>1. NamedImages(disk')
    BY <1>1, <1>4
  <2>2. Named(table')
    BY <1>3, <1>4
  <2>3. file'.lines = file.lines \o o.logged
    BY <1>6
  <2> QED BY <1>6, <2>1, <2>2, <2>3
<1>12. file'.lines \in Seq(NamedEntries) /\ pending' \in Seq(NamedEntries)
  <2> HIDE DEF NamedEntries
  <2>1. file'.lines = file.lines \o o.logged
    BY <1>6
  <2> QED BY <1>2, <1>4, <1>6, <2>1
<1> HIDE DEF e
<1> QED BY <1>10, <1>11, <1>12 DEF DInv

\* It holds of a new database.
LEMMA DInvInit == Init => DInv
<1> SUFFICES ASSUME Init  PROVE DInv
  OBVIOUS
<1>1. /\ table = EmptyTable /\ file = [lines |-> <<>>, open |-> FALSE]
      /\ disk = [path |-> NoFile, bak |-> NoFile] /\ pending = <<>> /\ expected = {{}}
  BY DEF Init
<1> DEFINE c == [x \in Id |-> Absent]
<1>2. c \in [Id -> State] /\ Shape(c) = {}
  BY DEF State, Shape
<1>3. ASSUME NEW x \in Id
      PROVE  Recoverable(x, file.lines, pending, RowOf(table, x), ImageRows(disk, x), c[x])
  <2>1. c[x] = Absent /\ RowOf(table, x) = Absent
    BY <1>1, EmptyNamed
  <2>2. ImageRows(disk, x) = {}
    BY <1>1 DEF ImageRows, IsImage
  <2>3. \A s \in State : Leads(x, s, <<>>, s)
    BY LeadsNowhere
  <2>4. ~Mentions(<<>>, x)
    BY DEF Mentions
  <2>5. Absent \in State
    BY DEF State
  <2> HIDE DEF c
  <2> QED BY <1>1, <2>1, <2>2, <2>3, <2>4, <2>5 DEF Recoverable, Untouched
<1>4. LogHolds
  <2> HIDE DEF c
  <2> QED BY <1>1, <1>2, <1>3 DEF LogHolds
<1>5. NamedImages(disk)
  BY <1>1 DEF NamedImages, IsImage
<1>6. <<>> \in Seq(NamedEntries)
  OBVIOUS
<1> QED BY <1>1, <1>4, <1>5, <1>6, EmptyNamed DEF DInv

\* Every step keeps it.
LEMMA DInvNext == WInv /\ DInv /\ [Next]_vars => DInv'
<1> SUFFICES ASSUME WInv, DInv, [Next]_vars  PROVE DInv'
  OBVIOUS
<1>1. profile' = profile
  BY DEF Next, vars, Call, ClientInsert, ClientInsertAs, ClientInsertBatch, ClientUpdate,
         ClientUpdateValues, ClientDelete, Save, Crash, ReplayNext, RecoveryDone, CrashInRecovery
<1>2. CASE ~Disciplined
  BY <1>1, <1>2 DEF DInv, Disciplined
<1>3. CASE Disciplined
  <2>1. CASE ClientInsert \/ ClientInsertAs \/ ClientInsertBatch \/ ClientUpdate
               \/ ClientUpdateValues \/ ClientDelete
    BY <1>3, <2>1, DisciplinedCalls, CallHolds
  <2>2. CASE Save
    BY <1>3, <2>2, SaveHolds
  <2>3. CASE Crash
    BY <1>3, <2>3, CrashHolds DEF Crash
  <2>4. CASE ReplayNext
    BY <1>3, <2>4, ReplayHolds
  <2>5. CASE RecoveryDone
    BY <2>5 DEF RecoveryDone, DInv, LogHolds, Disciplined
  <2>6. CASE CrashInRecovery
    BY <1>3, <2>6 DEF CrashInRecovery, Disciplined
  <2>7. CASE UNCHANGED vars
    BY <2>7 DEF vars, DInv, LogHolds, Disciplined
  <2> QED BY <2>1, <2>2, <2>3, <2>4, <2>5, <2>6, <2>7 DEF Next
<1> QED BY <1>2, <1>3

\* Clients that make logged calls only and name their ids find, whenever they are
\* served, the contents they were told, with at most a part of a call that a crash
\* interrupted, and each row once: for any number of crashes between calls, inside
\* calls and inside save, and whichever image recovery starts from.
THEOREM DurableHolds == Spec => []Durable
<1>1. WInv /\ DInv => Durable
  <2> SUFFICES ASSUME WInv, DInv, Disciplined, phase = "running"
               PROVE  /\ Contents(table) \in expected
                      /\ Cardinality(Contents(table)) = Len(table.ids)
    BY DEF Durable, LogRecovers
  <2>1. pending = <<>> /\ Named(table) /\ LogHolds
    BY DEF WInv, DInv
  <2>2. PICK c \in [Id -> State] :
          /\ Shape(c) \in expected
          /\ \A x \in Id :
               Recoverable(x, file.lines, <<>>, RowOf(table, x), ImageRows(disk, x), c[x])
    BY <2>1 DEF LogHolds
  <2>3. \A x \in Id : RowOf(table, x) = c[x]
    BY <2>2, Recovered
  <2>4. RowsOf(table) = c
    <3> HIDE DEF Id, State
    <3> QED BY <2>3 DEF RowsOf
  <2> QED BY <2>1, <2>2, <2>4, NamedContents
<1> QED BY <1>1, WInvInit, WInvNext, DInvInit, DInvNext, PTL DEF Spec

=============================================================================
