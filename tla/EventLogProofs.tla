--------------------------- MODULE EventLogProofs ---------------------------
(***************************************************************************)
(* Theorems about EventLog, for any number of commands at any mix of       *)
(* isolation levels: how far the numbers of events can slip from commit    *)
(* order, that a resumed stream leaves out only events whose numbers have, *)
(* and that the browser gets the feed of all the others.                   *)
(***************************************************************************)
EXTENDS EventLog, FiniteSetTheorems, TLAPS

(* What a writer's numbers count from. *)
Counted(w) == IF level[w] = "SERIALIZABLE" THEN tx[w].snapshot ELSE Len(log)

(* Who has numbered an event has the lock, and the numbers go on from what *)
(* the transaction counts.                                                 *)
NumbersReserved ==
  \A w \in Writer :
    tx[w] # NoTx =>
      /\ tx[w].snapshot <= Len(log)
      /\ tx[w].rows # <<>> =>
           /\ lock = w
           /\ Len(log) + Len(tx[w].rows) <= MaxEvents
      /\ \A n \in 1 .. Len(tx[w].rows) :
           tx[w].rows[n].sequence = Counted(w) + n /\ tx[w].rows[n].by = w

(* What has been received and what is on the socket. *)
Sent == seen \o wire

(* Events are sent in the order of their numbers, from the cursor on, and  *)
(* an event in place that orders before a sent one was sent before it.     *)
StreamInOrder ==
  /\ wire \in Seq(Nat) /\ seen \in Seq(Nat)
  /\ cursor = Last(Sent)
  /\ \A i, j \in DOMAIN Sent : i < j => Before(Sent[i], Sent[j])
  /\ \A i \in DOMAIN Sent, m \in DOMAIN log :
       InPlace(m) /\ Before(m, Sent[i]) => \E j \in 1 .. i - 1 : Sent[j] = m

LogInv ==
  /\ TypeOK
  /\ SequenceFollowsCommit
  /\ NumbersReserved
  /\ StreamInOrder
-----------------------------------------------------------------------------
(***************************************************************************)
(* What the poll sends: the rows after the cursor, sorted.                 *)
(***************************************************************************)
(* One sequence after another. *)
LEMMA Concatenation ==
  ASSUME NEW s \in Seq(Nat), NEW t \in Seq(Nat)
  PROVE  /\ s \o t \in Seq(Nat) /\ Len(s \o t) = Len(s) + Len(t)
         /\ \A i \in 1 .. Len(s) : (s \o t)[i] = s[i]
         /\ \A i \in 1 .. Len(t) : (s \o t)[Len(s) + i] = t[i]
OBVIOUS

(* In whichever order three are joined. *)
LEMMA Joining ==
  ASSUME NEW s \in Seq(Nat), NEW t \in Seq(Nat), NEW u \in Seq(Nat)
  PROVE  s \o (t \o u) = (s \o t) \o u
BY SMTT(60)

(* An event that changes from the head of one to the end of the other. *)
LEMMA HeadMoves ==
  ASSUME NEW s \in Seq(Nat), NEW t \in Seq(Nat), t # <<>>
  PROVE  /\ Head(t) \in Nat /\ Tail(t) \in Seq(Nat) /\ Append(s, Head(t)) \in Seq(Nat)
         /\ Append(s, Head(t)) \o Tail(t) = s \o t
<1>1. /\ Head(t) \in Nat /\ Tail(t) \in Seq(Nat) /\ Append(s, Head(t)) \in Seq(Nat)
      /\ <<Head(t)>> \in Seq(Nat)
  OBVIOUS
<1>2. Append(s, Head(t)) = s \o <<Head(t)>>
  BY <1>1
<1>3. <<Head(t)>> \o Tail(t) = t
  BY <1>1
<1>4. s \o (<<Head(t)>> \o Tail(t)) = (s \o <<Head(t)>>) \o Tail(t)
  BY <1>1, Joining, SMTT(20)
<1> QED
  BY <1>1, <1>2, <1>3, <1>4

(* A row of the log. *)
LEMMA RowOfLog ==
  ASSUME log \in Seq(Row), NEW n \in DOMAIN log
  PROVE  /\ n \in 1 .. Len(log) /\ n \in Nat /\ Len(log) \in Nat
         /\ log[n] \in Row /\ log[n].sequence \in Nat /\ log[n].sequence >= 1
         /\ log[n].at \in Nat /\ log[n].by \in Writer
<1>1. n \in 1 .. Len(log) /\ n \in Nat /\ Len(log) \in Nat /\ log[n] \in Row
  OBVIOUS
<1>2. log[n].sequence \in Nat \ {0} /\ log[n].at \in Instant /\ log[n].by \in Writer
  BY <1>1 DEF Row
<1>3. \A k \in Nat \ {0} : k \in Nat /\ k >= 1
  OBVIOUS
<1>4. log[n].sequence \in Nat /\ log[n].sequence >= 1
  BY <1>2, <1>3
<1>5. log[n].at \in Nat
  BY <1>2, InstantAssumption
<1> QED
  BY <1>1, <1>2, <1>4, <1>5

(* The delivery order is a strict total order of the rows. *)
LEMMA BeforeOrder ==
  ASSUME log \in Seq(Row), NEW x \in DOMAIN log, NEW y \in DOMAIN log, NEW z \in DOMAIN log
  PROVE  /\ ~Before(x, x)
         /\ Before(x, y) /\ Before(y, z) => Before(x, z)
         /\ Before(x, y) \/ Before(y, x) \/ x = y
<1>1. /\ log[x].sequence \in Nat /\ log[x].at \in Nat /\ x \in Nat
      /\ log[y].sequence \in Nat /\ log[y].at \in Nat /\ y \in Nat
      /\ log[z].sequence \in Nat /\ log[z].at \in Nat /\ z \in Nat
  BY RowOfLog
<1>2. ~Before(x, x)
  BY <1>1 DEF Before
<1>3. Before(x, y) /\ Before(y, z) => Before(x, z)
  BY <1>1 DEF Before
<1>4. Before(x, y) \/ Before(y, x) \/ x = y
  BY <1>1 DEF Before
<1> QED
  BY <1>2, <1>3, <1>4

(* Any rows have a delivery: each has its rank, one more than the number   *)
(* of those before it, and no two have the same.                           *)
LEMMA DeliveryExists ==
  ASSUME log \in Seq(Row), NEW T \in SUBSET DOMAIN log
  PROVE  /\ IsFiniteSet(T) /\ Cardinality(T) \in Nat
         /\ \E s \in [1 .. Cardinality(T) -> T] :
              \A i, j \in 1 .. Cardinality(T) : i < j => Before(s[i], s[j])
<1> DEFINE k == Cardinality(T)
           Below(x) == {y \in T : Before(y, x)}
           rank == [x \in T |-> Cardinality(Below(x)) + 1]
<1>1. IsFiniteSet(T) /\ k \in Nat
  <2>1. DOMAIN log = 1 .. Len(log) /\ Len(log) \in Int
    OBVIOUS
  <2>2. IsFiniteSet(DOMAIN log)
    BY <2>1, FS_Interval
  <2>3. IsFiniteSet(T)
    BY <2>2, FS_Subset
  <2> QED
    BY <2>3, FS_CardinalityType
<1>2. ASSUME NEW x \in T
      PROVE  IsFiniteSet(Below(x)) /\ Cardinality(Below(x)) \in Nat /\ Cardinality(Below(x)) < k
  <2>1. ~Before(x, x)
    BY BeforeOrder
  <2>2. Below(x) \in SUBSET T /\ Below(x) # T
    BY <2>1
  <2>3. /\ IsFiniteSet(Below(x)) /\ Cardinality(Below(x)) <= k
        /\ k = Cardinality(Below(x)) => T = Below(x)
    BY <1>1, <2>2, FS_Subset
  <2>4. Cardinality(Below(x)) \in Nat
    BY <2>3, FS_CardinalityType
  <2> HIDE DEF Below, k
  <2> QED
    BY <1>1, <2>2, <2>3, <2>4
<1>3. ASSUME NEW x \in T, NEW y \in T, Before(x, y)
      PROVE  Cardinality(Below(x)) < Cardinality(Below(y))
  <2>1. Below(x) \in SUBSET Below(y)
    BY <1>3, BeforeOrder
  <2>2. x \in Below(y) /\ x \notin Below(x)
    BY <1>3, BeforeOrder
  <2>3. /\ Cardinality(Below(x)) <= Cardinality(Below(y))
        /\ Cardinality(Below(y)) = Cardinality(Below(x)) => Below(y) = Below(x)
    BY <1>2, <2>1, FS_Subset
  <2>4. Cardinality(Below(x)) \in Nat /\ Cardinality(Below(y)) \in Nat
    BY <1>2
  <2> HIDE DEF Below
  <2> QED
    BY <2>2, <2>3, <2>4
<1> HIDE DEF Below
<1>4. rank \in [T -> 1 .. k]
  <2> SUFFICES ASSUME NEW x \in T
               PROVE  Cardinality(Below(x)) + 1 \in 1 .. k
    OBVIOUS
  <2>1. Cardinality(Below(x)) \in Nat /\ Cardinality(Below(x)) < k
    BY <1>2
  <2> QED
    BY <1>1, <2>1
<1>5. ASSUME NEW x \in T, NEW y \in T, Before(x, y)
      PROVE  rank[x] < rank[y]
  <2>1. Cardinality(Below(x)) \in Nat /\ Cardinality(Below(y)) \in Nat
    BY <1>2
  <2>2. Cardinality(Below(x)) < Cardinality(Below(y))
    BY <1>3, <1>5
  <2> QED
    BY <2>1, <2>2
<1> HIDE DEF rank, k
<1>6. \A x \in T : rank[x] \in Nat
  BY <1>1, <1>4
<1>7. rank \in Injection(T, 1 .. k)
  <2> SUFFICES ASSUME NEW x \in T, NEW y \in T, rank[x] = rank[y]
               PROVE  x = y
    BY <1>4 DEF Injection, IsInjective
  <2>1. ~Before(x, y) /\ ~Before(y, x)
    BY <1>5, <1>6
  <2> QED
    BY <2>1, BeforeOrder
<1>8. rank \in Surjection(T, 1 .. k)
  <2>1. IsFiniteSet(1 .. k) /\ Cardinality(1 .. k) = k
    BY <1>1, FS_Interval
  <2>2. Cardinality(T) = Cardinality(1 .. k) <=> rank \in Surjection(T, 1 .. k)
    BY <1>7, <2>1, FS_Injection
  <2> QED
    BY <2>1, <2>2 DEF k
<1> DEFINE s == [i \in 1 .. k |-> CHOOSE x \in T : rank[x] = i]
<1>9. \A i \in 1 .. k : s[i] \in T /\ rank[s[i]] = i
  BY <1>8 DEF Surjection
<1>10. s \in [1 .. k -> T]
  BY <1>9
<1> HIDE DEF s
<1>11. ASSUME NEW i \in 1 .. k, NEW j \in 1 .. k, i < j
       PROVE  Before(s[i], s[j])
  <2>1. s[i] \in T /\ s[j] \in T /\ rank[s[i]] = i /\ rank[s[j]] = j
    BY <1>9
  <2>2. i \in Nat /\ j \in Nat
    OBVIOUS
  <2>3. ~Before(s[j], s[i]) /\ s[i] # s[j]
    BY <1>5, <1>11, <2>1, <2>2
  <2> QED
    BY <2>1, <2>3, BeforeOrder
<1> QED
  BY <1>1, <1>10, <1>11 DEF k

(* A delivery of some rows has all of them, in order. *)
LEMMA DeliverySorted ==
  ASSUME log \in Seq(Row), NEW T \in SUBSET DOMAIN log
  PROVE  /\ IsFiniteSet(T) /\ Cardinality(T) \in Nat
         /\ Delivery(T) \in [1 .. Cardinality(T) -> T]
         /\ \A i, j \in 1 .. Cardinality(T) : i < j => Before(Delivery(T)[i], Delivery(T)[j])
         /\ \A x \in T : \E i \in 1 .. Cardinality(T) : Delivery(T)[i] = x
<1> DEFINE k == Cardinality(T)
           Sorted(s) == \A i, j \in DOMAIN s : i < j => Before(s[i], s[j])
           s == Delivery(T)
<1>1. IsFiniteSet(T) /\ k \in Nat /\ \E t \in [1 .. k -> T] : Sorted(t)
  BY DeliveryExists
<1>2. s = CHOOSE t \in [1 .. k -> T] : Sorted(t)
  BY DEF Delivery
<1>3. s \in [1 .. k -> T] /\ Sorted(s)
  <2> HIDE DEF Sorted, s, k
  <2> QED
    BY <1>1, <1>2
<1> HIDE DEF s, k
<1>4. \A i, j \in 1 .. k : i < j => Before(s[i], s[j])
  BY <1>3
<1>5. s \in Injection(1 .. k, T)
  <2> SUFFICES ASSUME NEW i \in 1 .. k, NEW j \in 1 .. k, i # j
               PROVE  s[i] # s[j]
    BY <1>3 DEF Injection, IsInjective
  <2>1. i < j \/ j < i
    OBVIOUS
  <2>2. Before(s[i], s[j]) \/ Before(s[j], s[i])
    BY <1>4, <2>1
  <2>3. s[i] \in DOMAIN log
    BY <1>3
  <2> QED
    BY <2>2, <2>3, BeforeOrder
<1>6. s \in Surjection(1 .. k, T)
  <2>1. Cardinality(1 .. k) = k
    BY <1>1, FS_Interval
  <2>2. Cardinality(1 .. k) = Cardinality(T) <=> s \in Surjection(1 .. k, T)
    BY <1>1, <1>5, FS_Injection
  <2> QED
    BY <2>1, <2>2 DEF k
<1>7. \A x \in T : \E i \in 1 .. k : s[i] = x
  BY <1>6 DEF Surjection
<1> QED
  BY <1>1, <1>3, <1>4, <1>7 DEF s, k
-----------------------------------------------------------------------------
(***************************************************************************)
(* The inductive invariant.                                                *)
(***************************************************************************)
(* Nothing is written at first. *)
LEMMA LogInit == Init => LogInv
<1> SUFFICES ASSUME Init
             PROVE  LogInv
  OBVIOUS
<1>1. TypeOK
  BY EventsAssumption DEF Init, TypeOK, Pending, Elements
<1>2. SequenceFollowsCommit /\ NumbersReserved
  BY DEF Init, SequenceFollowsCommit, NumbersReserved
<1>3. Sent = <<>> /\ wire = <<>> /\ seen = <<>> /\ cursor = 0
  BY DEF Init, Sent
<1>4. StreamInOrder
  BY <1>3 DEF StreamInOrder, Last
<1> QED
  BY <1>1, <1>2, <1>4 DEF LogInv

(* The rows of an open transaction, and what their numbers count from. *)
LEMMA OpenTransaction ==
  ASSUME TypeOK, NEW w \in Writer, tx[w] # NoTx
  PROVE  /\ tx[w] \in OpenTx
         /\ tx[w].pc = "open" /\ tx[w].snapshot \in Nat /\ tx[w].at \in Instant
         /\ tx[w].rows \in Seq(Row)
         /\ Len(tx[w].rows) \in Nat /\ Len(log) \in Nat /\ log \in Seq(Row)
  BY DEF TypeOK, OpenTx

(* What is sent are events of the log. *)
LEMMA SentEvents ==
  ASSUME LogInv
  PROVE  /\ log \in Seq(Row) /\ Len(log) \in Nat /\ DOMAIN log = 1 .. Len(log)
         /\ wire \in Seq(Nat) /\ seen \in Seq(Nat) /\ Sent \in Seq(Nat)
         /\ Len(wire) \in Nat /\ Len(seen) \in Nat
         /\ Len(Sent) = Len(seen) + Len(wire) /\ DOMAIN Sent = 1 .. Len(Sent)
         /\ \A i \in 1 .. Len(seen) : Sent[i] = seen[i]
         /\ \A i \in 1 .. Len(wire) : Sent[Len(seen) + i] = wire[i]
         /\ \A i \in DOMAIN Sent : Sent[i] \in DOMAIN log
<1>1. /\ wire \in Seq(Nat) /\ seen \in Seq(Nat) /\ log \in Seq(Row)
  BY DEF LogInv, TypeOK, StreamInOrder
<1>2. /\ Sent \in Seq(Nat) /\ Len(Sent) = Len(seen) + Len(wire)
      /\ \A i \in 1 .. Len(seen) : Sent[i] = seen[i]
      /\ \A i \in 1 .. Len(wire) : Sent[Len(seen) + i] = wire[i]
      /\ Len(wire) \in Nat /\ Len(seen) \in Nat
  BY <1>1 DEF Sent
<1>3. /\ \A i \in DOMAIN wire : wire[i] \in DOMAIN log
      /\ \A i \in DOMAIN seen : seen[i] \in DOMAIN log
  BY DEF LogInv, TypeOK, Elements
<1>4. ASSUME NEW i \in 1 .. Len(Sent)
      PROVE  Sent[i] \in DOMAIN log
  <2>1. CASE i <= Len(seen)
    <3>1. i \in 1 .. Len(seen) /\ i \in DOMAIN seen
      BY <1>1, <1>2, <2>1
    <3> QED
      BY <1>2, <1>3, <3>1
  <2>2. CASE i > Len(seen)
    <3>1. i - Len(seen) \in 1 .. Len(wire) /\ i = Len(seen) + (i - Len(seen))
      BY <1>2, <2>2
    <3>2. i - Len(seen) \in DOMAIN wire
      BY <1>1, <3>1
    <3>3. Sent[i] = wire[i - Len(seen)]
      BY <1>2, <3>1
    <3> QED
      BY <1>3, <3>2, <3>3
  <2> QED
    BY <1>2, <2>1, <2>2
<1> QED
  BY <1>1, <1>2, <1>4

(* A row of the log keeps its place in the order of any longer log. *)
LEMMA OrderKept ==
  ASSUME log \in Seq(Row), log' \in Seq(Row), Len(log) <= Len(log'),
         \A n \in DOMAIN log : log'[n] = log[n]
  PROVE  /\ DOMAIN log \subseteq DOMAIN log'
         /\ \A m, n \in DOMAIN log : Before(m, n)' <=> Before(m, n)
         /\ \A n \in DOMAIN log : InPlace(n)' <=> InPlace(n)
         /\ \A m \in DOMAIN log', n \in DOMAIN log :
              m \notin DOMAIN log /\ log[n].sequence <= n => ~(InPlace(m)' /\ Before(m, n)')
<1>1. DOMAIN log = 1 .. Len(log) /\ DOMAIN log' = 1 .. Len(log')
      /\ Len(log) \in Nat /\ Len(log') \in Nat
  OBVIOUS
<1>2. DOMAIN log \subseteq DOMAIN log'
  BY <1>1
<1>3. \A m, n \in DOMAIN log : Before(m, n)' <=> Before(m, n)
  BY DEF Before
<1>4. \A n \in DOMAIN log : InPlace(n)' <=> InPlace(n)
  BY DEF InPlace
<1>5. ASSUME NEW m \in DOMAIN log', NEW n \in DOMAIN log,
             m \notin DOMAIN log, log[n].sequence <= n, InPlace(m)', Before(m, n)'
      PROVE  FALSE
  <2>1. m \in Nat /\ n \in Nat /\ n < m
    BY <1>1, <1>5
  <2>2. log[n].sequence \in Nat /\ log'[n].sequence = log[n].sequence
    BY RowOfLog
  <2>3. log'[m].sequence = m
    BY <1>5 DEF InPlace
  <2>4. log'[m].sequence <= log'[n].sequence
    BY <1>5, <2>1, <2>2, <2>3 DEF Before
  <2> QED
    BY <1>5, <2>1, <2>2, <2>3, <2>4
<1> QED
  BY <1>2, <1>3, <1>4, <1>5

(* Only the stream moves: what is numbered stays so. *)
LEMMA StreamMoves ==
  ASSUME LogInv, UNCHANGED <<level, log, lock, tx>>,
         cursor' \in 0 .. Len(log), Elements(wire)' \cup Elements(seen)' \subseteq DOMAIN log
  PROVE  TypeOK' /\ SequenceFollowsCommit' /\ NumbersReserved'
<1>1. TypeOK'
  BY DEF LogInv, TypeOK, Pending
<1>2. SequenceFollowsCommit'
  BY DEF LogInv, SequenceFollowsCommit
<1>3. NumbersReserved'
  BY DEF LogInv, NumbersReserved, Counted
<1> QED
  BY <1>1, <1>2, <1>3

(* A poll sends what the cursor has not reached, in order, and moves the   *)
(* cursor to the last of it.                                               *)
LEMMA PollStep ==
  ASSUME LogInv, Poll
  PROVE  LogInv'
<1> DEFINE T == Unsent(cursor)
           k == Cardinality(T)
           batch == Delivery(T)
<1>1. /\ T # {} /\ wire' = wire \o batch /\ cursor' = Last(batch)
      /\ UNCHANGED <<level, log, lock, tx, seen>>
  BY DEF Poll
<1>2. /\ log \in Seq(Row) /\ Len(log) \in Nat /\ DOMAIN log = 1 .. Len(log)
      /\ wire \in Seq(Nat) /\ seen \in Seq(Nat) /\ Sent \in Seq(Nat)
      /\ DOMAIN Sent = 1 .. Len(Sent) /\ Len(Sent) \in Nat
      /\ \A i \in DOMAIN Sent : Sent[i] \in DOMAIN log
  BY SentEvents
<1>3. T \in SUBSET DOMAIN log
  BY DEF Unsent
<1>4. /\ IsFiniteSet(T) /\ k \in Nat /\ batch \in [1 .. k -> T]
      /\ \A i, j \in 1 .. k : i < j => Before(batch[i], batch[j])
      /\ \A x \in T : \E i \in 1 .. k : batch[i] = x
  BY <1>2, <1>3, DeliverySorted
<1>5. k # 0
  BY <1>1, <1>4, FS_EmptySet
<1>6. \A x \in T : cursor = 0 \/ Before(cursor, x)
  BY DEF Unsent
<1>7. \A x \in DOMAIN log : cursor = 0 \/ Before(cursor, x) => x \in T
  BY DEF Unsent
<1> HIDE DEF T, k, batch
<1>8. /\ batch \in Seq(Nat) /\ Len(batch) = k
      /\ \A i \in 1 .. k : batch[i] \in T /\ batch[i] \in DOMAIN log /\ batch[i] \in Nat
  BY <1>2, <1>3, <1>4
<1>9. /\ Sent' \in Seq(Nat) /\ Len(Sent') = Len(Sent) + k
      /\ \A i \in 1 .. Len(Sent) : Sent'[i] = Sent[i]
      /\ \A i \in 1 .. k : Sent'[Len(Sent) + i] = batch[i]
      /\ wire' \in Seq(Nat) /\ seen' \in Seq(Nat)
  <2>1. Sent' = seen \o (wire \o batch)
    BY <1>1 DEF Sent
  <2>2. Sent' = Sent \o batch
    BY <1>2, <1>8, <2>1, Joining DEF Sent
  <2>3. /\ Sent' \in Seq(Nat) /\ Len(Sent') = Len(Sent) + k
        /\ \A i \in 1 .. Len(Sent) : Sent'[i] = Sent[i]
        /\ \A i \in 1 .. k : Sent'[Len(Sent) + i] = batch[i]
    BY <1>2, <1>8, <2>2, Concatenation
  <2>4. wire' \in Seq(Nat) /\ seen' \in Seq(Nat)
    BY <1>1, <1>2, <1>8
  <2> QED
    BY <2>3, <2>4
<1>10. Sent' # <<>> /\ cursor' = Last(Sent)' /\ cursor' \in DOMAIN log
  <2>1. k \in 1 .. k /\ Len(Sent) + k = Len(Sent')
    BY <1>4, <1>5, <1>9
  <2>2. Sent'[Len(Sent')] = batch[k]
    BY <1>9, <2>1
  <2>3. Sent' # <<>> /\ batch # <<>>
    BY <1>2, <1>4, <1>5, <1>8, <1>9
  <2>4. cursor' = batch[k]
    BY <1>1, <1>8, <2>3 DEF Last
  <2> QED
    BY <1>8, <2>1, <2>2, <2>3, <2>4 DEF Last
<1>11. \A i \in 1 .. Len(Sent') : \/ i \in 1 .. Len(Sent)
                                  \/ i - Len(Sent) \in 1 .. k /\ Sent'[i] = batch[i - Len(Sent)]
  <2> TAKE i \in 1 .. Len(Sent')
  <2>1. i \in 1 .. Len(Sent) \/ i - Len(Sent) \in 1 .. k
    BY <1>2, <1>4, <1>9
  <2>2. i - Len(Sent) \in 1 .. k => Sent'[Len(Sent) + (i - Len(Sent))] = batch[i - Len(Sent)]
    BY <1>9
  <2>3. Len(Sent) + (i - Len(Sent)) = i
    BY <1>2
  <2> QED
    BY <2>1, <2>2, <2>3
<1>12. cursor = 0 => Len(Sent) = 0
  <2>1. Sent # <<>> => Len(Sent) \in DOMAIN Sent /\ Last(Sent) = Sent[Len(Sent)]
    BY <1>2 DEF Last
  <2>2. Sent # <<>> => Last(Sent) \in DOMAIN log
    BY <1>2, <2>1
  <2>3. cursor = Last(Sent)
    BY DEF LogInv, StreamInOrder
  <2> QED
    BY <1>2, <2>2, <2>3
<1>13. ASSUME NEW i \in 1 .. Len(Sent)
       PROVE  cursor \in DOMAIN log /\ (Sent[i] = cursor \/ Before(Sent[i], cursor))
  <2>1. Sent # <<>> /\ Len(Sent) \in DOMAIN Sent /\ i <= Len(Sent)
    BY <1>2
  <2>2. cursor = Sent[Len(Sent)]
    BY <2>1 DEF LogInv, StreamInOrder, Last
  <2>3. cursor \in DOMAIN log
    BY <1>2, <2>1, <2>2
  <2>4. CASE i = Len(Sent)
    BY <2>2, <2>3, <2>4
  <2>5. CASE i # Len(Sent)
    <3>1. i < Len(Sent) /\ i \in DOMAIN Sent
      <4>1. i \in Nat /\ i <= Len(Sent) /\ Len(Sent) \in Nat /\ i \in DOMAIN Sent
        BY <1>2
      <4> QED
        BY <2>5, <4>1
    <3>2. Before(Sent[i], Sent[Len(Sent)])
      BY <2>1, <3>1 DEF LogInv, StreamInOrder
    <3> QED
      BY <2>2, <2>3, <3>2
  <2> QED
    BY <2>4, <2>5
<1>14. ASSUME NEW i \in 1 .. Len(Sent'), NEW j \in 1 .. Len(Sent'), i < j
       PROVE  Before(Sent'[i], Sent'[j])
  <2>1. CASE i \in 1 .. Len(Sent) /\ j \in 1 .. Len(Sent)
    BY <1>2, <1>9, <1>14, <2>1 DEF LogInv, StreamInOrder
  <2>2. CASE i \in 1 .. Len(Sent) /\ j \notin 1 .. Len(Sent)
    <3>1. j - Len(Sent) \in 1 .. k /\ Sent'[j] = batch[j - Len(Sent)]
      BY <1>11, <2>2
    <3>2. Sent'[j] \in T /\ Sent'[j] \in DOMAIN log
      BY <1>8, <3>1
    <3>3. Sent'[i] = Sent[i] /\ Sent[i] \in DOMAIN log
      BY <1>2, <1>9, <2>2
    <3>4. cursor # 0 /\ Before(cursor, Sent'[j])
      BY <1>2, <1>6, <1>12, <2>2, <3>2
    <3>5. cursor \in DOMAIN log /\ (Sent[i] = cursor \/ Before(Sent[i], cursor))
      BY <1>13, <2>2
    <3> QED
      BY <1>2, <3>2, <3>3, <3>4, <3>5, BeforeOrder
  <2>3. CASE i \notin 1 .. Len(Sent)
    <3>1. j \notin 1 .. Len(Sent)
      BY <1>2, <1>14, <2>3
    <3>2. /\ i - Len(Sent) \in 1 .. k /\ Sent'[i] = batch[i - Len(Sent)]
          /\ j - Len(Sent) \in 1 .. k /\ Sent'[j] = batch[j - Len(Sent)]
      BY <1>11, <2>3, <3>1
    <3>3. i - Len(Sent) < j - Len(Sent)
      BY <1>2, <1>14
    <3> QED
      BY <1>4, <3>2, <3>3
  <2> QED
    BY <2>1, <2>2, <2>3
<1>15. ASSUME NEW i \in 1 .. Len(Sent'), NEW m \in DOMAIN log, InPlace(m), Before(m, Sent'[i])
       PROVE  \E j \in 1 .. i - 1 : Sent'[j] = m
  <2>1. CASE i \in 1 .. Len(Sent)
    <3>1. Before(m, Sent[i])
      BY <1>9, <1>15, <2>1
    <3>2. PICK j \in 1 .. i - 1 : Sent[j] = m
      BY <1>2, <1>15, <2>1, <3>1 DEF LogInv, StreamInOrder
    <3>3. j \in 1 .. Len(Sent)
      BY <1>2, <2>1
    <3> QED
      BY <1>9, <3>2, <3>3
  <2>2. CASE i \notin 1 .. Len(Sent)
    <3>1. i - Len(Sent) \in 1 .. k /\ Sent'[i] = batch[i - Len(Sent)] /\ Sent'[i] \in DOMAIN log
      BY <1>8, <1>11, <2>2
    <3>2. CASE m \in T
      <4>1. PICK j \in 1 .. k : batch[j] = m
        BY <1>4, <3>2
      <4>2. Len(Sent) + j \in 1 .. Len(Sent') /\ Sent'[Len(Sent) + j] = m
        <5>1. Sent'[Len(Sent) + j] = m
          BY <1>9, <4>1
        <5> QED
          BY <1>2, <1>4, <1>9, <5>1
      <4>3. ~(i < Len(Sent) + j) /\ i # Len(Sent) + j
        BY <1>14, <1>15, <3>1, <4>2, <1>2, BeforeOrder
      <4>4. Len(Sent) + j \in 1 .. i - 1
        BY <1>2, <1>4, <4>2, <4>3
      <4> QED
        BY <4>2, <4>4
    <3>3. CASE m \notin T
      <4>1. cursor # 0 /\ ~Before(cursor, m)
        BY <1>7, <3>3
      <4>2. Len(Sent) \in 1 .. Len(Sent) /\ Len(Sent) \in DOMAIN Sent /\ Sent # <<>>
        <5>1. Sent # <<>>
          BY <4>1 DEF LogInv, StreamInOrder, Last
        <5> QED
          BY <1>2, <5>1
      <4>3. cursor = Sent[Len(Sent)] /\ cursor \in DOMAIN log
        BY <1>2, <4>2 DEF LogInv, StreamInOrder, Last
      <4>4. m = cursor \/ Before(m, cursor)
        BY <1>2, <4>1, <4>3, BeforeOrder
      <4>5. PICK j \in 1 .. Len(Sent) : Sent[j] = m
        <5>1. CASE m = cursor
          BY <4>2, <4>3, <5>1
        <5>2. CASE Before(m, cursor)
          <6>1. \E j \in 1 .. Len(Sent) - 1 : Sent[j] = m
            BY <1>15, <4>2, <4>3, <5>2 DEF LogInv, StreamInOrder
          <6> QED
            BY <1>2, <6>1
        <5> QED
          BY <4>4, <5>1, <5>2
      <4>6. j \in 1 .. i - 1
        BY <1>2, <2>2
      <4> QED
        BY <1>9, <4>5, <4>6
    <3> QED
      BY <3>2, <3>3
  <2> QED
    BY <2>1, <2>2
<1>16. StreamInOrder'
  <2>1. DOMAIN Sent' = 1 .. Len(Sent')
    BY <1>9
  <2>2. \A m, n : Before(m, n)' <=> Before(m, n)
    BY <1>1 DEF Before
  <2>3. \A m : InPlace(m)' <=> InPlace(m)
    BY <1>1 DEF InPlace
  <2> QED
    BY <1>1, <1>9, <1>10, <1>14, <1>15, <2>1, <2>2, <2>3 DEF StreamInOrder
<1>17. Elements(wire)' \cup Elements(seen)' \subseteq DOMAIN log /\ cursor' \in 0 .. Len(log)
  <2>1. \A i \in DOMAIN wire : wire[i] \in DOMAIN log
    BY DEF LogInv, TypeOK, Elements
  <2>2. ASSUME NEW i \in DOMAIN wire'
        PROVE  wire'[i] \in DOMAIN log
    <3>1. i \in 1 .. Len(wire) + k /\ Len(wire) \in Nat
      BY <1>1, <1>2, <1>4, <1>8
    <3>2. CASE i <= Len(wire)
      BY <1>1, <1>2, <1>8, <2>1, <3>1, <3>2
    <3>3. CASE i > Len(wire)
      <4>1. i - Len(wire) \in 1 .. k
        BY <1>4, <3>1, <3>3
      <4>2. wire'[i] = batch[i - Len(wire)]
        BY <1>1, <1>2, <1>4, <1>8, <3>1, <3>3
      <4> QED
        BY <1>8, <4>1, <4>2
    <3> QED
      BY <3>1, <3>2, <3>3
  <2> QED
    BY <1>1, <1>2, <1>10, <2>2 DEF LogInv, TypeOK, Elements
<1> QED
  BY <1>1, <1>16, <1>17, StreamMoves DEF LogInv

(* Receiving moves an event from the socket to the browser; breaking the   *)
(* connection loses what is on it.                                         *)
LEMMA ReceiveStep ==
  ASSUME LogInv, Receive
  PROVE  LogInv'
<1>1. /\ wire # <<>> /\ seen' = Append(seen, Head(wire)) /\ wire' = Tail(wire)
      /\ UNCHANGED <<level, log, lock, tx, cursor>>
  BY DEF Receive
<1>2. wire \in Seq(Nat) /\ seen \in Seq(Nat) /\ log \in Seq(Row) /\ cursor \in 0 .. Len(log)
  BY DEF LogInv, TypeOK, StreamInOrder
<1>3. wire' \in Seq(Nat) /\ seen' \in Seq(Nat) /\ Sent' = Sent
  BY <1>1, <1>2, HeadMoves DEF Sent
<1>4. /\ \A i \in DOMAIN wire : wire[i] \in DOMAIN log
      /\ \A i \in DOMAIN seen : seen[i] \in DOMAIN log
  BY DEF LogInv, TypeOK, Elements
<1>5. \A i \in DOMAIN wire' : wire'[i] \in DOMAIN log
  BY <1>1, <1>2, <1>4
<1>6. \A i \in DOMAIN seen' : seen'[i] \in DOMAIN log
  BY <1>1, <1>2, <1>4
<1>7. \A m, n : (Before(m, n)' <=> Before(m, n)) /\ (InPlace(m)' <=> InPlace(m))
  BY <1>1 DEF Before, InPlace
<1>8. StreamInOrder'
  BY <1>1, <1>3, <1>7 DEF LogInv, StreamInOrder, Last
<1>9. Elements(wire)' \cup Elements(seen)' \subseteq DOMAIN log
  BY <1>5, <1>6 DEF Elements
<1> QED
  BY <1>1, <1>2, <1>8, <1>9, StreamMoves DEF LogInv

(* A new connection goes on from what the browser has. *)
LEMMA ReconnectStep ==
  ASSUME LogInv, Reconnect
  PROVE  LogInv'
<1>1. /\ cursor' = Last(seen) /\ wire' = <<>>
      /\ UNCHANGED <<level, log, lock, tx, seen>>
  BY DEF Reconnect
<1>2. /\ log \in Seq(Row) /\ Len(log) \in Nat /\ DOMAIN log = 1 .. Len(log)
      /\ wire \in Seq(Nat) /\ seen \in Seq(Nat) /\ Sent \in Seq(Nat)
      /\ Len(wire) \in Nat /\ Len(seen) \in Nat
      /\ DOMAIN Sent = 1 .. Len(Sent) /\ Len(Sent) = Len(seen) + Len(wire)
      /\ \A i \in 1 .. Len(seen) : Sent[i] = seen[i]
      /\ \A i \in DOMAIN Sent : Sent[i] \in DOMAIN log
  BY SentEvents
<1>3. Sent' = seen
  BY <1>1, <1>2 DEF Sent
<1>4. DOMAIN seen = 1 .. Len(seen) /\ 1 .. Len(seen) \subseteq DOMAIN Sent
  BY <1>2
<1>5. \A m, n : (Before(m, n)' <=> Before(m, n)) /\ (InPlace(m)' <=> InPlace(m))
  BY <1>1 DEF Before, InPlace
<1>6. \A i, j \in DOMAIN seen : i < j => Before(seen[i], seen[j])
  BY <1>2, <1>4 DEF LogInv, StreamInOrder
<1>7. ASSUME NEW i \in DOMAIN seen, NEW m \in DOMAIN log, InPlace(m), Before(m, seen[i])
      PROVE  \E j \in 1 .. i - 1 : seen[j] = m
  <2>1. PICK j \in 1 .. i - 1 : Sent[j] = m
    BY <1>2, <1>4, <1>7 DEF LogInv, StreamInOrder
  <2>2. j \in 1 .. Len(seen)
    BY <1>2, <1>4
  <2> QED
    BY <1>2, <2>1, <2>2
<1>8. StreamInOrder'
  <2>1. wire' \in Seq(Nat) /\ seen' \in Seq(Nat) /\ cursor' = Last(Sent)'
    BY <1>1, <1>2, <1>3 DEF Last
  <2>2. (\A i, j \in DOMAIN Sent : i < j => Before(Sent[i], Sent[j]))'
    BY <1>3, <1>5, <1>6
  <2>3. (\A i \in DOMAIN Sent, m \in DOMAIN log :
           InPlace(m) /\ Before(m, Sent[i]) => \E j \in 1 .. i - 1 : Sent[j] = m)'
    BY <1>1, <1>3, <1>5, <1>7
  <2> QED
    BY <2>1, <2>2, <2>3 DEF StreamInOrder
<1>9. Elements(wire)' \cup Elements(seen)' \subseteq DOMAIN log
  BY <1>1 DEF LogInv, TypeOK, Elements
<1>10. cursor' \in 0 .. Len(log)
  <2>1. seen # <<>> => Len(seen) \in DOMAIN seen
    BY <1>2, <1>4
  <2>2. \A i \in DOMAIN seen : seen[i] \in DOMAIN log
    BY DEF LogInv, TypeOK, Elements
  <2> QED
    BY <1>1, <1>2, <2>1, <2>2 DEF Last
<1> QED
  BY <1>1, <1>8, <1>9, <1>10, StreamMoves DEF LogInv

(* What keeps the log and the stream as they are keeps their order. *)
LEMMA LogUnchanged ==
  ASSUME LogInv, UNCHANGED <<level, log, cursor, wire, seen>>
  PROVE  SequenceFollowsCommit' /\ StreamInOrder'
<1>1. \A m, n : (Before(m, n)' <=> Before(m, n)) /\ (InPlace(m)' <=> InPlace(m))
  BY DEF Before, InPlace
<1>2. Sent' = Sent
  BY DEF Sent
<1>3. SequenceFollowsCommit'
  BY DEF LogInv, SequenceFollowsCommit
<1>4. /\ wire' = wire /\ seen' = seen /\ cursor' = cursor /\ log' = log
      /\ Last(Sent)' = Last(Sent)
  BY <1>2 DEF Last
<1>5. StreamInOrder'
  BY <1>1, <1>2, <1>4 DEF LogInv, StreamInOrder
<1> QED
  BY <1>3, <1>5

(* Whoever has not the lock has numbered nothing. *)
LEMMA OthersUnnumbered ==
  ASSUME NumbersReserved, NEW w \in Writer, lock \in {Free, w},
         NEW v \in Writer, v # w, tx[v] # NoTx
  PROVE  tx[v].rows = <<>>
  BY FreeAssumption DEF NumbersReserved

(* A new transaction has numbered nothing. *)
LEMMA BeginStep ==
  ASSUME LogInv, NEW w \in Writer, NEW at \in Instant, Begin(w, at)
  PROVE  LogInv'
<1> DEFINE new == [pc |-> "open", snapshot |-> Len(log), at |-> at, rows |-> <<>>]
<1>1. /\ tx[w] = NoTx /\ tx' = [tx EXCEPT ![w] = new]
      /\ UNCHANGED <<level, log, lock, cursor, wire, seen>>
  BY DEF Begin
<1>2. TypeOK /\ log \in Seq(Row) /\ Len(log) \in Nat
      /\ tx \in [Writer -> OpenTx \cup {NoTx}]
  BY DEF LogInv, TypeOK
<1>3. new \in OpenTx /\ new # NoTx
  BY <1>2 DEF OpenTx, NoTx
<1>4. new.snapshot = Len(log) /\ new.rows = <<>>
  OBVIOUS
<1> HIDE DEF new
<1>5. tx' \in [Writer -> OpenTx \cup {NoTx}] /\ Pending \subseteq Pending'
  BY <1>1, <1>2, <1>3 DEF Pending
<1>6. TypeOK'
  BY <1>1, <1>2, <1>5 DEF TypeOK
<1>7. ASSUME NEW v \in Writer, tx'[v] # NoTx
      PROVE  /\ tx'[v].snapshot <= Len(log)
             /\ tx'[v].rows # <<>> =>
                  lock = v /\ Len(log) + Len(tx'[v].rows) <= MaxEvents
             /\ \A n \in 1 .. Len(tx'[v].rows) :
                  tx'[v].rows[n].sequence = Counted(v)' + n /\ tx'[v].rows[n].by = v
  <2>1. CASE v = w
    BY <1>1, <1>2, <1>4, <2>1
  <2>2. CASE v # w
    <3>1. tx'[v] = tx[v]
      BY <1>1, <1>2, <2>2
    <3> QED
      BY <1>1, <1>7, <3>1 DEF LogInv, NumbersReserved, Counted
  <2> QED
    BY <2>1, <2>2
<1>8. NumbersReserved'
  BY <1>1, <1>7 DEF NumbersReserved
<1> QED
  BY <1>1, <1>6, <1>8, LogUnchanged DEF LogInv

(* Under the lock the next event gets the next number. *)
LEMMA AppendStep ==
  ASSUME LogInv, NEW w \in Writer, AppendEvent(w)
  PROVE  LogInv'
<1> DEFINE row == [sequence |-> VisibleCount(w) + 1, at |-> tx[w].at, by |-> w]
           rows == Append(tx[w].rows, row)
           next == [tx[w] EXCEPT !.rows = rows]
<1>1. /\ tx[w] # NoTx /\ lock \in {Free, w} /\ lock' = w
      /\ Len(log) + Len(tx[w].rows) < MaxEvents
      /\ tx' = [tx EXCEPT ![w] = next]
      /\ UNCHANGED <<level, log, cursor, wire, seen>>
  BY DEF AppendEvent
<1>2. /\ TypeOK /\ NumbersReserved /\ tx \in [Writer -> OpenTx \cup {NoTx}]
  BY DEF LogInv, TypeOK
<1>3. /\ tx[w] \in OpenTx /\ tx[w].snapshot \in Nat /\ tx[w].at \in Instant
      /\ tx[w].rows \in Seq(Row) /\ Len(tx[w].rows) \in Nat /\ Len(log) \in Nat
  BY <1>1, <1>2, OpenTransaction
<1>4. VisibleCount(w) = Counted(w) + Len(tx[w].rows) /\ Counted(w) \in Nat
  BY <1>3 DEF VisibleCount, Counted
<1>5. row \in Row /\ row.sequence = Counted(w) + Len(tx[w].rows) + 1 /\ row.by = w
  <2>1. PICK n \in Nat : VisibleCount(w) = n /\ n = Counted(w) + Len(tx[w].rows)
    BY <1>3, <1>4
  <2>2. n + 1 \in Nat \ {0}
    BY <2>1
  <2>3. VisibleCount(w) + 1 = Counted(w) + Len(tx[w].rows) + 1
    BY <2>1
  <2> QED
    BY <1>3, <2>1, <2>2, <2>3 DEF Row
<1> HIDE DEF row
<1>6. /\ rows \in Seq(Row) /\ Len(rows) = Len(tx[w].rows) + 1 /\ rows # <<>>
      /\ \A n \in 1 .. Len(tx[w].rows) : rows[n] = tx[w].rows[n]
      /\ rows[Len(rows)] = row
  BY <1>3, <1>5
<1> HIDE DEF rows
<1>7. next \in OpenTx /\ next.rows = rows /\ next.snapshot = tx[w].snapshot /\ next # NoTx
  BY <1>3, <1>6 DEF OpenTx, NoTx
<1> HIDE DEF next
<1>8. tx' \in [Writer -> OpenTx \cup {NoTx}] /\ Pending' = Pending /\ w \in Pending
  BY <1>1, <1>2, <1>7 DEF Pending
<1>9. TypeOK'
  BY <1>1, <1>2, <1>8 DEF TypeOK
<1>10. ASSUME NEW v \in Writer, tx'[v] # NoTx
       PROVE  /\ tx'[v].snapshot <= Len(log)
              /\ tx'[v].rows # <<>> =>
                   lock' = v /\ Len(log) + Len(tx'[v].rows) <= MaxEvents
              /\ \A n \in 1 .. Len(tx'[v].rows) :
                   tx'[v].rows[n].sequence = Counted(v)' + n /\ tx'[v].rows[n].by = v
  <2>1. CASE v = w
    <3>1. tx'[w] = next
      BY <1>1, <1>2
    <3>2. Counted(w)' = Counted(w) /\ tx[w].snapshot <= Len(log)
      BY <1>1, <1>2, <1>7, <3>1 DEF Counted, NumbersReserved
    <3>3. \A n \in 1 .. Len(tx[w].rows) :
            tx[w].rows[n].sequence = Counted(w) + n /\ tx[w].rows[n].by = w
      BY <1>1, <1>2 DEF NumbersReserved
    <3>4. ASSUME NEW n \in 1 .. Len(rows)
          PROVE  rows[n].sequence = Counted(w) + n /\ rows[n].by = w
      <4>1. CASE n = Len(rows)
        BY <1>3, <1>4, <1>5, <1>6, <4>1
      <4>2. CASE n # Len(rows)
        <5>1. n \in 1 .. Len(tx[w].rows)
          BY <1>3, <1>6, <4>2
        <5> QED
          BY <1>6, <3>3, <5>1
      <4> QED
        BY <4>1, <4>2
    <3>5. Len(log) + Len(rows) <= MaxEvents
      BY <1>1, <1>3, <1>6, EventsAssumption
    <3> QED
      BY <1>1, <1>7, <2>1, <3>1, <3>2, <3>4, <3>5
  <2>2. CASE v # w
    <3>1. tx'[v] = tx[v]
      BY <1>1, <1>2, <2>2
    <3>2. tx[v].rows = <<>> /\ tx[v].snapshot <= Len(log)
      BY <1>1, <1>2, <1>10, <2>2, <3>1, OthersUnnumbered DEF NumbersReserved
    <3> QED
      BY <3>1, <3>2
  <2> QED
    BY <2>1, <2>2
<1>11. NumbersReserved'
  BY <1>1, <1>10 DEF NumbersReserved
<1> QED
  BY <1>1, <1>9, <1>11, LogUnchanged DEF LogInv

(* A transaction that ends without a trace. *)
LEMMA RollbackStep ==
  ASSUME LogInv, NEW w \in Writer, Rollback(w)
  PROVE  LogInv'
<1>1. /\ tx[w] # NoTx /\ tx' = [tx EXCEPT ![w] = NoTx]
      /\ lock' = IF lock = w THEN Free ELSE lock
      /\ UNCHANGED <<level, log, cursor, wire, seen>>
  BY DEF Rollback, Release
<1>2. TypeOK /\ NumbersReserved /\ tx \in [Writer -> OpenTx \cup {NoTx}]
  BY DEF LogInv, TypeOK
<1>3. tx' \in [Writer -> OpenTx \cup {NoTx}] /\ Pending' = Pending \ {w}
  BY <1>1, <1>2 DEF Pending
<1>4. TypeOK'
  BY <1>1, <1>2, <1>3 DEF TypeOK
<1>5. ASSUME NEW v \in Writer, tx'[v] # NoTx
      PROVE  v # w /\ tx'[v] = tx[v] /\ Counted(v)' = Counted(v)
  BY <1>1, <1>2, <1>5 DEF Counted
<1>6. NumbersReserved'
  BY <1>1, <1>2, <1>5 DEF NumbersReserved
<1> QED
  BY <1>1, <1>4, <1>6, LogUnchanged DEF LogInv

(* What is committed is numbered on from what its writer counted: at READ  *)
(* COMMITTED every committed row, for the lock it holds; at SERIALIZABLE   *)
(* those of its snapshot, and any it has missed is of a READ COMMITTED     *)
(* writer.                                                                 *)
LEMMA CommitStep ==
  ASSUME LogInv, NEW w \in Writer, Commit(w)
  PROVE  LogInv'
<1> DEFINE rows == tx[w].rows
           base == Len(log)
<1>1. /\ tx[w] # NoTx /\ rows # <<>> /\ ~Conflicting(w)
      /\ log' = log \o rows /\ tx' = [tx EXCEPT ![w] = NoTx]
      /\ lock' = IF lock = w THEN Free ELSE lock
      /\ UNCHANGED <<level, cursor, wire, seen>>
  BY DEF Commit, Release
<1>2. TypeOK /\ NumbersReserved /\ tx \in [Writer -> OpenTx \cup {NoTx}]
      /\ SequenceFollowsCommit /\ level \in [Writer -> Level]
  BY DEF LogInv, TypeOK
<1>3. /\ rows \in Seq(Row) /\ Len(rows) \in Nat /\ tx[w].snapshot \in Nat
      /\ log \in Seq(Row) /\ base \in Nat
  BY <1>1, <1>2, OpenTransaction
<1>4. lock = w /\ base + Len(rows) <= MaxEvents /\ tx[w].snapshot <= base
  BY <1>1, <1>2 DEF NumbersReserved
<1>5. \A n \in 1 .. Len(rows) : rows[n].sequence = Counted(w) + n /\ rows[n].by = w
  BY <1>1, <1>2 DEF NumbersReserved
<1> HIDE DEF rows, base
<1>6. PICK c \in Nat : Counted(w) = c
  BY <1>3 DEF Counted, base
<1>7. /\ level[w] = "READ COMMITTED" => c = base
      /\ c # base => c = tx[w].snapshot
      /\ c <= base
  <2>1. (level[w] # "SERIALIZABLE" /\ c = base) \/ c = tx[w].snapshot
    BY <1>6 DEF Counted, base
  <2>2. level[w] = "READ COMMITTED" => c = base
    BY <1>6 DEF Counted, base
  <2>3. c <= base /\ (c # base => c = tx[w].snapshot)
    <3>1. CASE c = base
      BY <1>3, <2>2, <3>1
    <3>2. CASE c # base
      BY <1>4, <2>1, <2>2, <3>2
    <3> QED
      BY <3>1, <3>2
  <2> QED
    BY <2>2, <2>3
<1>8. /\ log' \in Seq(Row) /\ Len(log') = base + Len(rows)
      /\ \A n \in 1 .. base : log'[n] = log[n]
      /\ \A n \in 1 .. Len(rows) : log'[base + n] = rows[n]
  BY <1>1, <1>3 DEF base
<1>9. \A n \in DOMAIN log' : \/ n \in 1 .. base /\ n \in DOMAIN log
                             \/ /\ n - base \in 1 .. Len(rows) /\ n > base
                                /\ log'[n].sequence = c + (n - base)
                                /\ log'[n].by = w
  <2> TAKE n \in DOMAIN log'
  <2>1. n \in 1 .. base + Len(rows) /\ DOMAIN log = 1 .. base
    BY <1>3, <1>8 DEF base
  <2>2. CASE n <= base
    BY <1>3, <2>1, <2>2
  <2>3. CASE n > base
    <3>1. n - base \in 1 .. Len(rows) /\ base + (n - base) = n
      BY <1>3, <2>1, <2>3
    <3>2. log'[n] = rows[n - base]
      BY <1>8, <3>1
    <3> QED
      BY <1>5, <1>6, <2>3, <3>1, <3>2
  <2> QED
    BY <1>3, <2>1, <2>2, <2>3
<1>10. TypeOK'
  <2>1. tx' \in [Writer -> OpenTx \cup {NoTx}] /\ lock' = Free
    BY <1>1, <1>2, <1>4
  <2>2. cursor' \in 0 .. Len(log') /\ DOMAIN log \subseteq DOMAIN log'
    BY <1>1, <1>2, <1>3, <1>8 DEF TypeOK, base
  <2>3. Elements(wire)' \cup Elements(seen)' \subseteq DOMAIN log'
    BY <1>1, <1>2, <2>2 DEF TypeOK, Elements
  <2> QED
    BY <1>1, <1>2, <1>4, <1>8, <2>1, <2>2, <2>3 DEF TypeOK
<1>11. ASSUME NEW n \in DOMAIN log'
       PROVE  /\ log'[n].sequence <= n
              /\ level[log'[n].by] = "READ COMMITTED" => log'[n].sequence = n
  <2>1. CASE n \in 1 .. base /\ n \in DOMAIN log
    BY <1>2, <1>8, <2>1 DEF SequenceFollowsCommit
  <2>2. CASE /\ n - base \in 1 .. Len(rows) /\ n > base
             /\ log'[n].sequence = c + (n - base) /\ log'[n].by = w
    <3>1. n \in Int /\ base \in Int
      BY <1>3, <1>8
    <3>2. c + (n - base) <= n /\ (c = base => c + (n - base) = n)
      <4>1. c <= base
        BY <1>7
      <4> QED
        BY <3>1, <4>1
    <3> QED
      BY <1>7, <2>2, <3>2
  <2> QED
    BY <1>9, <2>1, <2>2
<1>12. ASSUME NEW n \in DOMAIN log', NEW m \in 1 .. n - 1
       PROVE  \/ log'[m].sequence < log'[n].sequence
              \/ level[log'[m].by] = "READ COMMITTED" /\ level[log'[n].by] = "SERIALIZABLE"
  <2>1. n \in Int /\ base \in Int /\ m \in Int /\ m < n /\ m \in DOMAIN log'
    BY <1>3, <1>8
  <2>2. CASE n \in 1 .. base /\ n \in DOMAIN log
    <3>1. m \in 1 .. base
      BY <2>1, <2>2
    <3>2. log'[m] = log[m] /\ log'[n] = log[n]
      BY <1>8, <2>2, <3>1
    <3> QED
      BY <1>2, <2>2, <3>2 DEF SequenceFollowsCommit
  <2>3. CASE /\ n - base \in 1 .. Len(rows) /\ n > base
             /\ log'[n].sequence = c + (n - base) /\ log'[n].by = w
    <3>1. CASE m \in 1 .. base /\ m \in DOMAIN log
      <4>1. log'[m].sequence \in Nat /\ log'[m].sequence <= m /\ log'[m] = log[m]
            /\ log[m].by \in Writer
        BY <1>3, <1>8, <1>11, <2>1, <3>1, RowOfLog
      <4>2. CASE m <= c
        <5>1. c + (n - base) > c
          BY <2>1, <2>3
        <5>2. log'[m].sequence <= c
          BY <2>1, <4>1, <4>2
        <5>3. log'[m].sequence < c + (n - base)
          BY <2>1, <4>1, <5>1, <5>2
        <5> QED
          BY <2>3, <5>3
      <4>3. CASE ~(m <= c)
        <5>1. level[w] = "SERIALIZABLE" /\ c = tx[w].snapshot
          <6>1. c # base
            BY <1>3, <2>1, <3>1, <4>3
          <6> QED
            BY <1>2, <1>7, <6>1 DEF Level
        <5>2. m \in tx[w].snapshot + 1 .. Len(log)
          BY <1>3, <1>6, <2>1, <3>1, <4>3, <5>1 DEF base
        <5>3. level[log[m].by] # "SERIALIZABLE"
          BY <1>1, <5>1, <5>2 DEF Conflicting
        <5>4. level[log[m].by] = "READ COMMITTED"
          BY <1>2, <4>1, <5>3 DEF Level
        <5> QED
          BY <2>3, <4>1, <5>1, <5>4
      <4> QED
        BY <4>2, <4>3
    <3>2. CASE log'[m].sequence = c + (m - base)
      <4>1. c + (m - base) < c + (n - base)
        BY <2>1
      <4> QED
        BY <2>3, <3>2, <4>1
    <3> QED
      BY <1>9, <2>1, <3>1, <3>2
  <2> QED
    BY <1>9, <2>2, <2>3
<1>13. SequenceFollowsCommit'
  BY <1>1, <1>11, <1>12 DEF SequenceFollowsCommit
<1>14. NumbersReserved'
  <2> SUFFICES ASSUME NEW v \in Writer, tx'[v] # NoTx
               PROVE  /\ tx'[v].snapshot <= Len(log')
                      /\ tx'[v].rows = <<>>
    BY DEF NumbersReserved
  <2>1. v # w /\ tx'[v] = tx[v]
    BY <1>1, <1>2
  <2>2. tx[v].rows = <<>> /\ tx[v].snapshot <= Len(log) /\ tx[v].snapshot \in Nat
    BY <1>2, <1>4, <2>1, OthersUnnumbered, OpenTransaction DEF NumbersReserved
  <2> QED
    BY <1>3, <1>8, <2>1, <2>2 DEF base
<1>15. StreamInOrder'
  <2>1. /\ wire' = wire /\ seen' = seen /\ cursor' = cursor /\ Sent' = Sent
        /\ \A i \in DOMAIN Sent : Sent[i] \in DOMAIN log
    BY <1>1, SentEvents DEF Sent
  <2>2. /\ DOMAIN log \subseteq DOMAIN log'
        /\ \A m, n \in DOMAIN log : Before(m, n)' <=> Before(m, n)
        /\ \A n \in DOMAIN log : InPlace(n)' <=> InPlace(n)
        /\ \A m \in DOMAIN log', n \in DOMAIN log :
             m \notin DOMAIN log /\ log[n].sequence <= n => ~(InPlace(m)' /\ Before(m, n)')
    <3>1. Len(log) <= Len(log') /\ DOMAIN log = 1 .. base
      BY <1>3, <1>8 DEF base
    <3> QED
      BY <1>3, <1>8, <3>1, OrderKept
  <2>3. \A n \in DOMAIN log : log[n].sequence <= n
    BY <1>2 DEF SequenceFollowsCommit
  <2>4. wire' \in Seq(Nat) /\ seen' \in Seq(Nat) /\ cursor' = Last(Sent)'
    BY <2>1 DEF LogInv, StreamInOrder, Last
  <2>5. (\A i, j \in DOMAIN Sent : i < j => Before(Sent[i], Sent[j]))'
    BY <2>1, <2>2 DEF LogInv, StreamInOrder
  <2>6. ASSUME NEW i \in DOMAIN Sent, NEW m \in DOMAIN log', InPlace(m)', Before(m, Sent[i])'
        PROVE  \E j \in 1 .. i - 1 : Sent[j] = m
    <3>1. m \in DOMAIN log
      BY <2>1, <2>2, <2>3, <2>6
    <3>2. InPlace(m) /\ Before(m, Sent[i])
      BY <2>1, <2>2, <2>6, <3>1
    <3> QED
      BY <3>1, <3>2 DEF LogInv, StreamInOrder
  <2>7. (\A i \in DOMAIN Sent, m \in DOMAIN log :
           InPlace(m) /\ Before(m, Sent[i]) => \E j \in 1 .. i - 1 : Sent[j] = m)'
    BY <2>1, <2>6
  <2> QED
    BY <2>4, <2>5, <2>7 DEF StreamInOrder
<1> QED
  BY <1>10, <1>13, <1>14, <1>15 DEF LogInv

(* Every step keeps the invariant. *)
LEMMA LogStep == LogInv /\ [Next]_vars => LogInv'
<1> SUFFICES ASSUME LogInv, [Next]_vars
             PROVE  LogInv'
  OBVIOUS
<1>1. CASE UNCHANGED vars
  <2>1. TypeOK' /\ NumbersReserved'
    BY <1>1 DEF vars, LogInv, TypeOK, Pending, Elements, NumbersReserved, Counted
  <2> QED
    BY <1>1, <2>1, LogUnchanged DEF vars, LogInv
<1> QED
  BY <1>1, BeginStep, AppendStep, CommitStep, RollbackStep, PollStep, ReceiveStep,
     ReconnectStep DEF Next
-----------------------------------------------------------------------------
(***************************************************************************)
(* The theorems.                                                           *)
(***************************************************************************)
(* The invariant holds for any number of commands at any levels. *)
THEOREM LogInvariant == Spec => []LogInv
  BY LogInit, LogStep, PTL DEF Spec

(* Rows, transactions and stream keep their types, and the lock belongs to *)
(* an open transaction.                                                    *)
THEOREM LogTypeCorrect == Spec => []TypeOK
<1>1. LogInv => TypeOK
  BY DEF LogInv
<1> QED
  BY <1>1, LogInvariant, PTL

(* How the numbers of a call's events follow commit order. *)
THEOREM NumbersFollowCommit == Spec => []SequenceFollowsCommit
<1>1. LogInv => SequenceFollowsCommit
  BY DEF LogInv
<1> QED
  BY <1>1, LogInvariant, PTL

(* What orders before the event a browser would resume from, it has,       *)
(* unless its number has slipped.                                          *)
THEOREM ResumeSkipsOnlySlipped == Spec => []SkipsOnlySlipped
<1>1. LogInv => SkipsOnlySlipped
  <2> SUFFICES ASSUME LogInv, NEW m \in DOMAIN log, NEW n \in DOMAIN log,
                      n = Last(seen), Before(m, n), InPlace(m)
               PROVE  m \in Elements(seen)
    BY DEF SkipsOnlySlipped
  <2>1. /\ seen \in Seq(Nat) /\ Len(seen) \in Nat /\ Len(wire) \in Nat /\ log \in Seq(Row)
        /\ DOMAIN Sent = 1 .. Len(Sent) /\ Len(Sent) = Len(seen) + Len(wire)
        /\ \A i \in 1 .. Len(seen) : Sent[i] = seen[i]
    BY SentEvents
  <2>2. seen # <<>>
    <3>1. n # 0
      BY <2>1
    <3> QED
      BY <3>1 DEF Last
  <2>3. /\ Len(seen) \in 1 .. Len(seen) /\ Len(seen) \in DOMAIN Sent
        /\ n = Sent[Len(seen)]
    BY <2>1, <2>2 DEF Last
  <2>4. PICK j \in 1 .. Len(seen) - 1 : Sent[j] = m
    BY <2>3 DEF LogInv, StreamInOrder
  <2>5. j \in 1 .. Len(seen) /\ DOMAIN seen = 1 .. Len(seen)
    BY <2>1
  <2>6. j \in DOMAIN seen /\ seen[j] = m
    BY <2>1, <2>4, <2>5
  <2> QED
    BY <2>6 DEF Elements
<1> QED
  BY <1>1, LogInvariant, PTL

(* What the feed promises, but for getting on. *)
FeedHistory ==
  TheFeed!FeedInit /\ [][TheFeed!Publish \/ TheFeed!DeliverAny]_TheFeed!feedVars

(* The stream refines the feed: a commit publishes, a received event is    *)
(* delivered, never a second time and in its turn if its number is its     *)
(* place, and nothing else is visible, whatever breaks in between.         *)
THEOREM StreamRefinesFeed == Spec => FeedHistory
<1> DEFINE history == [n \in DOMAIN log |-> InPlace(n)]
<1>1. Init => TheFeed!FeedInit
  BY DEF Init, TheFeed!FeedInit
<1>2. LogInv /\ [Next]_vars => [TheFeed!Publish \/ TheFeed!DeliverAny]_TheFeed!feedVars
  <2> SUFFICES ASSUME LogInv, [Next]_vars
               PROVE  TheFeed!Publish \/ TheFeed!DeliverAny \/ UNCHANGED <<history, seen>>
    BY DEF TheFeed!feedVars
  <2>1. log \in Seq(Row) /\ Len(log) \in Nat
    BY DEF LogInv, TypeOK
  <2>2. ASSUME NEW w \in Writer, Commit(w)
        PROVE  TheFeed!Publish
    <3>1. tx[w] # NoTx /\ tx[w].rows # <<>> /\ log' = log \o tx[w].rows /\ seen' = seen
      BY <2>2 DEF Commit
    <3>2. tx[w].rows \in Seq(Row)
      BY <3>1, OpenTransaction DEF LogInv
    <3>3. /\ log' \in Seq(Row) /\ Len(log') \in Nat /\ Len(log') > Len(log)
          /\ \A n \in 1 .. Len(log) : log'[n] = log[n]
      BY <2>1, <3>1, <3>2
    <3>4. \A n \in 1 .. Len(log) : InPlace(n)' <=> InPlace(n)
      BY <3>3 DEF InPlace
    <3>5. \A n : InPlace(n) \in BOOLEAN /\ InPlace(n)' \in BOOLEAN
      BY DEF InPlace
    <3>6. /\ history \in Seq(BOOLEAN) /\ Len(history) = Len(log)
          /\ history' \in Seq(BOOLEAN) /\ Len(history') = Len(log')
          /\ \A n \in 1 .. Len(log) : history[n] = history'[n]
      <4>1. history \in Seq(BOOLEAN) /\ Len(history) = Len(log)
        BY <2>1, <3>5
      <4>2. history' \in Seq(BOOLEAN) /\ Len(history') = Len(log')
        BY <3>3, <3>5
      <4>3. \A n \in 1 .. Len(log) : history[n] = history'[n]
        BY <2>1, <3>3, <3>4, <3>5
      <4> QED
        BY <4>1, <4>2, <4>3
    <3>7. history = SubSeq(history', 1, Len(history))
      <4> HIDE DEF history
      <4> QED
        BY <2>1, <3>3, <3>6
    <3> QED
      BY <3>1, <3>3, <3>6, <3>7 DEF TheFeed!Publish
  <2>3. CASE Receive
    <3> DEFINE n == Head(wire)
    <3>1. /\ wire # <<>> /\ seen' = Append(seen, n) /\ log' = log
      BY <2>3 DEF Receive
    <3>2. /\ wire \in Seq(Nat) /\ seen \in Seq(Nat) /\ Len(wire) \in Nat /\ Len(seen) \in Nat
          /\ DOMAIN Sent = 1 .. Len(Sent) /\ Len(Sent) = Len(seen) + Len(wire)
          /\ \A i \in 1 .. Len(seen) : Sent[i] = seen[i]
          /\ \A i \in 1 .. Len(wire) : Sent[Len(seen) + i] = wire[i]
          /\ \A i \in DOMAIN Sent : Sent[i] \in DOMAIN log
      BY SentEvents
    <3>3. Len(seen) + 1 \in DOMAIN Sent /\ Sent[Len(seen) + 1] = n /\ n \in DOMAIN log
      <4>1. 1 \in 1 .. Len(wire) /\ wire[1] = n
        BY <3>1, <3>2
      <4>2. Sent[Len(seen) + 1] = n /\ Len(seen) + 1 \in 1 .. Len(Sent)
        BY <3>2, <4>1
      <4> QED
        BY <3>2, <4>2
    <3>4. \A i \in DOMAIN seen : seen[i] # n
      <4> SUFFICES ASSUME NEW i \in DOMAIN seen
                   PROVE  seen[i] # n
        OBVIOUS
      <4>1. i \in 1 .. Len(seen) /\ i \in DOMAIN Sent /\ i < Len(seen) + 1 /\ Sent[i] = seen[i]
        BY <3>2
      <4>2. Before(seen[i], n) /\ seen[i] \in DOMAIN log
        BY <3>2, <3>3, <4>1 DEF LogInv, StreamInOrder
      <4> QED
        BY <2>1, <3>3, <4>2, BeforeOrder
    <3>5. n \in TheFeed!Missing
      BY <3>3, <3>4 DEF TheFeed!Missing
    <3>6. InPlace(n) => \A m \in TheFeed!Missing : InPlace(m) => n <= m
      <4> SUFFICES ASSUME InPlace(n), NEW m \in DOMAIN log, InPlace(m), m < n,
                          \A i \in DOMAIN seen : seen[i] # m
                   PROVE  FALSE
        BY <2>1, <3>3 DEF TheFeed!Missing
      <4>1. Before(m, n)
        BY DEF Before, InPlace
      <4>2. PICK j \in 1 .. Len(seen) + 1 - 1 : Sent[j] = m
        BY <3>3, <4>1 DEF LogInv, StreamInOrder
      <4>3. j \in 1 .. Len(seen) /\ j \in DOMAIN seen /\ seen[j] = m
        BY <3>2, <4>2
      <4> QED
        BY <4>3
    <3>7. history' = history
      BY <3>1 DEF InPlace
    <3>8. history[n] => \A m \in TheFeed!Missing : history[m] => n <= m
      BY <3>3, <3>6 DEF TheFeed!Missing
    <3> QED
      BY <3>1, <3>5, <3>7, <3>8 DEF TheFeed!DeliverAny, TheFeed!Deliver
  <2>4. ASSUME \/ \E w \in Writer : \/ \E at \in Instant : Begin(w, at)
                                    \/ AppendEvent(w) \/ Rollback(w)
               \/ Poll \/ Reconnect \/ UNCHANGED vars
        PROVE  UNCHANGED <<history, seen>>
    <3>1. UNCHANGED <<log, seen>>
      BY <2>4 DEF Begin, AppendEvent, Rollback, Poll, Reconnect, vars
    <3> QED
      BY <3>1 DEF InPlace
  <2> QED
    BY <2>2, <2>3, <2>4 DEF Next
<1> QED
  BY <1>1, <1>2, LogInvariant, PTL DEF Spec, FeedHistory
=============================================================================
