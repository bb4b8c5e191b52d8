-------------------------- MODULE InventoryProofs --------------------------
(***************************************************************************)
(* Theorems about Inventory, for every set of keys, bookings, departures   *)
(* and every capacity.                                                     *)
(***************************************************************************)
EXTENDS Inventory, FiniteSetTheorems, TLAPS

-----------------------------------------------------------------------------
(* The expiry sweep keeps the table's type. *)
LEMMA SweepType ==
  ASSUME NEW h \in HoldTable, NEW d, NEW t
  PROVE  Sweep(h, d, t) \in HoldTable
  BY DEF Sweep, HoldTable, HoldRow, NoHold, IsDue

(* Releasing a booking's other holds keeps the table's type. *)
LEMMA ReleaseType ==
  ASSUME NEW h \in HoldTable, NEW b, NEW d, NEW t
  PROVE  ReleaseOthers(h, b, d, t) \in HoldTable
  BY DEF ReleaseOthers, HoldTable, HoldRow, NoHold, IsActiveFor

(* Consuming a booking's holds keeps the table's type. *)
LEMMA ConsumeType ==
  ASSUME NEW h \in HoldTable, NEW b
  PROVE  ConsumeActive(h, b) \in HoldTable
  BY DEF ConsumeActive, HoldTable, HoldRow, NoHold

(* Inserting a reservation keeps the table's type. *)
LEMMA ReservedType ==
  ASSUME NEW h \in HoldTable, NEW k \in HoldKey, NEW b \in Booking,
         NEW d \in Departure, NEW q \in 1 .. MaxParty, NEW t, NEW e \in Nat
  PROVE  Reserved(h, k, b, d, q, t, e) \in HoldTable
  BY SweepType DEF Reserved, HoldTable, HoldRow

(* A captured time is a moment of the past, at most MaxLag ago. *)
LEMMA CapturedIsPast ==
  ASSUME InventoryTypeOK, NEW t \in Captured
  PROVE  t \in Nat /\ t <= now /\ t + MaxLag >= now
  BY BoundsAssumption DEF InventoryTypeOK, Captured

-----------------------------------------------------------------------------
(* What each action does, once and for all: the proofs below split on it. *)
LEMMA StepCases ==
  ASSUME InventoryTypeOK, InventoryNext
  PROVE  \/ Tick
         \/ \E b \in Booking : Consume(b)
         \/ \E d \in Departure, t \in Captured : holds' = Sweep(holds, d, t) /\ now' = now
         \/ \E k \in HoldKey, b \in Booking, d \in Departure,
               q \in 1 .. MaxParty, t \in Captured, e \in Nat :
               Reserve(k, b, d, q, t, e) \/ MoveHold(k, b, d, q, t, e)
<1>1. CASE Tick
  BY <1>1
<1>2. CASE \E b \in Booking : Consume(b)
  BY <1>2
<1>3. CASE \E d \in Departure, t \in Captured : ExpireDue(d, t)
  BY <1>3 DEF ExpireDue
<1>4. CASE \E d \in Departure, t \in Captured, q \in 1 .. MaxParty : ReserveRefused(d, q, t)
  BY <1>4 DEF ReserveRefused
<1>5. ASSUME NEW k \in HoldKey, NEW b \in Booking, NEW d \in Departure,
             NEW q \in 1 .. MaxParty, NEW t \in Captured, NEW e \in t .. t + HoldTTL,
             Reserve(k, b, d, q, t, e) \/ MoveHold(k, b, d, q, t, e)
      PROVE  e \in Nat
  BY <1>5, CapturedIsPast, BoundsAssumption
<1> QED
  BY <1>1, <1>2, <1>3, <1>4, <1>5 DEF InventoryNext

(* Every step keeps the type of the hold table and of the clock. *)
LEMMA InventoryTypeStep ==
  ASSUME InventoryTypeOK, [InventoryNext]_inventoryVars
  PROVE  InventoryTypeOK'
<1> holds \in HoldTable /\ now \in 0 .. MaxTime
  BY DEF InventoryTypeOK
<1>1. CASE Tick
  BY <1>1, BoundsAssumption DEF Tick, InventoryTypeOK
<1>2. ASSUME NEW b \in Booking, Consume(b)
      PROVE  InventoryTypeOK'
  BY <1>2, ConsumeType DEF Consume, InventoryTypeOK
<1>3. ASSUME NEW d \in Departure, NEW t \in Captured,
             holds' = Sweep(holds, d, t), now' = now
      PROVE  InventoryTypeOK'
  BY <1>3, SweepType DEF InventoryTypeOK
<1>4. ASSUME NEW k \in HoldKey, NEW b \in Booking, NEW d \in Departure,
             NEW q \in 1 .. MaxParty, NEW t \in Captured, NEW e \in Nat,
             Reserve(k, b, d, q, t, e)
      PROVE  InventoryTypeOK'
  BY <1>4, ReservedType DEF Reserve, InventoryTypeOK
<1>5. ASSUME NEW k \in HoldKey, NEW b \in Booking, NEW d \in Departure,
             NEW q \in 1 .. MaxParty, NEW t \in Captured, NEW e \in Nat,
             MoveHold(k, b, d, q, t, e)
      PROVE  InventoryTypeOK'
  BY <1>5, ReservedType, ReleaseType DEF MoveHold, InventoryTypeOK
<1>6. CASE UNCHANGED inventoryVars
  BY <1>6 DEF inventoryVars, InventoryTypeOK
<1> QED
  BY <1>1, <1>2, <1>3, <1>4, <1>5, <1>6, StepCases

(* The empty table at time zero has the type. *)
LEMMA InventoryTypeInit == InventoryInit => InventoryTypeOK
  BY BoundsAssumption DEF InventoryInit, InventoryTypeOK, HoldTable

(* Type correctness of the hold table and the clock. *)
THEOREM InventoryTypeCorrect == InventorySpec => []InventoryTypeOK
  BY InventoryTypeInit, InventoryTypeStep, PTL DEF InventorySpec

-----------------------------------------------------------------------------
(* Counting seats: a set of keys stands for finitely many seats. *)
LEMMA SeatsFinite ==
  ASSUME NEW h, NEW keys \in SUBSET HoldKey
  PROVE  IsFiniteSet(Seats(h, keys)) /\ Cardinality(Seats(h, keys)) \in Nat
<1>1. IsFiniteSet(keys)
  BY HoldKeyAssumption, FS_Subset
<1>2. IsFiniteSet(1 .. MaxParty)
  BY BoundsAssumption, FS_Interval
<1>3. IsFiniteSet(keys \X (1 .. MaxParty))
  BY <1>1, <1>2, FS_Product
<1>4. Seats(h, keys) \in SUBSET (keys \X (1 .. MaxParty))
  BY DEF Seats
<1> QED
  BY <1>3, <1>4, FS_Subset, FS_CardinalityType

(* The seats held on a departure are finitely many. *)
LEMMA SeatsHeldFinite ==
  ASSUME NEW h, NEW d
  PROVE  IsFiniteSet(SeatsHeld(h, d)) /\ Cardinality(SeatsHeld(h, d)) \in Nat
  BY SeatsFinite DEF SeatsHeld

(* A table in which nothing new is held, with the same quantities, holds   *)
(* no more seats.                                                          *)
LEMMA FewerSeats ==
  ASSUME NEW g, NEW h, NEW d,
         \A k \in HoldKey :
           h[k].status \in {"ACTIVE", "CONSUMED"} =>
             /\ g[k].status \in {"ACTIVE", "CONSUMED"}
             /\ g[k].departure = h[k].departure
             /\ g[k].quantity = h[k].quantity
  PROVE  Cardinality(SeatsHeld(h, d)) <= Cardinality(SeatsHeld(g, d))
<1>1. SeatsHeld(h, d) \in SUBSET SeatsHeld(g, d)
  BY DEF SeatsHeld, Seats
<1> QED
  BY <1>1, SeatsHeldFinite, FS_Subset

(* Expiring due holds gives seats back, on every departure. *)
LEMMA SweepFewerSeats ==
  ASSUME NEW h \in HoldTable, NEW c, NEW d, NEW t
  PROVE  Cardinality(SeatsHeld(Sweep(h, c, t), d)) <= Cardinality(SeatsHeld(h, d))
<1>1. \A k \in HoldKey :
        Sweep(h, c, t)[k].status \in {"ACTIVE", "CONSUMED"} => Sweep(h, c, t)[k] = h[k]
  BY DEF Sweep, IsDue, HoldTable, HoldRow, NoHold
<1> QED
  BY <1>1, FewerSeats, Zenon

(* Releasing a booking's other holds gives seats back. *)
LEMMA ReleaseFewerSeats ==
  ASSUME NEW h \in HoldTable, NEW b, NEW c, NEW d, NEW t
  PROVE  Cardinality(SeatsHeld(ReleaseOthers(h, b, c, t), d))
           <= Cardinality(SeatsHeld(h, d))
<1>1. \A k \in HoldKey :
        ReleaseOthers(h, b, c, t)[k].status \in {"ACTIVE", "CONSUMED"} =>
          ReleaseOthers(h, b, c, t)[k] = h[k]
  BY DEF ReleaseOthers, IsActiveFor, HoldTable, HoldRow, NoHold
<1> QED
  BY <1>1, FewerSeats, Zenon

(* A party adds exactly its own seats. *)
LEMMA PartySeats ==
  ASSUME NEW k, NEW q \in 1 .. MaxParty
  PROVE  /\ IsFiniteSet({k} \X (1 .. q))
         /\ Cardinality({k} \X (1 .. q)) = q
<1> q \in Nat /\ q >= 1
  BY BoundsAssumption
<1>1. IsFiniteSet(1 .. q) /\ Cardinality(1 .. q) = q
  BY FS_Interval
<1>2. IsFiniteSet({k}) /\ Cardinality({k}) = 1
  BY FS_Singleton
<1> QED
  BY <1>1, <1>2, FS_Product

(* The heart of rule 9: after the sweep every ACTIVE row of the departure  *)
(* is counted, whatever time the request had captured, so what fits the    *)
(* count fits the bus.                                                     *)
LEMMA ReservedFits ==
  ASSUME NEW h \in HoldTable, NEW k \in HoldKey, NEW b \in Booking,
         NEW d \in Departure, NEW q \in 1 .. MaxParty, NEW t \in Nat, NEW e \in Nat,
         CanReserve(h, k, b, d, q, t),
         \A c \in Departure : Cardinality(SeatsHeld(h, c)) <= Capacity[c]
  PROVE  \A c \in Departure :
           Cardinality(SeatsHeld(Reserved(h, k, b, d, q, t, e), c)) <= Capacity[c]
<1> DEFINE g == Sweep(h, d, t)
           r == Reserved(h, k, b, d, q, t, e)
<1>1. g \in HoldTable
  BY SweepType
<1>2. /\ r[k] = [status |-> "ACTIVE", booking |-> b, departure |-> d,
                 quantity |-> q, expiresAt |-> e]
      /\ \A j \in HoldKey \ {k} : r[j] = g[j]
  BY <1>1 DEF Reserved, HoldTable
<1>3. TAKE c \in Departure
<1>4. CASE c = d
  <2>1. SeatsHeld(g, d) = Seats(g, Occupying(g, d, t))
    <3>1. \A j \in HoldKey : g[j].status = "ACTIVE" /\ g[j].departure = d => g[j].expiresAt > t
      BY DEF Sweep, IsDue, HoldTable, HoldRow, NoHold
    <3> QED
      BY <3>1 DEF SeatsHeld, Seats, Occupying
  <2>2. Cardinality(SeatsHeld(g, d)) + q <= Capacity[d]
    <3>1. Fits(g, d, q, t)
      BY DEF CanReserve
    <3>2. Occupied(g, d, t) = Cardinality(SeatsHeld(g, d))
      BY <2>1 DEF Occupied
    <3> QED
      BY <3>1, <3>2 DEF Fits
  <2>3. Cardinality(SeatsHeld(g, d) \cup ({k} \X (1 .. q))) <= Cardinality(SeatsHeld(g, d)) + q
    <3> DEFINE S == SeatsHeld(g, d)
               P == {k} \X (1 .. q)
    <3>1. IsFiniteSet(S) /\ Cardinality(S) \in Nat
      BY SeatsHeldFinite
    <3>2. IsFiniteSet(P) /\ Cardinality(P) = q
      BY PartySeats
    <3>3. S \cap P \in SUBSET P
      OBVIOUS
    <3>4. Cardinality(S \cap P) \in Nat
      BY <3>2, <3>3, FS_Subset, FS_CardinalityType
    <3>5. Cardinality(S \cup P) = Cardinality(S) + Cardinality(P) - Cardinality(S \cap P)
      BY <3>1, <3>2, FS_Union
    <3> HIDE DEF S, P
    <3>6. q \in Nat
      BY BoundsAssumption
    <3>7. Cardinality(S \cup P) <= Cardinality(S) + q
      BY <3>1, <3>2, <3>4, <3>5, <3>6
    <3> QED
      BY <3>7 DEF S, P
  <2>4. SeatsHeld(r, d) \in SUBSET (SeatsHeld(g, d) \cup ({k} \X (1 .. q)))
    <3>1. SUFFICES ASSUME NEW s \in SeatsHeld(r, d)
                   PROVE  s \in SeatsHeld(g, d) \cup ({k} \X (1 .. q))
      OBVIOUS
    <3>2. /\ s \in HoldKey \X (1 .. MaxParty)
          /\ r[s[1]].status \in {"ACTIVE", "CONSUMED"}
          /\ r[s[1]].departure = d
          /\ s[2] <= r[s[1]].quantity
      BY DEF SeatsHeld, Seats
    <3>3. CASE s[1] = k
      BY <3>2, <3>3, <1>2, BoundsAssumption
    <3>4. CASE s[1] # k
      <4>1. r[s[1]] = g[s[1]]
        BY <3>2, <3>4, <1>2
      <4> QED
        BY <3>2, <4>1 DEF SeatsHeld, Seats
    <3> QED
      BY <3>3, <3>4
  <2>5. Cardinality(SeatsHeld(r, d))
          <= Cardinality(SeatsHeld(g, d) \cup ({k} \X (1 .. q)))
    BY <2>4, SeatsHeldFinite, PartySeats, FS_Union, FS_Subset
  <2>6. /\ Cardinality(SeatsHeld(r, d)) \in Nat
        /\ Cardinality(SeatsHeld(g, d)) \in Nat
        /\ Cardinality(SeatsHeld(g, d) \cup ({k} \X (1 .. q))) \in Nat
        /\ Capacity[d] \in Nat /\ q \in Nat
    <3>1. IsFiniteSet(SeatsHeld(g, d) \cup ({k} \X (1 .. q)))
      BY SeatsHeldFinite, PartySeats, FS_Union
    <3> QED
      BY <3>1, SeatsHeldFinite, FS_CardinalityType, CapacityAssumption, BoundsAssumption
  <2>7. Cardinality(SeatsHeld(r, d)) <= Capacity[d]
    BY <2>2, <2>3, <2>5, <2>6
  <2> QED
    BY <2>7, <1>4
<1>5. CASE c # d
  <2>1. SeatsHeld(r, c) \in SUBSET SeatsHeld(g, c)
    BY <1>2, <1>5 DEF SeatsHeld, Seats
  <2>2. Cardinality(SeatsHeld(r, c)) <= Cardinality(SeatsHeld(g, c))
    BY <2>1, SeatsHeldFinite, FS_Subset
  <2>3. Cardinality(SeatsHeld(g, c)) <= Cardinality(SeatsHeld(h, c))
    BY SweepFewerSeats
  <2>4. Capacity[c] \in Nat
    BY CapacityAssumption
  <2> QED
    BY <2>2, <2>3, <2>4, SeatsHeldFinite
<1> QED
  BY <1>4, <1>5

(* No departure is ever sold or held beyond its capacity. *)
THEOREM NeverOverbooked == InventorySpec => []NoOverbooking
<1>1. InventoryInit => NoOverbooking
  <2> SUFFICES ASSUME InventoryInit, NEW d \in Departure
               PROVE  Cardinality(SeatsHeld(holds, d)) <= Capacity[d]
    BY DEF NoOverbooking
  <2>1. SeatsHeld(holds, d) = {}
    BY DEF InventoryInit, SeatsHeld, Seats, NoHold
  <2> QED
    BY <2>1, FS_EmptySet, CapacityAssumption
<1>2. InventoryTypeOK /\ NoOverbooking /\ [InventoryNext]_inventoryVars => NoOverbooking'
  <2> SUFFICES ASSUME InventoryTypeOK, NoOverbooking, [InventoryNext]_inventoryVars
               PROVE  NoOverbooking'
    OBVIOUS
  <2> holds \in HoldTable
    BY DEF InventoryTypeOK
  <2>1. \A c \in Departure : Cardinality(SeatsHeld(holds, c)) <= Capacity[c]
    BY DEF NoOverbooking
  <2>2. SUFFICES \A c \in Departure : Cardinality(SeatsHeld(holds', c)) <= Capacity[c]
    BY DEF NoOverbooking, SeatsHeld, Seats
  <2>3. ASSUME NEW h \in HoldTable,
               \A c \in Departure :
                 Cardinality(SeatsHeld(h, c)) <= Cardinality(SeatsHeld(holds, c))
        PROVE  \A c \in Departure : Cardinality(SeatsHeld(h, c)) <= Capacity[c]
    <3> TAKE c \in Departure
    <3>1. Capacity[c] \in Nat
      BY CapacityAssumption
    <3> QED
      BY <2>1, <2>3, <3>1, SeatsHeldFinite
  <2>4. CASE Tick
    BY <2>1, <2>4 DEF Tick
  <2>5. ASSUME NEW b \in Booking, Consume(b)
        PROVE  \A c \in Departure : Cardinality(SeatsHeld(holds', c)) <= Capacity[c]
    <3> TAKE c \in Departure
    <3>1. holds' = ConsumeActive(holds, b)
      BY <2>5 DEF Consume
    <3>2. \A k \in HoldKey :
            ConsumeActive(holds, b)[k].status \in {"ACTIVE", "CONSUMED"} =>
              /\ holds[k].status \in {"ACTIVE", "CONSUMED"}
              /\ holds[k].departure = ConsumeActive(holds, b)[k].departure
              /\ holds[k].quantity = ConsumeActive(holds, b)[k].quantity
      BY DEF ConsumeActive, HoldTable, HoldRow, NoHold
    <3>3. Cardinality(SeatsHeld(ConsumeActive(holds, b), c))
            <= Cardinality(SeatsHeld(holds, c))
      BY <3>2, FewerSeats, Zenon
    <3> QED
      BY <2>1, <3>1, <3>3, CapacityAssumption, SeatsHeldFinite
  <2>6. ASSUME NEW d \in Departure, NEW t \in Captured,
               holds' = Sweep(holds, d, t), now' = now
        PROVE  \A c \in Departure : Cardinality(SeatsHeld(holds', c)) <= Capacity[c]
    BY <2>3, <2>6, SweepType, SweepFewerSeats
  <2>7. ASSUME NEW k \in HoldKey, NEW b \in Booking, NEW d \in Departure,
               NEW q \in 1 .. MaxParty, NEW t \in Captured, NEW e \in Nat,
               Reserve(k, b, d, q, t, e)
        PROVE  \A c \in Departure : Cardinality(SeatsHeld(holds', c)) <= Capacity[c]
    BY <2>1, <2>7, ReservedFits, CapturedIsPast DEF Reserve
  <2>8. ASSUME NEW k \in HoldKey, NEW b \in Booking, NEW d \in Departure,
               NEW q \in 1 .. MaxParty, NEW t \in Captured, NEW e \in Nat,
               MoveHold(k, b, d, q, t, e)
        PROVE  \A c \in Departure : Cardinality(SeatsHeld(holds', c)) <= Capacity[c]
    <3> DEFINE released == ReleaseOthers(holds, b, d, t)
    <3>1. released \in HoldTable
      BY ReleaseType
    <3>2. \A c \in Departure : Cardinality(SeatsHeld(released, c)) <= Capacity[c]
      BY <2>3, <3>1, ReleaseFewerSeats
    <3>3. /\ CanReserve(released, k, b, d, q, t)
          /\ holds' = Reserved(released, k, b, d, q, t, e)
      BY <2>8 DEF MoveHold
    <3> HIDE DEF released
    <3> QED
      BY <3>1, <3>2, <3>3, ReservedFits, CapturedIsPast
  <2>9. CASE UNCHANGED inventoryVars
    BY <2>1, <2>9 DEF inventoryVars
  <2> QED
    BY <2>4, <2>5, <2>6, <2>7, <2>8, <2>9, StepCases
<1> QED
  BY <1>1, <1>2, InventoryTypeCorrect, PTL DEF InventorySpec

-----------------------------------------------------------------------------
(* The unique index on ACTIVE rows, stated for a table. *)
OneActive(h) ==
  \A j, k \in HoldKey :
    (/\ h[j].status = "ACTIVE"
     /\ h[k].status = "ACTIVE"
     /\ h[j].booking = h[k].booking) => j = k

(* Rows that only leave ACTIVE keep the index. *)
LEMMA FewerActive ==
  ASSUME NEW g, NEW h, OneActive(g),
         \A k \in HoldKey : h[k].status = "ACTIVE" => h[k] = g[k]
  PROVE  OneActive(h)
  BY Zenon DEF OneActive

(* A row that is ACTIVE after a sweep was not touched by it. *)
LEMMA SweepKeeps ==
  ASSUME NEW h \in HoldTable, NEW d, NEW t, NEW k \in HoldKey,
         Sweep(h, d, t)[k].status = "ACTIVE"
  PROVE  Sweep(h, d, t)[k] = h[k]
  BY DEF Sweep, IsDue, HoldTable, HoldRow, NoHold

(* A reservation the index admits leaves one ACTIVE row per booking. *)
LEMMA ReservedOneActive ==
  ASSUME NEW h \in HoldTable, OneActive(h), NEW k \in HoldKey, NEW b, NEW d, NEW q,
         NEW t, NEW e, CanReserve(h, k, b, d, q, t)
  PROVE  OneActive(Reserved(h, k, b, d, q, t, e))
<1> DEFINE g == Sweep(h, d, t)
           r == Reserved(h, k, b, d, q, t, e)
<1>1. g \in HoldTable
  BY SweepType
<1>2. OneActive(g)
  BY SweepKeeps, FewerActive
<1>3. \A j \in HoldKey : ~(g[j].status = "ACTIVE" /\ g[j].booking = b)
  BY DEF CanReserve, BookingHasActiveRow
<1>4. r[k].booking = b /\ \A j \in HoldKey \ {k} : r[j] = g[j]
  BY <1>1 DEF Reserved, HoldTable
<1> HIDE DEF g, r
<1>5. OneActive(r)
  BY <1>2, <1>3, <1>4, Zenon DEF OneActive
<1> QED
  BY <1>5 DEF r

(* A booking never holds two sets of seats at once, even expired ones.     *)
THEOREM OneActiveHold == InventorySpec => []OneActiveHoldPerBooking
<1>1. InventoryInit => OneActiveHoldPerBooking
  BY DEF InventoryInit, OneActiveHoldPerBooking, NoHold
<1>2. InventoryTypeOK /\ OneActiveHoldPerBooking /\ [InventoryNext]_inventoryVars
        => OneActiveHoldPerBooking'
  <2> SUFFICES ASSUME InventoryTypeOK, OneActiveHoldPerBooking,
                      [InventoryNext]_inventoryVars
               PROVE  OneActiveHoldPerBooking'
    OBVIOUS
  <2> holds \in HoldTable
    BY DEF InventoryTypeOK
  <2>1. OneActive(holds)
    BY DEF OneActiveHoldPerBooking, OneActive
  <2>2. SUFFICES OneActive(holds')
    BY DEF OneActiveHoldPerBooking, OneActive
  <2>3. CASE Tick
    BY <2>1, <2>3 DEF Tick
  <2>4. ASSUME NEW b \in Booking, Consume(b)
        PROVE  OneActive(holds')
    <3>1. \A k \in HoldKey : holds'[k].status = "ACTIVE" => holds'[k] = holds[k]
      BY <2>4 DEF Consume, ConsumeActive, HoldTable, HoldRow, NoHold
    <3> QED
      BY <2>1, <3>1, FewerActive
  <2>5. ASSUME NEW d \in Departure, NEW t \in Captured,
               holds' = Sweep(holds, d, t), now' = now
        PROVE  OneActive(holds')
    BY <2>1, <2>5, SweepKeeps, FewerActive
  <2>6. ASSUME NEW k \in HoldKey, NEW b \in Booking, NEW d \in Departure,
               NEW q \in 1 .. MaxParty, NEW t \in Captured, NEW e \in Nat,
               Reserve(k, b, d, q, t, e)
        PROVE  OneActive(holds')
    BY <2>1, <2>6, ReservedOneActive DEF Reserve
  <2>7. ASSUME NEW k \in HoldKey, NEW b \in Booking, NEW d \in Departure,
               NEW q \in 1 .. MaxParty, NEW t \in Captured, NEW e \in Nat,
               MoveHold(k, b, d, q, t, e)
        PROVE  OneActive(holds')
    <3> DEFINE released == ReleaseOthers(holds, b, d, t)
    <3>1. released \in HoldTable
      BY ReleaseType
    <3>2. \A j \in HoldKey : released[j].status = "ACTIVE" => released[j] = holds[j]
      BY DEF ReleaseOthers, IsActiveFor, HoldTable, HoldRow, NoHold
    <3>3. OneActive(released)
      BY <2>1, <3>2, FewerActive
    <3>4. /\ CanReserve(released, k, b, d, q, t)
          /\ holds' = Reserved(released, k, b, d, q, t, e)
      BY <2>7 DEF MoveHold
    <3> HIDE DEF released
    <3> QED
      BY <3>1, <3>3, <3>4, ReservedOneActive
  <2>8. CASE UNCHANGED inventoryVars
    BY <2>1, <2>8 DEF inventoryVars
  <2> QED
    BY <2>3, <2>4, <2>5, <2>6, <2>7, <2>8, StepCases
<1> QED
  BY <1>1, <1>2, InventoryTypeCorrect, PTL DEF InventorySpec

-----------------------------------------------------------------------------
(* What a sweep as of a captured time may do to a row. *)
LEMMA SweepRow ==
  ASSUME InventoryTypeOK, NEW h \in HoldTable, NEW d \in Departure,
         NEW t \in Captured, NEW k \in HoldKey
  PROVE  \/ Sweep(h, d, t)[k] = h[k]
         \/ /\ h[k].status = "ACTIVE"
            /\ h[k].departure = d
            /\ h[k].expiresAt <= now
            /\ Sweep(h, d, t)[k] = [h[k] EXCEPT !.status = "EXPIRED"]
<1>1. CASE IsDue(h[k], d, t)
  <2>1. h[k] \in HoldRow
    BY <1>1 DEF IsDue, HoldTable, NoHold
  <2>2. h[k].expiresAt <= now
    BY <1>1, <2>1, CapturedIsPast DEF IsDue, HoldRow, InventoryTypeOK
  <2> QED
    BY <1>1, <2>2 DEF Sweep, IsDue
<1>2. CASE ~IsDue(h[k], d, t)
  BY <1>2 DEF Sweep
<1> QED
  BY <1>1, <1>2

(* What an update of the status column alone leaves in the row. *)
LEMMA StatusUpdate ==
  ASSUME NEW row \in HoldRow, NEW s
  PROVE  /\ [row EXCEPT !.status = s].status = s
         /\ [row EXCEPT !.status = [row EXCEPT !.status = s].status]
              = [row EXCEPT !.status = s]
  BY DEF HoldRow

(* A key whose status is ACTIVE names a row. *)
LEMMA ActiveRow ==
  ASSUME NEW h \in HoldTable, NEW k \in HoldKey, h[k].status = "ACTIVE"
  PROVE  h[k] \in HoldRow
  BY DEF HoldTable, NoHold

(* An untouched or duly expired row follows the lifecycle. *)
LEMMA SweptStep ==
  ASSUME InventoryTypeOK, NEW k \in HoldKey,
         \/ holds'[k] = holds[k]
         \/ /\ holds[k].status = "ACTIVE"
            /\ holds[k].expiresAt <= now
            /\ holds'[k] = [holds[k] EXCEPT !.status = "EXPIRED"]
  PROVE  HoldStep(k)
<1>1. CASE holds'[k] = holds[k]
  BY <1>1 DEF HoldStep
<1>2. CASE holds'[k] # holds[k]
  <2>1. /\ holds[k] \in HoldRow
        /\ holds'[k].status = "EXPIRED"
        /\ holds'[k] = [holds[k] EXCEPT !.status = holds'[k].status]
    <3>1. holds[k] \in HoldRow /\ holds'[k] = [holds[k] EXCEPT !.status = "EXPIRED"]
      BY <1>2, ActiveRow DEF InventoryTypeOK
    <3> QED
      BY <3>1, StatusUpdate
  <2> QED
    BY <1>2, <2>1, Zenon DEF HoldStep
<1> QED
  BY <1>1, <1>2

(* Every step takes every hold along its lifecycle. *)
LEMMA HoldStepAlways ==
  ASSUME InventoryTypeOK, [InventoryNext]_inventoryVars, NEW k \in HoldKey
  PROVE  HoldStep(k)
<1> holds \in HoldTable /\ now \in 0 .. MaxTime
  BY DEF InventoryTypeOK
<1>1. CASE Tick
  BY <1>1 DEF Tick, HoldStep
<1>2. ASSUME NEW b \in Booking, Consume(b)
      PROVE  HoldStep(k)
  <2>1. holds'[k] = holds[k] \/ (/\ holds[k].status = "ACTIVE"
                                /\ holds'[k] = [holds[k] EXCEPT !.status = "CONSUMED"])
    BY <1>2 DEF Consume, ConsumeActive
  <2>2. CASE holds'[k] = holds[k]
    BY <2>2 DEF HoldStep
  <2>3. CASE holds'[k] # holds[k]
    <3>1. /\ holds[k].status = "ACTIVE"
          /\ holds[k] \in HoldRow
          /\ holds'[k] = [holds[k] EXCEPT !.status = "CONSUMED"]
      BY <2>1, <2>3, ActiveRow
    <3>2. /\ holds'[k].status = "CONSUMED"
          /\ holds'[k] = [holds[k] EXCEPT !.status = holds'[k].status]
      BY <3>1, StatusUpdate
    <3> QED
      BY <3>1, <3>2, Zenon DEF HoldStep
  <2> QED
    BY <2>2, <2>3
<1>3. ASSUME NEW d \in Departure, NEW t \in Captured, holds' = Sweep(holds, d, t)
      PROVE  HoldStep(k)
  <2>1. \/ holds'[k] = holds[k]
        \/ /\ holds[k].status = "ACTIVE"
           /\ holds[k].expiresAt <= now
           /\ holds'[k] = [holds[k] EXCEPT !.status = "EXPIRED"]
    BY <1>3, SweepRow
  <2> QED
    BY <2>1, SweptStep
<1>4. ASSUME NEW j \in HoldKey, NEW b \in Booking, NEW d \in Departure,
             NEW q \in 1 .. MaxParty, NEW t \in Captured, NEW e \in Nat,
             Reserve(j, b, d, q, t, e)
      PROVE  HoldStep(k)
  <2> DEFINE swept == Sweep(holds, d, t)
  <2>1. holds' = [swept EXCEPT ![j] = [status |-> "ACTIVE", booking |-> b,
                    departure |-> d, quantity |-> q, expiresAt |-> e]]
    BY <1>4 DEF Reserve, Reserved
  <2>2. swept \in HoldTable
    BY SweepType
  <2>3. holds[j] = NoHold
    BY <1>4 DEF Reserve, CanReserve
  <2>4. e > now
    BY <1>4 DEF Reserve
  <2>5. CASE k = j
    BY <2>1, <2>2, <2>3, <2>4, <2>5 DEF HoldStep, HoldTable
  <2>6. CASE k # j
    <3>1. holds'[k] = swept[k]
      BY <2>1, <2>2, <2>6 DEF HoldTable
    <3>2. \/ holds'[k] = holds[k]
          \/ /\ holds[k].status = "ACTIVE"
             /\ holds[k].expiresAt <= now
             /\ holds'[k] = [holds[k] EXCEPT !.status = "EXPIRED"]
      BY <3>1, SweepRow
    <3> QED
      BY <3>2, SweptStep
  <2> QED
    BY <2>5, <2>6
<1>5. ASSUME NEW j \in HoldKey, NEW b \in Booking, NEW d \in Departure,
             NEW q \in 1 .. MaxParty, NEW t \in Captured, NEW e \in Nat,
             MoveHold(j, b, d, q, t, e)
      PROVE  HoldStep(k)
  <2> DEFINE released == ReleaseOthers(holds, b, d, t)
             swept == Sweep(released, d, t)
             row == [status |-> "ACTIVE", booking |-> b, departure |-> d,
                     quantity |-> q, expiresAt |-> e]
  <2>1. holds' = [swept EXCEPT ![j] = row]
    BY <1>5 DEF MoveHold, Reserved
  <2>2. released \in HoldTable /\ swept \in HoldTable
    BY ReleaseType, SweepType
  <2>3. released[j] = NoHold
    BY <1>5 DEF MoveHold, CanReserve
  <2>4. holds[j] = NoHold
    BY <2>3 DEF ReleaseOthers, IsActiveFor, HoldTable, HoldRow, NoHold
  <2>5. e > now
    BY <1>5 DEF MoveHold
  <2>6. holds'[j] = row
    BY <2>1, <2>2 DEF HoldTable
  <2>7. CASE k = j
    BY <2>4, <2>5, <2>6, <2>7 DEF HoldStep
  <2>8. CASE k # j
    <3>1. holds'[k] = swept[k]
      BY <2>1, <2>2, <2>8 DEF HoldTable
    <3>2. \/ released[k] = holds[k]
          \/ /\ holds[k].status = "ACTIVE"
             /\ holds[k].booking = b
             /\ holds[k].departure # d
             /\ released[k] = [holds[k] EXCEPT !.status = "RELEASED"]
      BY DEF ReleaseOthers, IsActiveFor
    <3>3. \/ swept[k] = released[k]
          \/ /\ released[k].status = "ACTIVE"
             /\ released[k].expiresAt <= now
             /\ swept[k] = [released[k] EXCEPT !.status = "EXPIRED"]
      BY <2>2, SweepRow
    <3>4. CASE released[k] = holds[k]
      <4>1. \/ holds'[k] = holds[k]
            \/ /\ holds[k].status = "ACTIVE"
               /\ holds[k].expiresAt <= now
               /\ holds'[k] = [holds[k] EXCEPT !.status = "EXPIRED"]
        BY <3>1, <3>3, <3>4, Zenon
      <4> QED
        BY <4>1, SweptStep
    <3>5. CASE released[k] # holds[k]
      <4>1. /\ holds[k] \in HoldRow
            /\ holds[k].status = "ACTIVE"
            /\ holds[k].booking = b
            /\ holds[k].departure # d
            /\ released[k] = [holds[k] EXCEPT !.status = "RELEASED"]
        BY <3>2, <3>5, ActiveRow
      <4>2. released[k].status = "RELEASED"
        BY <4>1, StatusUpdate
      <4>3. holds'[k] = [holds[k] EXCEPT !.status = "RELEASED"]
        BY <3>1, <3>3, <4>1, <4>2
      <4>4. /\ holds'[j].status = "ACTIVE"
            /\ holds'[j].booking = holds[k].booking
            /\ holds'[j].departure # holds[k].departure
        BY <2>6, <4>1
      <4> QED
        BY <2>4, <4>1, <4>3, <4>4, StatusUpdate DEF HoldStep
    <3> QED
      BY <3>4, <3>5
  <2> QED
    BY <2>7, <2>8
<1>6. CASE UNCHANGED inventoryVars
  BY <1>6 DEF inventoryVars, HoldStep
<1> QED
  BY <1>1, <1>2, <1>3, <1>4, <1>5, <1>6, StepCases

(* Terms are immutable, ACTIVE is left once and for all, nobody's seats go *)
(* before their time, and only the booking's own move releases them.       *)
THEOREM HoldsFollowLifecycle == InventorySpec => HoldLifecycle
<1>1. InventoryTypeOK /\ [InventoryNext]_inventoryVars
        => [\A k \in HoldKey : HoldStep(k)]_inventoryVars
  BY HoldStepAlways
<1> QED
  BY <1>1, InventoryTypeCorrect, PTL DEF InventorySpec, HoldLifecycle
=============================================================================
