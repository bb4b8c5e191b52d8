----------------------------- MODULE Inventory -----------------------------
(***************************************************************************)
(* Seat holds of packages/db/src/inventory-repository.ts.                  *)
(*                                                                         *)
(* reserveInventory runs in a SERIALIZABLE transaction that first locks    *)
(* the departure row (SELECT ... FOR UPDATE), so two reservations on one   *)
(* departure never overlap and a reservation is one step here.  What is    *)
(* not serialised is the clock: a request captures `now` once, on arrival, *)
(* and may use it much later.  Every action therefore takes the captured   *)
(* time t, up to MaxLag behind the wall clock.                             *)
(***************************************************************************)
EXTENDS Naturals, FiniteSets

CONSTANTS
  HoldKey,      \* idempotency keys of reservations; a key names its row
  Booking,      \* booking ids
  Departure,    \* trip departure ids
  Capacity,     \* seats of a departure
  MaxParty,     \* bound: largest passenger count
  HoldTTL,      \* lifetime of a hold (15 minutes in the code)
  MaxLag,       \* bound: how far a captured `now` lags the wall clock
  MaxTime       \* bound: end of modelled time

ASSUME HoldKeyAssumption == IsFiniteSet(HoldKey)
ASSUME CapacityAssumption == Capacity \in [Departure -> Nat]
ASSUME BoundsAssumption ==
  MaxParty \in Nat /\ HoldTTL \in Nat /\ MaxLag \in Nat /\ MaxTime \in Nat

VARIABLES
  holds,        \* table inventory_holds, by idempotency key
  now           \* wall clock

inventoryVars == <<holds, now>>

NoHold == [status |-> "NONE"]

HoldRow ==
  [status    : {"ACTIVE", "EXPIRED", "RELEASED", "CONSUMED"},
   booking   : Booking,
   departure : Departure,
   quantity  : 1 .. MaxParty,
   expiresAt : Nat]

HoldTable == [HoldKey -> HoldRow \cup {NoHold}]

(* The times a request being served now may have captured. *)
Captured == {t \in 0 .. now : now - t <= MaxLag}
-----------------------------------------------------------------------------
(***************************************************************************)
(* Queries and statements over a hold table h, as of a captured time t.    *)
(***************************************************************************)
IsActiveFor(row, b, t) ==
  row.status = "ACTIVE" /\ row.booking = b /\ row.expiresAt > t

(* Mutant: the sweep also expires seats that are paid for. *)
IsDueOnceConsumed(row, d, t) ==
  row.status \in {"ACTIVE", "CONSUMED"} /\ row.departure = d /\ row.expiresAt <= t

IsDue(row, d, t) ==
  row.status = "ACTIVE" /\ row.departure = d /\ row.expiresAt <= t

Sweep(h, d, t) ==
  [k \in HoldKey |->
     IF IsDue(h[k], d, t) THEN [h[k] EXCEPT !.status = "EXPIRED"] ELSE h[k]]

(* Mutant: the count forgets the seats that are paid for. *)
OccupyingActiveOnly(h, d, t) ==
  {k \in HoldKey :
     h[k].status = "ACTIVE" /\ h[k].departure = d /\ h[k].expiresAt > t}

Occupying(h, d, t) ==
  {k \in HoldKey :
     /\ h[k].status \in {"CONSUMED", "ACTIVE"}
     /\ h[k].departure = d
     /\ h[k].status = "ACTIVE" => h[k].expiresAt > t}

(* SUM(quantity) over the rows keys, counted seat by seat. *)
Seats(h, keys) ==
  {s \in keys \X (1 .. MaxParty) : s[2] <= h[s[1]].quantity}

Occupied(h, d, t) == Cardinality(Seats(h, Occupying(h, d, t)))

Fits(h, d, q, t) == Occupied(h, d, t) + q <= Capacity[d]

(* Mutant: the unique index was never created. *)
BookingHasActiveRowUnindexed(h, b) == FALSE

(* Migration line 713: one ACTIVE row per booking, expired or not. *)
BookingHasActiveRow(h, b) ==
  \E k \in HoldKey : h[k].status = "ACTIVE" /\ h[k].booking = b

CanReserve(h, k, b, d, q, t) ==
  /\ h[k] = NoHold
  /\ Fits(Sweep(h, d, t), d, q, t)
  /\ ~BookingHasActiveRow(Sweep(h, d, t), b)

Reserved(h, k, b, d, q, t, e) ==
  [Sweep(h, d, t) EXCEPT
     ![k] = [status |-> "ACTIVE", booking |-> b, departure |-> d,
             quantity |-> q, expiresAt |-> e]]

(* Mutant: a released row gets the status a booking would get. *)
ReleaseOthersAsCancelled(h, b, d, t) ==
  [k \in HoldKey |->
     IF IsActiveFor(h[k], b, t) /\ h[k].departure # d
       THEN [h[k] EXCEPT !.status = "CANCELLED"]
       ELSE h[k]]

ReleaseOthers(h, b, d, t) ==
  [k \in HoldKey |->
     IF IsActiveFor(h[k], b, t) /\ h[k].departure # d
       THEN [h[k] EXCEPT !.status = "RELEASED"]
       ELSE h[k]]

(* Mutant: the update is not restricted to the booking that paid. *)
ConsumeActiveOfAll(h, b) ==
  [k \in HoldKey |->
     IF h[k].status = "ACTIVE" THEN [h[k] EXCEPT !.status = "CONSUMED"] ELSE h[k]]

ConsumeActive(h, b) ==
  [k \in HoldKey |->
     IF h[k].status = "ACTIVE" /\ h[k].booking = b
       THEN [h[k] EXCEPT !.status = "CONSUMED"]
       ELSE h[k]]
-----------------------------------------------------------------------------
InventoryInit ==
  /\ holds = [k \in HoldKey |-> NoHold]
  /\ now = 0

(* reserveInventory.  A key that is already there is a replay: the row is  *)
(* returned, or refused when the request differs, and nothing is written.  *)
(* The table's CHECK refuses a row that would expire before its creation.  *)
Reserve(k, b, d, q, t, e) ==
  /\ CanReserve(holds, k, b, d, q, t)
  /\ e > now
  /\ holds' = Reserved(holds, k, b, d, q, t, e)
  /\ UNCHANGED now

(* InventoryUnavailableError that the caller swallows: its transaction     *)
(* commits, and with it the expiry sweep that came before the count.       *)
ReserveRefused(d, q, t) ==
  /\ ~Fits(Sweep(holds, d, t), d, q, t)
  /\ holds' = Sweep(holds, d, t)
  /\ UNCHANGED now

ExpireDue(d, t) ==
  /\ holds' = Sweep(holds, d, t)
  /\ UNCHANGED now

(* Accepting an alternative departure: the booking's live holds elsewhere  *)
(* are released and the new seats reserved, in one transaction.            *)
MoveHold(k, b, d, q, t, e) ==
  LET released == ReleaseOthers(holds, b, d, t)
  IN  /\ CanReserve(released, k, b, d, q, t)
      /\ e > now
      /\ holds' = Reserved(released, k, b, d, q, t, e)
      /\ UNCHANGED now

(* Payment confirmed: the booking's ACTIVE rows, whatever their expiry. *)
Consume(b) ==
  /\ holds' = ConsumeActive(holds, b)
  /\ UNCHANGED now

Tick ==
  /\ now < MaxTime
  /\ now' = now + 1
  /\ UNCHANGED holds

InventoryNext ==
  \/ Tick
  \/ \E b \in Booking : Consume(b)
  \/ \E d \in Departure, t \in Captured : ExpireDue(d, t)
  \/ \E d \in Departure, t \in Captured, q \in 1 .. MaxParty : ReserveRefused(d, q, t)
  \/ \E k \in HoldKey, b \in Booking, d \in Departure, q \in 1 .. MaxParty,
        t \in Captured : \E e \in t .. t + HoldTTL :
       \/ Reserve(k, b, d, q, t, e)
       \/ MoveHold(k, b, d, q, t, e)

InventorySpec == InventoryInit /\ [][InventoryNext]_inventoryVars
-----------------------------------------------------------------------------
(* Type invariant of the hold table and the clock. *)
InventoryTypeOK ==
  /\ holds \in HoldTable
  /\ now \in 0 .. MaxTime

(* DATA-MODEL section 6, rule 9: active and consumed seats never exceed a  *)
(* departure's capacity.  Active counts whether expired or not, because a  *)
(* hold that expired unnoticed can still be consumed by a late payment.    *)
SeatsHeld(h, d) ==
  Seats(h, {k \in HoldKey : /\ h[k].status \in {"ACTIVE", "CONSUMED"}
                            /\ h[k].departure = d})

NoOverbooking ==
  \A d \in Departure : Cardinality(SeatsHeld(holds, d)) <= Capacity[d]

(* inventory_holds_one_active_per_booking: a booking never holds seats     *)
(* twice, across refreshes, moves and lagging clocks.                      *)
OneActiveHoldPerBooking ==
  \A j, k \in HoldKey :
    (/\ holds[j].status = "ACTIVE"
     /\ holds[k].status = "ACTIVE"
     /\ holds[j].booking = holds[k].booking) => j = k

(* What one step may do to one hold: it is born alive; its terms never     *)
(* change; it leaves ACTIVE for good; it is swept only once its time is    *)
(* up; and only the booking's own move to other seats takes a live hold    *)
(* away.                                                                   *)
HoldStep(k) ==
  \/ holds'[k] = holds[k]
  \/ holds[k] = NoHold /\ holds'[k].status = "ACTIVE" /\ holds'[k].expiresAt > now
  \/ /\ holds[k].status = "ACTIVE"
     /\ holds'[k] = [holds[k] EXCEPT !.status = holds'[k].status]
     /\ \/ holds'[k].status = "CONSUMED"
        \/ holds'[k].status = "EXPIRED" /\ holds[k].expiresAt <= now
        \/ /\ holds'[k].status = "RELEASED"
           /\ \E j \in HoldKey : /\ holds[j] = NoHold
                                 /\ holds'[j].status = "ACTIVE"
                                 /\ holds'[j].booking = holds[k].booking
                                 /\ holds'[j].departure # holds[k].departure

HoldLifecycle == [][\A k \in HoldKey : HoldStep(k)]_inventoryVars
=============================================================================
