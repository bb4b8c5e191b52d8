---------------------------- MODULE RevenueTwin ----------------------------
(***************************************************************************)
(* Overflow offers of apps/api/src/modules/revenue-twin: evaluations,      *)
(* their offers and the waitlist, over the bookings of BookingFlow and the *)
(* seats of Inventory.                                                     *)
(*                                                                         *)
(* evaluate reads bookings and seats outside any transaction and stores    *)
(* what it has computed in a later one; decline and joinWaitlist run at    *)
(* READ COMMITTED; accept is SERIALIZABLE and writes every row it decides  *)
(* by, so it is one step.  The table desk holds what a request in flight   *)
(* has read: a worker w is one request.                                    *)
(***************************************************************************)
EXTENDS BookingFlow, RevenueTwinPolicy

CONSTANTS
  Catalogue,    \* per departure: at, order, fare, relation, pickups
  Policy,       \* POLICY of revenue-twin.handlers.ts
  Worker,       \* requests in flight
  MaxEvals      \* bound: evaluations of a call

(* Ids are told apart by their order, amounts are whole and not negative,  *)
(* NULL is no key.                                                         *)
ASSUME FleetAssumption ==
  /\ IsFiniteSet(Departure)
  /\ \A d \in Departure :
       Catalogue[d].at \in Int /\ Catalogue[d].order \in Int /\ Catalogue[d].fare \in Nat
  /\ \A c, d \in Departure : Catalogue[c].order = Catalogue[d].order => c = d
ASSUME PolicyAssumption ==
  {Policy.maxDiscount, Policy.maxBasisPoints, Policy.minFare, Policy.ttl} \subseteq Nat
ASSUME WorkerAssumption ==
  IsFiniteSet(Worker) /\ None \notin Worker \cup HoldKey /\ MaxEvals \in Nat
ASSUME PartyAssumption == MaxParty >= 1

VARIABLES
  evals,        \* evaluations of a booking's call, oldest first, with offers
  desk          \* what each request in flight has read and does next

twinVars == <<evals, desk>>

OfferStatus == {"OPEN", "ACCEPTED", "DECLINED", "SUPERSEDED", "REQUIRES_REEVALUATION"}

OfferRow ==
  [dep : Departure, pax : 1 .. MaxParty, seats : Nat, fare : Nat, discount : Nat,
   final : Nat, expiresAt : Nat, status : OfferStatus, key : HoldKey \cup {None}]

Ref(b, e, r) == [booking |-> b, eval |-> e, rank |-> r]
OfferAt(ref) == evals[ref.booking][ref.eval].offers[ref.rank]
Refs(b) ==
  {Ref(b, e, r) : e \in DOMAIN evals[b], r \in 1 .. 3}
    \cap {ref \in [booking : {b}, eval : DOMAIN evals[b], rank : 1 .. 3] :
            ref.rank \in DOMAIN evals[b][ref.eval].offers}
AllRefs == UNION {Refs(b) : b \in Booking}
-----------------------------------------------------------------------------
(* snapshotDeparture, as of a captured time t. *)
Available(d, t) ==
  IF Occupied(holds, d, t) > Capacity[d] THEN 0 ELSE Capacity[d] - Occupied(holds, d, t)

Snapshot(d, t) ==
  [dep |-> d, order |-> Catalogue[d].order, at |-> Catalogue[d].at,
   capacity |-> Capacity[d], available |-> Available(d, t),
   fare |-> Catalogue[d].fare, relation |-> Catalogue[d].relation,
   pickups |-> Catalogue[d].pickups]

(* The demand is fixed by the server: half an hour later, never earlier.   *)
DemandOf(row) ==
  [dep |-> row.dep, pickup |-> AnyPickup, pax |-> row.pax,
   before |-> 0, after |-> 30, constraint |-> "PREFERRED"]

(* The row that evaluate will store.  SCHEDULED departures of the route    *)
(* are candidates also when they have left.                                *)
Evaluation(row, t) ==
  LET found == EvaluateRevenueTwin(Snapshot(row.dep, t), {Snapshot(d, t) : d \in Departure},
                                   DemandOf(row), Policy)
  IN  [status |-> found.status, dep |-> row.dep, impact |-> found.impact, waiting |-> 0,
       offers |-> [r \in DOMAIN found.offers |->
         [dep |-> found.offers[r].dep, pax |-> found.offers[r].pax,
          seats |-> found.offers[r].seats, fare |-> found.offers[r].fare,
          discount |-> found.offers[r].discount, final |-> found.offers[r].final,
          expiresAt |-> t + Policy.ttl, status |-> "OPEN", key |-> None]]]

(* Where a request goes after its evaluation: the pipeline of a turn on to *)
(* the spoken selection, a REST request to its answer.                     *)
Then(w) == IF "says" \in DOMAIN desk[w] THEN [desk[w] EXCEPT !.pc = "select"] ELSE Idle

(* evaluate up to its transaction.  Without departure and party it answers *)
(* 422, which the pipeline of a turn swallows.                             *)
EvaluateRead(w, b, t) ==
  LET row == booking[b]
  IN  /\ Len(evals[b]) < MaxEvals
      /\ IF row.dep = None \/ row.pax = 0
         THEN desk' = [desk EXCEPT ![w] = Then(w)]
         ELSE desk' = [desk EXCEPT ![w] = [pc |-> "evaluated", booking |-> b,
                                           row |-> Evaluation(row, t), next |-> Then(w)]]
      /\ UNCHANGED evals

(* The transaction of evaluate.  Earlier evaluations keep their offers. *)
EvaluateWrite(w) ==
  /\ desk[w].pc = "evaluated"
  /\ evals' = [evals EXCEPT ![desk[w].booking] = Append(@, desk[w].row)]
  /\ desk' = [desk EXCEPT ![w] = desk[w].next]
-----------------------------------------------------------------------------
SetOffer(table, ref, offer) ==
  [table EXCEPT ![ref.booking][ref.eval].offers[ref.rank] = offer]

(* decision_idempotency_key is unique. *)
KeyUsed(k) == \E ref \in AllRefs : OfferAt(ref).key = k

(* Mutant: the other offers of the evaluation stay open. *)
AcceptedAlone(ref, k) ==
  SetOffer(evals, ref, [OfferAt(ref) EXCEPT !.status = "ACCEPTED", !.key = k])

(* The offer taken, the open ones beside it superseded. *)
AcceptedRow(ref, k) ==
  [evals EXCEPT ![ref.booking][ref.eval].offers =
     [r \in DOMAIN @ |->
        IF r = ref.rank THEN [@[r] EXCEPT !.status = "ACCEPTED", !.key = k]
        ELSE IF @[r].status = "OPEN" THEN [@[r] EXCEPT !.status = "SUPERSEDED"]
        ELSE @[r]]]

(* The check of accept.  Version and policy are compared with what the     *)
(* evaluation stored, but nothing in src/ writes a departure's version     *)
(* (reserveInventory increments the booking's) and the policy is a         *)
(* constant of the process.                                                *)
MayAccept(offer, t) ==
  /\ ValidateAcceptance(offer.expiresAt, 1, Policy.version, t, 1, Policy.version) = "ALLOWED"
  /\ offer.status = "OPEN"

(* Mutant: the seats are moved before the offer's status is asked. *)
AcceptAnyStatus(ref, k, t) ==
  LET offer == OfferAt(ref)
  IN  /\ offer.key = None
      /\ ~KeyUsed(k)
      /\ offer.expiresAt > t
      /\ MoveHold(k, ref.booking, offer.dep, offer.pax, t, t + HoldTTL)
      /\ evals' = AcceptedRow(ref, k)
      /\ booking' = [booking EXCEPT ![ref.booking].dep = offer.dep]

(* Mutant: no seats left is swallowed, as a turn's reservation swallows it. *)
AcceptWithoutSeats(ref, k, t) ==
  LET offer == OfferAt(ref)
  IN  /\ offer.key = None
      /\ ~KeyUsed(k)
      /\ MayAccept(offer, t)
      /\ IF Fits(Sweep(holds, offer.dep, t), offer.dep, offer.pax, t)
         THEN MoveHold(k, ref.booking, offer.dep, offer.pax, t, t + HoldTTL)
         ELSE UNCHANGED <<holds, now>>
      /\ evals' = AcceptedRow(ref, k)
      /\ booking' = [booking EXCEPT ![ref.booking].dep = offer.dep]

(* accept, decided now.  A refusal is written down unless the offer has    *)
(* been accepted or refused under a key before; no seats left, or a second *)
(* ACTIVE hold, rolls everything back.                                     *)
Accept(ref, k, t) ==
  LET offer == OfferAt(ref)
  IN  /\ offer.key = None
      /\ ~KeyUsed(k)
      /\ IF MayAccept(offer, t)
         THEN /\ MoveHold(k, ref.booking, offer.dep, offer.pax, t, t + HoldTTL)
              /\ evals' = AcceptedRow(ref, k)
              /\ booking' = [booking EXCEPT ![ref.booking].dep = offer.dep]
         ELSE /\ evals' = SetOffer(evals, ref, [offer EXCEPT !.status = "REQUIRES_REEVALUATION",
                                                             !.key = k])
              /\ UNCHANGED <<booking, holds, now>>

(* POST .../accept *)
AcceptOffer(ref, k, t) ==
  /\ Accept(ref, k, t)
  /\ UNCHANGED desk

(* decline reads the status in one statement and writes by id in another. *)
DeclineRead(w, ref) ==
  /\ desk[w] = Idle
  /\ OfferAt(ref).status = "OPEN"
  /\ desk' = [desk EXCEPT ![w] = [pc |-> "declining", ref |-> ref]]
  /\ UNCHANGED evals

DeclineWrite(w) ==
  /\ desk[w].pc = "declining"
  /\ evals' = SetOffer(evals, desk[w].ref, [OfferAt(desk[w].ref) EXCEPT !.status = "DECLINED"])
  /\ desk' = [desk EXCEPT ![w] = Idle]

(* Mutant: a missing count is stored as NULL. *)
StoredPassengerCountOrNull(context) ==
  IF "passengerCount" \in DOMAIN context THEN context.passengerCount ELSE None

(* What is stored as the demand context is the evaluation, which has no    *)
(* passengerCount.                                                         *)
StoredPassengerCount(context) ==
  IF "passengerCount" \in DOMAIN context THEN context.passengerCount ELSE 1

(* WAITLIST_RECOMMENDED would do as well, but no evaluation ends so. *)
NoSuitableOffer == {"GROUP_CAPACITY_UNAVAILABLE", "NO_ELIGIBLE_ALTERNATIVE"}

(* joinWaitlist; a second entry for an evaluation is the first one. *)
JoinWaitlist(b, e) ==
  /\ evals[b][e].status \in NoSuitableOffer
  /\ evals[b][e].waiting = 0
  /\ evals' = [evals EXCEPT ![b][e].waiting = StoredPassengerCount(evals[b][e])]
-----------------------------------------------------------------------------
(***************************************************************************)
(* applyRevenueTwinVoiceSelection, of a customer's turn that says          *)
(* [kind, at]: the phrase it matches and the clock time it names, if any.  *)
(***************************************************************************)
OpenRanks(b, t) ==
  IF evals[b] = <<>> THEN {}
  ELSE LET latest == evals[b][Len(evals[b])]
       IN  {r \in DOMAIN latest.offers :
              latest.offers[r].status = "OPEN" /\ latest.offers[r].expiresAt > t}

First(ranks) == CHOOSE r \in ranks : \A q \in ranks : r <= q

(* The rank chosen, or 0: only the first, the one of a named time, or the  *)
(* only one.  The time of day is compared, not the date.                   *)
SelectedRank(b, says, t) ==
  LET open  == OpenRanks(b, t)
      named == {r \in open : Catalogue[evals[b][Len(evals[b])].offers[r].dep].at = says.at}
  IN  IF says.kind \in {"waitlist", "any"} \/ open = {} THEN 0
      ELSE IF says.kind = "first" THEN First(open)
      ELSE IF named # {} THEN First(named)
      ELSE IF says.kind = "yes" /\ Cardinality(open) = 1 THEN First(open)
      ELSE 0

(* The reading; the decision follows in a transaction of its own. *)
SelectRead(w, t) ==
  LET b    == desk[w].booking
      rank == SelectedRank(b, desk[w].says, t)
      last == Len(evals[b])
  IN  /\ desk[w].pc = "select"
      /\ desk' = [desk EXCEPT ![w] =
           IF rank # 0 THEN [pc |-> "accepting", ref |-> Ref(b, last, rank), says |-> desk[w].says]
           ELSE IF desk[w].says.kind = "waitlist" /\ last > 0
           THEN [pc |-> "waiting", booking |-> b, eval |-> last]
           ELSE Idle]
      /\ UNCHANGED evals

SelectAccept(w, k, t) ==
  /\ desk[w].pc = "accepting"
  /\ Accept(desk[w].ref, k, t)
  /\ desk' = [desk EXCEPT ![w] = Idle]

SelectWaitlist(w) ==
  /\ desk[w].pc = "waiting"
  /\ JoinWaitlist(desk[w].booking, desk[w].eval)
  /\ desk' = [desk EXCEPT ![w] = Idle]
=============================================================================
