------------------------- MODULE RevenueTwinPolicy -------------------------
(***************************************************************************)
(* The Scenario-Robust Revenue Rebalancing Optimizer of                    *)
(* packages/domain/src/revenue-twin: which other departures a group may be *)
(* offered, at what fare, and whether an offer may still be taken.  Every  *)
(* operator is a function of its arguments; the tables are RevenueTwin's.  *)
(*                                                                         *)
(* A snapshot of a departure is a record [dep, order, at, capacity,        *)
(* available, fare, relation, pickups], a demand [dep, pickup, pax,        *)
(* before, after, constraint], a policy [enabled, maxDiscount,             *)
(* maxBasisPoints, minFare, maxShift, proactive, scarce, surplus, ttl,     *)
(* relations, version].  Times are minutes, fares whole VND, order the     *)
(* place of an id among the ids; 250 VND a minute is the code's constant.  *)
(***************************************************************************)
EXTENDS Integers, SequencesExt

CONSTANT AnyPickup    \* a demand that names no pickup point

Relation == {"OWN_FLEET", "VERIFIED_PARTNER"}

EvaluationStatus ==
  {"PRIMARY_AVAILABLE", "POLICY_DISABLED", "NO_ELIGIBLE_ALTERNATIVE",
   "GROUP_CAPACITY_UNAVAILABLE", "PROACTIVE_OFFERS_AVAILABLE",
   "OVERFLOW_OFFERS_AVAILABLE"}

Abs(x) == IF x < 0 THEN -x ELSE x

WithinFlexibility(shift, demand) ==
  IF demand.constraint = "FIXED" THEN shift = 0
  ELSE -demand.before <= shift /\ shift <= demand.after
-----------------------------------------------------------------------------
(***************************************************************************)
(* calculateRevenueTwinIncentive.                                          *)
(***************************************************************************)
PolicyCap(fare, policy) ==
  Min({policy.maxDiscount, (fare * policy.maxBasisPoints) \div 10000})

(* At most half full: the code's 5 000 basis points of seats taken. *)
HalfEmpty(d) == ((d.capacity - d.available) * 10000) \div d.capacity <= 5000

ProposedDiscount(d, policy, shift) ==
  LET cap == PolicyCap(d.fare, policy)
  IN  Min({cap, Abs(shift) * 250})
        + (IF HalfEmpty(d) THEN cap \div 2 ELSE 0)
        + (IF d.relation = "VERIFIED_PARTNER" THEN 0 ELSE cap \div 10)

(* Mutant: the three tiers add up past the policy's cap. *)
DiscountUncapped(d, policy, shift) ==
  Min({ProposedDiscount(d, policy, shift), Max({0, d.fare - policy.minFare})})

Discount(d, policy, shift) ==
  Min({ProposedDiscount(d, policy, shift),
       PolicyCap(d.fare, policy),
       Max({0, d.fare - policy.minFare})})

FinalFare(d, policy, shift) == d.fare - Discount(d, policy, shift)

HasIncentive(d, policy, shift) ==
  /\ policy.enabled
  /\ d.relation \in policy.relations
  /\ FinalFare(d, policy, shift) >= Max({0, policy.minFare})
-----------------------------------------------------------------------------
(***************************************************************************)
(* evaluateRevenueTwin.                                                    *)
(***************************************************************************)
CanServe(primary, demand) == primary.available >= demand.pax

(* The primary still has seats, but so few that flexible customers are     *)
(* asked to move.                                                          *)
Proactive(primary, demand, policy) ==
  /\ CanServe(primary, demand)
  /\ policy.proactive
  /\ primary.available <= policy.scarce
  /\ demand.constraint # "FIXED"

Routable(alternatives, demand, policy) ==
  {d \in alternatives : d.dep # demand.dep /\ d.relation \in policy.relations}

GroupFits(d, demand) == d.available >= demand.pax

(* Mutant: a proactive move may leave the alternative scarce itself. *)
EligibleWithoutSurplus(d, primary, demand, policy) ==
  LET shift == d.at - primary.at
  IN  /\ GroupFits(d, demand)
      /\ Abs(shift) <= policy.maxShift
      /\ WithinFlexibility(shift, demand)
      /\ demand.pickup # AnyPickup => demand.pickup \in d.pickups
      /\ HasIncentive(d, policy, shift)

Eligible(d, primary, demand, policy) ==
  LET shift == d.at - primary.at
  IN  /\ GroupFits(d, demand)
      /\ Proactive(primary, demand, policy)
           => d.available - demand.pax >= policy.surplus
      /\ Abs(shift) <= policy.maxShift
      /\ WithinFlexibility(shift, demand)
      /\ demand.pickup # AnyPickup => demand.pickup \in d.pickups
      /\ HasIncentive(d, policy, shift)

(* The sort: own fleet, least shift, least discount, most seats left, most *)
(* revenue, earliest, id.                                                  *)
SortKey(d, primary, policy) ==
  LET shift == d.at - primary.at
  IN  << IF d.relation = "VERIFIED_PARTNER" THEN 1 ELSE 0,
         Abs(shift), Discount(d, policy, shift), -d.available,
         -FinalFare(d, policy, shift), d.at, d.order >>

Precedes(s, t) ==
  \E i \in DOMAIN s : s[i] < t[i] /\ \A j \in 1 .. i - 1 : s[j] = t[j]

Rank(d, candidates, primary, policy) ==
  1 + Cardinality({c \in candidates :
                     Precedes(SortKey(c, primary, policy), SortKey(d, primary, policy))})

OfferOf(d, primary, demand, policy) ==
  LET shift == d.at - primary.at
  IN  [dep |-> d.dep, shift |-> shift, pax |-> demand.pax, seats |-> d.available,
       fare |-> d.fare, discount |-> Discount(d, policy, shift),
       final |-> FinalFare(d, policy, shift)]

NoImpact == [passengers |-> 0, gross |-> 0, discount |-> 0, net |-> 0]

ImpactOf(offers) ==
  IF offers = <<>> THEN NoImpact
  ELSE LET best == offers[1]
       IN  [passengers |-> best.pax, gross |-> best.fare * best.pax,
            discount |-> best.discount * best.pax, net |-> best.final * best.pax]

(* The reasons, in the order of the code's returns. *)
StatusOf(offers, primary, alternatives, demand, policy) ==
  IF CanServe(primary, demand) /\ ~Proactive(primary, demand, policy) THEN "PRIMARY_AVAILABLE"
  ELSE IF ~policy.enabled THEN "POLICY_DISABLED"
  ELSE IF Proactive(primary, demand, policy)
  THEN IF offers = <<>> THEN "PRIMARY_AVAILABLE" ELSE "PROACTIVE_OFFERS_AVAILABLE"
  ELSE IF offers # <<>> THEN "OVERFLOW_OFFERS_AVAILABLE"
  ELSE IF \E d \in Routable(alternatives, demand, policy) : GroupFits(d, demand)
  THEN "NO_ELIGIBLE_ALTERNATIVE"
  ELSE "GROUP_CAPACITY_UNAVAILABLE"

OffersFor(primary, alternatives, demand, policy) ==
  LET candidates == {d \in Routable(alternatives, demand, policy) :
                       Eligible(d, primary, demand, policy)}
  IN  IF \/ CanServe(primary, demand) /\ ~Proactive(primary, demand, policy)
         \/ ~policy.enabled
      THEN <<>>
      ELSE [r \in 1 .. Min({3, Cardinality(candidates)}) |->
              OfferOf(CHOOSE d \in candidates : Rank(d, candidates, primary, policy) = r,
                      primary, demand, policy)]

EvaluateRevenueTwin(primary, alternatives, demand, policy) ==
  LET offers == OffersFor(primary, alternatives, demand, policy)
  IN  [status |-> StatusOf(offers, primary, alternatives, demand, policy),
       offers |-> offers,
       impact |-> ImpactOf(offers)]

(* validateRevenueTwinOfferAcceptance: the first reason that applies. *)
ValidateAcceptance(expiresAt, versionAtEval, evaluatedPolicy, t, version, policyVersion) ==
  IF expiresAt <= t THEN "OFFER_EXPIRED"
  ELSE IF versionAtEval # version THEN "STALE_INVENTORY_SNAPSHOT"
  ELSE IF evaluatedPolicy # policyVersion THEN "POLICY_CHANGED"
  ELSE "ALLOWED"
-----------------------------------------------------------------------------
(***************************************************************************)
(* The simulations: first come, first served over a sequence of requests   *)
(* [id, pax, at]; no group is split and no earlier decision revised.       *)
(***************************************************************************)
AllocatePriorityFcfs(seats, requests) ==
  FoldLeft(LAMBDA acc, q :
             IF q.pax <= acc.remaining
             THEN [acc EXCEPT !.primary = Append(@, q), !.remaining = @ - q.pax]
             ELSE [acc EXCEPT !.overflow = Append(@, q)],
           [primary |-> <<>>, overflow |-> <<>>, remaining |-> Max({0, seats})],
           requests)

(* By the time of the request; requests of one instant as they came. *)
InOrderOfRequest(requests) ==
  [i \in DOMAIN requests |->
     requests[CHOOSE j \in DOMAIN requests :
       i = 1 + Cardinality({n \in DOMAIN requests :
                              Precedes(<<requests[n].at, n>>, <<requests[j].at, j>>)})]]

FirstWithSeats(seats, pax) ==
  LET enough == {i \in DOMAIN seats : seats[i] >= pax}
  IN  IF enough = {} THEN 0 ELSE Min(enough)

(* Mutant: the seats of a refused offer are taken all the same. *)
SimulatedRequestTakesSeats(acc, q, accepts) ==
  LET destination == FirstWithSeats(acc.alternatives, q.pax)
  IN  IF q.pax <= acc.primary
      THEN [acc EXCEPT !.primary = @ - q.pax, !.index = @ + 1]
      ELSE IF destination = 0
      THEN [acc EXCEPT !.overflow = @ + 1, !.index = @ + 1]
      ELSE [acc EXCEPT !.overflow = @ + 1, !.index = @ + 1,
                       !.accepted = IF accepts[acc.index] THEN @ + q.pax ELSE @,
                       !.alternatives[destination] = @ - q.pax]

(* One request of the simulation.  accepts stands for the seeded draw. *)
SimulatedRequest(acc, q, accepts) ==
  LET destination == FirstWithSeats(acc.alternatives, q.pax)
  IN  IF q.pax <= acc.primary
      THEN [acc EXCEPT !.primary = @ - q.pax, !.index = @ + 1]
      ELSE IF destination = 0 \/ ~accepts[acc.index]
      THEN [acc EXCEPT !.overflow = @ + 1, !.index = @ + 1]
      ELSE [acc EXCEPT !.overflow = @ + 1, !.index = @ + 1,
                       !.accepted = @ + q.pax,
                       !.alternatives[destination] = @ - q.pax]

SimulationStart(primary, alternatives) ==
  [primary |-> Max({0, primary}), accepted |-> 0, overflow |-> 0, index |-> 1,
   alternatives |-> [i \in DOMAIN alternatives |-> Max({0, alternatives[i]})]]

RunRevenueTwinSimulation(primary, alternatives, requests, accepts) ==
  LET ordered == InOrderOfRequest(requests)
      after[n \in 0 .. Len(requests)] ==
        IF n = 0 THEN SimulationStart(primary, alternatives)
        ELSE SimulatedRequest(after[n - 1], ordered[n], accepts)
  IN  after[Len(requests)]
=============================================================================
