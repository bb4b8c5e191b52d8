------------------------ MODULE RevenueTwinDashboard ------------------------
(***************************************************************************)
(* What the API answers about overflow offers: the directive for the voice *)
(* agent, of the latest evaluation of a call, and the aggregates of the    *)
(* dashboard over all evaluations and offers.  Both have a schema in       *)
(* packages/shared; the dashboard's is applied before the answer is sent,  *)
(* so a number out of its bounds is a 500 for the operator.  The wording,  *)
(* the timeline and the routing list are presentation and left out.        *)
(***************************************************************************)
EXTENDS RevenueTwin

ASSUME CallsAssumption == IsFiniteSet(Booking)

(* directive: the accepted offer, else a refused one, else what was        *)
(* offered.  Of the other statuses none is asked: a declined offer and one *)
(* that has expired are presented again.                                   *)
Directive(b) ==
  LET latest   == evals[b][Len(evals[b])]
      offers   == latest.offers
      accepted == {r \in DOMAIN offers : offers[r].status = "ACCEPTED"}
      answer(action, ranks) == [action |-> action, offers |-> ranks]
  IN  IF accepted # {} THEN answer("CONFIRM_SELECTED_OFFER", {First(accepted)})
      ELSE IF \E r \in DOMAIN offers : offers[r].status = "REQUIRES_REEVALUATION"
      THEN answer("EXPLAIN_REEVALUATION", {})
      ELSE IF offers # <<>> THEN answer("PRESENT_OVERFLOW_OFFERS", DOMAIN offers \cap {1, 2})
      ELSE CASE latest.status \in NoSuitableOffer -> answer("ASK_WAITLIST_CONSENT", {})
             [] latest.status = "PRIMARY_AVAILABLE" -> answer("EXPLAIN_NO_ALTERNATIVE", {})
             [] OTHER -> answer("ASK_TIME_FLEXIBILITY", {})

DirectiveSchema(answer) ==
  /\ answer.action \in {"PRESENT_OVERFLOW_OFFERS", "ASK_TIME_FLEXIBILITY",
                        "CONFIRM_SELECTED_OFFER", "EXPLAIN_REEVALUATION",
                        "EXPLAIN_NO_ALTERNATIVE", "ASK_WAITLIST_CONSENT"}
  /\ Cardinality(answer.offers) <= 2
-----------------------------------------------------------------------------
Accepted == {ref \in AllRefs : OfferAt(ref).status = "ACCEPTED"}

(* Mutant: accepted offers are not counted among those presented. *)
PresentedOnlyOpen ==
  {ref \in AllRefs : OfferAt(ref).status \in {"OPEN", "DECLINED", "SUPERSEDED"}}

(* Offers that had to be re-evaluated count as never presented. *)
Presented ==
  {ref \in AllRefs : OfferAt(ref).status \in {"OPEN", "ACCEPTED", "DECLINED", "SUPERSEDED"}}

Secured ==
  {ref \in Accepted : \E i \in IntentKey : /\ intents[i].status = "CONFIRMED"
                                           /\ intents[i].booking = ref.booking}

Evaluations == UNION {{<<b, e>> : e \in DOMAIN evals[b]} : b \in Booking}
Impact(be) == evals[be[1]][be[2]].impact

Passengers(refs) == SumFunction([ref \in refs |-> OfferAt(ref).pax])
Revenue(refs) == SumFunction([ref \in refs |-> OfferAt(ref).final * OfferAt(ref).pax])
DiscountCost(refs) == SumFunction([ref \in refs |-> OfferAt(ref).discount * OfferAt(ref).pax])

(* Whole basis points; a ratio over nothing is zero. *)
BasisPoints(part, whole) == IF whole = 0 THEN 0 ELSE (part * 10000) \div whole

(* Seats of the departures that offers were accepted for: taken when the   *)
(* first of them the query returns was evaluated, and with all accepted.   *)
Routed == {OfferAt(ref).dep : ref \in Accepted}
TakenBefore(d) ==
  Capacity[d] - OfferAt(CHOOSE ref \in Accepted : OfferAt(ref).dep = d).seats
TakenAfter(d) ==
  Min({Capacity[d], TakenBefore(d) + Passengers({ref \in Accepted : OfferAt(ref).dep = d})})

Occupancy ==
  [capacity |-> SumFunction([d \in Routed |-> Capacity[d]]),
   before |-> SumFunction([d \in Routed |-> TakenBefore(d)]),
   after |-> SumFunction([d \in Routed |-> TakenAfter(d)])]

Metrics ==
  LET recoverable == SumFunction([be \in Evaluations |-> Impact(be).passengers])
  IN  [evaluations |-> Cardinality(Evaluations),
       offersGenerated |-> Cardinality(AllRefs),
       offersAccepted |-> Cardinality(Accepted),
       recoverable |-> recoverable,
       acceptedPassengers |-> Passengers(Accepted),
       potentialNet |-> SumFunction([be \in Evaluations |-> Impact(be).net]),
       acceptedRevenue |-> Revenue(Accepted),
       securedRevenue |-> Revenue(Secured),
       acceptanceRate |-> BasisPoints(Cardinality(Accepted), Cardinality(Presented)),
       discountEfficiency |-> BasisPoints(Revenue(Secured), DiscountCost(Accepted)),
       fillRateImpact |-> BasisPoints(Occupancy.after - Occupancy.before, Occupancy.capacity),
       lostDemandReduction |-> Min({10000, BasisPoints(Passengers(Accepted), recoverable)})]

(* RevenueTwinDashboardSchema *)
DashboardSchema(metrics, seats) ==
  /\ \A f \in DOMAIN metrics \ {"fillRateImpact"} : metrics[f] \in Nat
  /\ metrics.acceptanceRate <= 10000
  /\ metrics.lostDemandReduction <= 10000
  /\ seats.before \in 0 .. seats.capacity
  /\ seats.after \in 0 .. seats.capacity
=============================================================================
