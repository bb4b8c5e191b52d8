----------------------------- MODULE RiskPolicy -----------------------------
(***************************************************************************)
(* The scores of a booking and the payment gate they lead to               *)
(* (packages/domain/src/risk, policies, payment-gate, booking, and         *)
(* deriveRisk of get-booking-risk-context.ts).  A booking is read as a     *)
(* record: texts are present or not, times and amounts are numbers, and    *)
(* Unset is the NULL that is less than each of them.                       *)
(***************************************************************************)
EXTENDS Integers

Unset == -1
Moment == Nat \cup {Unset}

BookingForRisk ==
  [routeFrom : BOOLEAN, routeTo : BOOLEAN, departureAt : Moment, passengerCount : Moment,
   pickupPoint : BOOLEAN, contact : BOOLEAN, totalAmount : Moment, depositAmount : Moment,
   refundPolicy : BOOLEAN, holdExpiresAt : Moment]

(* What the caller says of the agreement. *)
Consent ==
  [refundPolicyConfirmed : BOOLEAN, explicitConfirmation : BOOLEAN, agreementLocked : BOOLEAN]

(* recomputeBookingRiskAndEvents: the agreement stands for all three. *)
ConsentOf(locked) ==
  [refundPolicyConfirmed |-> locked, explicitConfirmation |-> locked,
   agreementLocked |-> locked]

RiskReasonCode ==
  {"MISSING_ROUTE", "MISSING_DEPARTURE_TIME", "MISSING_PASSENGER_COUNT",
   "MISSING_PICKUP_POINT", "MISSING_CONTACT", "MISSING_PRICE", "MISSING_DEPOSIT_AMOUNT",
   "MISSING_REFUND_POLICY", "REFUND_POLICY_NOT_CONFIRMED", "INVENTORY_UNAVAILABLE",
   "INVENTORY_HOLD_EXPIRED"}
CriticalBlockerCode ==
  {"AGREEMENT_VERSION_STALE", "PAYMENT_OR_RECEIPT_ALREADY_FINALIZED",
   "PAYMENT_AMOUNT_MISMATCH", "PAYMENT_RECIPIENT_MISMATCH", "PAYMENT_REFERENCE_MISMATCH",
   "PROOF_MISMATCH"}
PaymentGateStatus == {"LOCKED", "READY_FOR_CONFIRMATION", "UNLOCKED", "MANUAL_REVIEW_REQUIRED"}

completenessMinimum == 85
paymentReadinessMinimum == 80
disputeRiskMaximum == 35

Points(holds, weight) == IF holds THEN weight ELSE 0
-----------------------------------------------------------------------------
HoldIsActive(b, now) == b.holdExpiresAt > now

(* latestActiveHold hands over only a live hold, so a draft never shows an *)
(* expired one: INVENTORY_HOLD_EXPIRED is for callers that read stale rows.*)
DraftHold(b, now) == IF HoldIsActive(b, now) THEN b.holdExpiresAt ELSE Unset

DepositIsValid(b) ==
  /\ b.depositAmount > 0
  /\ b.totalAmount # Unset => b.depositAmount <= b.totalAmount

IsMissing(b, hold, consent, now, reason) ==
  \/ reason = "MISSING_ROUTE" /\ ~(b.routeFrom /\ b.routeTo)
  \/ reason = "MISSING_DEPARTURE_TIME" /\ b.departureAt <= now
  \/ reason = "MISSING_PASSENGER_COUNT" /\ b.passengerCount < 1
  \/ reason = "MISSING_PICKUP_POINT" /\ ~b.pickupPoint
  \/ reason = "MISSING_CONTACT" /\ ~b.contact
  \/ reason = "MISSING_PRICE" /\ b.totalAmount = Unset
  \/ reason = "MISSING_DEPOSIT_AMOUNT" /\ ~DepositIsValid(b)
  \/ reason = "MISSING_REFUND_POLICY" /\ ~b.refundPolicy
  \/ reason = "REFUND_POLICY_NOT_CONFIRMED" /\ ~consent.refundPolicyConfirmed
  \/ reason = "INVENTORY_UNAVAILABLE" /\ hold = Unset
  \/ reason = "INVENTORY_HOLD_EXPIRED" /\ hold # Unset /\ hold <= now

ValidateBookingFields(b, consent, now) ==
  {r \in RiskReasonCode : IsMissing(b, DraftHold(b, now), consent, now, r)}

Ready(b, now) ==
  /\ b.routeFrom /\ b.routeTo
  /\ b.departureAt # Unset /\ b.passengerCount # Unset
  /\ b.pickupPoint /\ b.contact
  /\ b.totalAmount # Unset /\ b.depositAmount # Unset
  /\ b.refundPolicy
  /\ HoldIsActive(b, now)

CompletenessScore(b, now) ==
  Points(b.routeFrom /\ b.routeTo, 15) + Points(b.departureAt > now, 15)
    + Points(b.passengerCount > 0, 12) + Points(b.pickupPoint, 10) + Points(b.contact, 10)
    + Points(HoldIsActive(b, now), 15) + Points(b.totalAmount # Unset, 10)
    + Points(b.depositAmount > 0, 5) + Points(b.refundPolicy, 5) + Points(Ready(b, now), 3)

(* The blockers are the only signals deriveRisk passes on. *)
DisputeRisk(blockers) ==
  LET total == Points("PAYMENT_AMOUNT_MISMATCH" \in blockers, 80)
                 + Points("PAYMENT_RECIPIENT_MISMATCH" \in blockers, 100)
                 + Points("PAYMENT_REFERENCE_MISMATCH" \in blockers, 80)
                 + Points("AGREEMENT_VERSION_STALE" \in blockers, 60)
                 + Points("PROOF_MISMATCH" \in blockers, 100)
  IN  IF total > 100 THEN 100 ELSE total

PaymentReadiness(b, consent, now) ==
  Points(Ready(b, now), 20) + Points(consent.agreementLocked, 15)
    + Points(consent.agreementLocked, 20) + Points(consent.refundPolicyConfirmed, 15)
    + Points(consent.explicitConfirmation, 25) + Points(consent.agreementLocked, 5)
-----------------------------------------------------------------------------
CONFIRMATION_REQUIRED_REASONS ==
  {"PRICE_NOT_CONFIRMED", "DEPOSIT_NOT_CONFIRMED", "REFUND_POLICY_NOT_CONFIRMED"}

(* evaluatePaymentGate, on the scores of deriveRisk. *)
PaymentGate(b, consent, blockers, now) ==
  IF blockers # {} THEN "MANUAL_REVIEW_REQUIRED"
  ELSE IF \/ ValidateBookingFields(b, consent, now) \ CONFIRMATION_REQUIRED_REASONS # {}
          \/ DisputeRisk(blockers) > disputeRiskMaximum
          \/ CompletenessScore(b, now) < completenessMinimum
  THEN "LOCKED"
  ELSE IF \/ ~consent.agreementLocked \/ ~consent.explicitConfirmation
          \/ PaymentReadiness(b, consent, now) < paymentReadinessMinimum
  THEN "READY_FOR_CONFIRMATION"
  ELSE IF HoldIsActive(b, now) THEN "UNLOCKED" ELSE "LOCKED"

(* What the gate allows createPaymentIntent, or the first reason it fails. *)
PaymentIntentEligibility(status, decision, holdActive, hasActive, finalized) ==
  IF finalized THEN "PAYMENT_INTENT_ALREADY_EXISTS"
  ELSE IF status # "AGREEMENT_LOCKED" THEN "AGREEMENT_NOT_READY"
  ELSE IF decision = "MANUAL_REVIEW_REQUIRED" THEN "PAYMENT_GATE_MANUAL_REVIEW"
  ELSE IF decision # "UNLOCKED" THEN "PAYMENT_GATE_LOCKED"
  ELSE IF ~holdActive THEN "INVENTORY_HOLD_EXPIRED"
  ELSE IF hasActive THEN "PAYMENT_INTENT_ALREADY_EXISTS"
  ELSE "ALLOWED"
=============================================================================
