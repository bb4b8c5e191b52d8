---------------------------- MODULE BookingFlow ----------------------------
(***************************************************************************)
(* From a customer's words to a paid seat: bookings, agreements, payment   *)
(* intents, provider transactions and receipts (apps/api/src/modules/      *)
(* booking, call-session, payment, receipt) over the seat holds of         *)
(* Inventory.                                                              *)
(*                                                                         *)
(* Steps.  Transcript turns and confirmations run in SERIALIZABLE          *)
(* transactions that write the booking row they read: a concurrent writer  *)
(* aborts one of the two, so each is one step.  Creating and verifying a   *)
(* payment run at READ COMMITTED around an awaited provider: the status    *)
(* that decides is read in one step and the rows are written, from that    *)
(* reading, in a later one.  The process table api holds what a request    *)
(* has read so far; Abandon is a crash, a transaction timeout, a violated  *)
(* constraint: nothing of the open transaction is kept.                    *)
(***************************************************************************)
EXTENDS Inventory, StateMachines, RiskPolicy, Agreement

CONSTANTS
  IntentKey,    \* idempotency keys of payment intents; a key names its row
  Signature,    \* transaction signatures
  Client,       \* payment requests in flight at the API
  Utterance,    \* the facts a customer turn may carry
  DepartsAt,    \* departure times of the catalogue
  Fare, Deposit,  \* prices of the catalogue: a seat, a booking
  None,         \* SQL NULL
  MaxTurns      \* bound: number of transcript turns

ASSUME CatalogueAssumption ==
  /\ {DepartsAt, Fare, Deposit} \subseteq [Departure -> Nat]
  /\ None \notin Departure
ASSUME UtteranceAssumption ==
  Utterance \subseteq [dep : Departure \cup {None}, pax : 0 .. MaxParty,
                       rest : BOOLEAN, confirms : BOOLEAN]
ASSUME TurnsAssumption == MaxTurns \in Nat

VARIABLES
  booking,      \* table bookings: status and terms
  agreement,    \* the LOCKED agreement of a booking: its snapshot of the terms
  gate,         \* gateDecision of the booking's latest stored risk assessment
  intents,      \* table payment_intents
  txns,         \* table payment_transactions, by signature
  receipts,     \* table trust_receipts, by payment intent
  api,          \* what each payment request in flight has read
  turns         \* transcript turns so far

paymentVars == <<intents, txns, receipts, api>>
vars == <<holds, now, booking, agreement, gate, intents, txns, receipts, api, turns>>

NoAgreement == [hold |-> "NONE"]
NoIntent == [status |-> "NOT_CREATED"]
NoTxn == [verdict |-> "NONE"]
Idle == [pc |-> "idle"]

BookingRow ==
  [status : BookingStatus \cup {"NONE"}, dep : Departure \cup {None},
   pax : 0 .. MaxParty, rest : BOOLEAN]
AgreementRow == [hold : HoldKey, dep : Departure, pax : 1 .. MaxParty]
IntentRow ==
  [status : IntentStatus, booking : Booking, dep : Departure, expiresAt : Nat,
   createdAt : Nat]
TxnRow == [verdict : {"CONFIRMED", "REJECTED"}, intent : IntentKey]
Verdict == {"CONFIRMED", "REJECTED", "PENDING", "FAILED", "REUSED"}
Request ==
  [pc : {"creating"}, booking : Booking, dep : Departure, expiresAt : Nat,
   bookingStatus : BookingStatus]
    \cup [pc : {"expiring"}, intent : IntentKey, at : Nat]
    \cup [pc : {"asking"}, intent : IntentKey, at : Nat, sig : Signature, reused : BOOLEAN]
    \cup [pc : {"finalizing"}, intent : IntentKey, sig : Signature,
          verdict : Verdict, bookingStatus : BookingStatus]

OpenStatus == {"CREATED", "PENDING", "FAILED"}
Open(i) == intents[i].status \in OpenStatus
IntentOf(i, b) == intents[i] # NoIntent /\ intents[i].booking = b
-----------------------------------------------------------------------------
(* latestActiveHold: at most one, by the index on ACTIVE rows. *)
LiveHolds(h, b, t) == {k \in HoldKey : IsActiveFor(h[k], b, t)}

(* loadBookingForRisk and bookingDraftFromRecord: route, price, deposit    *)
(* and refund policy come with the departure, pickup and contact with the  *)
(* rest of the facts.                                                      *)
Reading(row, h, b, t) ==
  LET known == row.dep # None
  IN  [routeFrom     |-> known,
       routeTo       |-> known,
       departureAt   |-> IF known THEN DepartsAt[row.dep] ELSE Unset,
       passengerCount |-> IF row.pax = 0 THEN Unset ELSE row.pax,
       pickupPoint   |-> row.rest,
       contact       |-> row.rest,
       totalAmount   |-> IF known /\ row.pax # 0 THEN row.pax * Fare[row.dep] ELSE Unset,
       depositAmount |-> IF known THEN Deposit[row.dep] ELSE Unset,
       refundPolicy  |-> known,
       holdExpiresAt |-> IF LiveHolds(h, b, t) = {} THEN Unset
                         ELSE h[CHOOSE k \in LiveHolds(h, b, t) : TRUE].expiresAt]

IsOperationallyReady(row, h, b, t) == Ready(Reading(row, h, b, t), t)

(* The facts of a turn over the row: what is not said stays.  A departure  *)
(* only matches while it is still ahead.  No status is asked.              *)
Upserted(row, f, t) ==
  [status |-> IF row.status = "NONE" THEN "FIELDS_PARTIAL" ELSE row.status,
   dep    |-> IF f.dep # None /\ DepartsAt[f.dep] > t THEN f.dep ELSE row.dep,
   pax    |-> IF f.pax # 0 THEN f.pax ELSE row.pax,
   rest   |-> row.rest \/ f.rest]

(* Mutant: readiness is recomputed whatever the status. *)
RecomputedStatusAlways(row, h, b, locked, t) ==
  IF IsOperationallyReady(row, h, b, t) THEN "AGREEMENT_READY" ELSE row.status

(* Status targets of recomputeBookingRiskAndEvents. *)
RecomputedStatus(row, h, b, locked, t) ==
  IF locked /\ row.status = "AGREEMENT_READY" THEN "AGREEMENT_LOCKED"
  ELSE IF /\ row.status \in {"DRAFT", "FIELDS_PARTIAL", "BOOKING_DRAFT_READY"}
          /\ IsOperationallyReady(row, h, b, t)
  THEN "AGREEMENT_READY"
  ELSE row.status

(* The gate deriveRisk stores for a booking. *)
GateFor(row, h, b, locked, t) == PaymentGate(Reading(row, h, b, t), ConsentOf(locked), {}, t)

(* Mutant: the seats are not counted again under the departure's lock. *)
HoldForTurnUncounted(b, row, k, t) ==
  IF row.dep = None \/ row.pax = 0 \/ LiveHolds(holds, b, t) # {}
  THEN UNCHANGED holds
  ELSE /\ holds[k] = NoHold
       /\ ~BookingHasActiveRow(Sweep(holds, row.dep, t), b)
       /\ t + HoldTTL > now
       /\ holds' = Reserved(holds, k, b, row.dep, row.pax, t, t + HoldTTL)

(* reserveInventoryHold, with the terms the turn has just written.  Any    *)
(* live hold of the booking will do, whatever bus and party it is for.  A  *)
(* refused reservation is swallowed; a second ACTIVE row aborts the turn.  *)
HoldForTurn(b, row, k, t) ==
  IF row.dep = None \/ row.pax = 0 \/ LiveHolds(holds, b, t) # {}
  THEN UNCHANGED holds
  ELSE \/ /\ CanReserve(holds, k, b, row.dep, row.pax, t)
          /\ t + HoldTTL > now
          /\ holds' = Reserved(holds, k, b, row.dep, row.pax, t, t + HoldTTL)
       \/ /\ ~Fits(Sweep(holds, row.dep, t), row.dep, row.pax, t)
          /\ holds' = Sweep(holds, row.dep, t)

(* confirmBooking: lock a snapshot of the terms and of the live hold.  The *)
(* completeness bar is all that is asked of the score: a departed bus      *)
(* passes it (100 - 15).                                                   *)
Confirms(b, row, h, t) ==
  /\ agreement[b] = NoAgreement
  /\ row.status = "AGREEMENT_READY"
  /\ IsOperationallyReady(row, h, b, t)
  /\ CompletenessScore(Reading(row, h, b, t), t) >= completenessMinimum
  /\ \E k \in LiveHolds(h, b, t) :
       agreement' = [agreement EXCEPT ![b] = [hold |-> k, dep |-> row.dep, pax |-> row.pax]]
  /\ booking' = [booking EXCEPT ![b] = [row EXCEPT !.status = "AGREEMENT_LOCKED"]]
  /\ gate' = [gate EXCEPT ![b] = GateFor(row, h, b, TRUE, t)]
-----------------------------------------------------------------------------
Init ==
  /\ InventoryInit
  /\ booking = [b \in Booking |->
                  [status |-> "NONE", dep |-> None, pax |-> 0, rest |-> FALSE]]
  /\ agreement = [b \in Booking |-> NoAgreement]
  /\ gate = [b \in Booking |-> "LOCKED"]
  /\ intents = [i \in IntentKey |-> NoIntent]
  /\ txns = [s \in Signature |-> NoTxn]
  /\ receipts = [i \in IntentKey |-> "NOT_CREATED"]
  /\ api = [c \in Client |-> Idle]
  /\ turns = 0

(* appendTranscriptTurn of a customer's final turn: draft, hold, risk, and *)
(* a spoken confirmation when the terms are ready, in one transaction.     *)
TranscriptTurn(b, f, k, t) ==
  LET row  == Upserted(booking[b], f, t)
      locked == agreement[b] # NoAgreement
  IN  /\ turns < MaxTurns
      /\ turns' = turns + 1
      /\ HoldForTurn(b, row, k, t)
      /\ LET next == [row EXCEPT !.status = RecomputedStatus(row, holds', b, locked, t)]
         IN  IF f.confirms /\ next.status = "AGREEMENT_READY"
             THEN Confirms(b, next, holds', t)
             ELSE /\ booking' = [booking EXCEPT ![b] = next]
                  /\ gate' = [gate EXCEPT ![b] = GateFor(next, holds', b, locked, t)]
                  /\ UNCHANGED agreement
      /\ UNCHANGED <<now, paymentVars>>

(* POST /bookings/:id/confirm from the web page or an operator. *)
ConfirmBooking(b, t) ==
  /\ Confirms(b, booking[b], holds, t)
  /\ UNCHANGED <<holds, now, paymentVars, turns>>

(* Mutant: the intent's fifteen minutes are not cut to the hold's. *)
CreateIntentReadFullTTL(c, b, t) ==
  /\ api[c] = Idle
  /\ booking[b].status = "AGREEMENT_LOCKED"
  /\ gate[b] = "UNLOCKED"
  /\ agreement[b] # NoAgreement
  /\ LiveHolds(holds, b, t) # {}
  /\ api' = [api EXCEPT ![c] =
               [pc |-> "creating", booking |-> b, dep |-> booking[b].dep,
                expiresAt |-> t + HoldTTL, bookingStatus |-> booking[b].status]]
  /\ UNCHANGED <<holds, now, booking, agreement, gate, intents, txns, receipts, turns>>

(* createPaymentIntent up to the provider: eligibility from the rows and   *)
(* the latest stored gate, amount from the booking as it stands.           *)
CreateIntentRead(c, b, t) ==
  /\ api[c] = Idle
  /\ LET statuses == {intents[i].status : i \in {j \in IntentKey : IntentOf(j, b)}}
     IN  PaymentIntentEligibility(booking[b].status, gate[b], LiveHolds(holds, b, t) # {},
                                  statuses \cap OpenStatus # {}, "CONFIRMED" \in statuses)
           = "ALLOWED"
  /\ agreement[b] # NoAgreement
  /\ \E k \in LiveHolds(holds, b, t) :
       api' = [api EXCEPT ![c] =
                 [pc |-> "creating", booking |-> b, dep |-> booking[b].dep,
                  expiresAt |-> IF holds[k].expiresAt < t + HoldTTL
                                THEN holds[k].expiresAt ELSE t + HoldTTL,
                  bookingStatus |-> booking[b].status]]
  /\ UNCHANGED <<holds, now, booking, agreement, gate, intents, txns, receipts, turns>>

(* payment_intents_one_active_per_agreement (migration line 721), asked at *)
(* every write that leaves i open: there is one agreement per booking.     *)
OnlyOpen(i, b) == \A j \in IntentKey \ {i} : Open(j) => intents[j].booking # b

(* The insert, under that index and the CHECK that the intent outlives its *)
(* creation (line 702), and the booking's status from the earlier reading. *)
CreateIntentWrite(c, i) ==
  /\ api[c].pc = "creating"
  /\ intents[i] = NoIntent
  /\ OnlyOpen(i, api[c].booking)
  /\ api[c].expiresAt > now
  /\ Allowed(bookingTransitions, api[c].bookingStatus, "PAYMENT_PENDING")
  /\ intents' = [intents EXCEPT ![i] =
                   [status |-> "CREATED", booking |-> api[c].booking,
                    dep |-> api[c].dep, expiresAt |-> api[c].expiresAt,
                    createdAt |-> now]]
  /\ booking' = [booking EXCEPT ![api[c].booking].status = "PAYMENT_PENDING"]
  /\ api' = [api EXCEPT ![c] = Idle]
  /\ UNCHANGED <<holds, now, agreement, gate, txns, receipts, turns>>

TakenByOther(s, i) == txns[s] # NoTxn /\ txns[s].intent # i

(* verifyPaymentInTransaction before the provider is asked. *)
VerifyBegin(c, i, s, t) ==
  /\ api[c] = Idle
  /\ intents[i] # NoIntent
  /\ intents[i].status # "CONFIRMED"
  /\ intents[i].expiresAt >= t
  /\ api' = [api EXCEPT ![c] = [pc |-> "asking", intent |-> i, at |-> t, sig |-> s,
                                reused |-> TakenByOther(s, i)]]
  /\ UNCHANGED <<holds, now, booking, agreement, gate, intents, txns, receipts, turns>>

(* The provider has answered v; finalizePaymentVerification reads the      *)
(* intent and the booking.  A signature is looked up before the provider   *)
(* when the client sent it and after when the provider found it.           *)
FinalizeRead(c, v) ==
  LET i == api[c].intent
  IN  /\ api[c].pc = "asking"
      /\ IF v = "REUSED" THEN api[c].reused \/ TakenByOther(api[c].sig, i)
                         ELSE ~api[c].reused
      /\ intents[i].expiresAt >= api[c].at
      /\ Allowed(paymentIntentTransitions, intents[i].status, "PENDING")
      /\ api' = [api EXCEPT ![c] =
                   [pc |-> "finalizing", intent |-> i, sig |-> api[c].sig,
                    verdict |-> v, bookingStatus |-> booking[intents[i].booking].status]]
      /\ UNCHANGED <<holds, now, booking, agreement, gate, intents, txns, receipts, turns>>

SetIntent(i, s) == intents' = [intents EXCEPT ![i].status = s]
SetBooking(i, s) == booking' = [booking EXCEPT ![intents[i].booking].status = s]
RecordTxn(c) ==
  /\ txns[api[c].sig] = NoTxn
  /\ txns' = [txns EXCEPT ![api[c].sig] =
                [verdict |-> api[c].verdict, intent |-> api[c].intent]]

FinalizeRetryable(c) ==
  /\ api[c].pc = "finalizing"
  /\ api[c].verdict \in {"PENDING", "FAILED"}
  /\ OnlyOpen(api[c].intent, intents[api[c].intent].booking)
  /\ SetIntent(api[c].intent, api[c].verdict)
  /\ api' = [api EXCEPT ![c] = Idle]
  /\ UNCHANGED <<holds, now, booking, agreement, gate, txns, receipts, turns>>

(* Mutant: the provider's verdict is stored as the intent's status. *)
FinalizeRejectedVerbatim(c) ==
  /\ api[c].pc = "finalizing"
  /\ \/ api[c].verdict = "REJECTED" /\ RecordTxn(c)
     \/ api[c].verdict = "REUSED" /\ UNCHANGED txns
  /\ SetIntent(api[c].intent, api[c].verdict)
  /\ SetBooking(api[c].intent, "MANUAL_REVIEW_REQUIRED")
  /\ api' = [api EXCEPT ![c] = Idle]
  /\ UNCHANGED <<holds, now, agreement, gate, receipts, turns>>

(* Mutant: the booking is left waiting for a payment that was rejected. *)
FinalizeRejectedIntentOnly(c) ==
  /\ api[c].pc = "finalizing"
  /\ \/ api[c].verdict = "REJECTED" /\ RecordTxn(c)
     \/ api[c].verdict = "REUSED" /\ UNCHANGED txns
  /\ SetIntent(api[c].intent, "REJECTED")
  /\ api' = [api EXCEPT ![c] = Idle]
  /\ UNCHANGED <<holds, now, booking, agreement, gate, receipts, turns>>

FinalizeRejected(c) ==
  /\ api[c].pc = "finalizing"
  /\ \/ api[c].verdict = "REJECTED" /\ RecordTxn(c)
     \/ api[c].verdict = "REUSED" /\ UNCHANGED txns
  /\ Allowed(bookingTransitions, api[c].bookingStatus, "MANUAL_REVIEW_REQUIRED")
  /\ SetIntent(api[c].intent, "REJECTED")
  /\ SetBooking(api[c].intent, "MANUAL_REVIEW_REQUIRED")
  /\ api' = [api EXCEPT ![c] = Idle]
  /\ UNCHANGED <<holds, now, agreement, gate, receipts, turns>>

(* createVerifiedProofRecord and createVerifiedTrustReceipt: a receipt is  *)
(* issued and verified at once, over a proof that matches; its status      *)
(* stands for both rows.                                                   *)
IssueReceipt(i) ==
  /\ Allowed(receiptTransitions, "ISSUED", "VERIFIED_MATCH")
  /\ receipts' = [receipts EXCEPT ![i] = "VERIFIED_MATCH"]

(* Mutant: trust_receipts is not unique by payment intent. *)
FinalizeConfirmedAgain(c) ==
  LET i == api[c].intent
  IN  /\ api[c].pc = "finalizing"
      /\ api[c].verdict = "CONFIRMED"
      /\ RecordTxn(c)
      /\ PathAllowed(bookingTransitions, api[c].bookingStatus,
                     <<"PAYMENT_CONFIRMED", "BOOKING_CONFIRMED", "RECEIPT_ISSUED">>)
      /\ SetIntent(i, "CONFIRMED")
      /\ Consume(intents[i].booking)
      /\ SetBooking(i, "RECEIPT_ISSUED")
      /\ IssueReceipt(i)
      /\ api' = [api EXCEPT ![c] = Idle]
      /\ UNCHANGED <<agreement, gate, turns>>

FinalizeConfirmed(c) ==
  LET i == api[c].intent
  IN  /\ api[c].pc = "finalizing"
      /\ api[c].verdict = "CONFIRMED"
      /\ RecordTxn(c)
      /\ receipts[i] = "NOT_CREATED"
      /\ PathAllowed(bookingTransitions, api[c].bookingStatus,
                     <<"PAYMENT_CONFIRMED", "BOOKING_CONFIRMED", "RECEIPT_ISSUED">>)
      /\ SetIntent(i, "CONFIRMED")
      /\ Consume(intents[i].booking)
      /\ SetBooking(i, "RECEIPT_ISSUED")
      /\ IssueReceipt(i)
      /\ api' = [api EXCEPT ![c] = Idle]
      /\ UNCHANGED <<agreement, gate, turns>>

Abandon(c) ==
  /\ api[c] # Idle
  /\ api' = [api EXCEPT ![c] = Idle]
  /\ UNCHANGED <<holds, now, booking, agreement, gate, intents, txns, receipts, turns>>

(* simulatePaymentFailure, outcome EXPIRED: the status is read, then the   *)
(* expiry is written, in no transaction.  The CHECK of line 702 refuses it *)
(* on an intent that is too young.                                         *)
DemoExpireRead(c, i) ==
  /\ api[c] = Idle
  /\ intents[i].status \in {"CREATED", "PENDING"}
  /\ now > 0
  /\ api' = [api EXCEPT ![c] = [pc |-> "expiring", intent |-> i, at |-> now]]
  /\ UNCHANGED <<holds, now, booking, agreement, gate, intents, txns, receipts, turns>>

(* Mutant: the whole row that was read is written back. *)
DemoExpireWriteRow(c) ==
  /\ api[c].pc = "expiring"
  /\ api[c].at - 1 > intents[api[c].intent].createdAt
  /\ intents' = [intents EXCEPT ![api[c].intent].expiresAt = api[c].at - 1,
                                ![api[c].intent].status = "PENDING"]
  /\ api' = [api EXCEPT ![c] = Idle]
  /\ UNCHANGED <<holds, now, booking, agreement, gate, txns, receipts, turns>>

DemoExpireWrite(c) ==
  /\ api[c].pc = "expiring"
  /\ api[c].at - 1 > intents[api[c].intent].createdAt
  /\ intents' = [intents EXCEPT ![api[c].intent].expiresAt = api[c].at - 1]
  /\ api' = [api EXCEPT ![c] = Idle]
  /\ UNCHANGED <<holds, now, booking, agreement, gate, txns, receipts, turns>>

(* The payload of the booking's locked agreement, from its snapshot. *)
LockedPayload(b) ==
  LET a == agreement[b]
      terms == [dep |-> a.dep, pax |-> a.pax, rest |-> TRUE]
  IN  CanonicalPayload(b, 1, Reading(terms, holds, b, 0), a.hold, holds[a.hold].expiresAt)

(* What the receipt page may ask about. *)
CandidateDeposit == UNION {{Deposit[d], Deposit[d] + 1} : d \in Departure}

(* verifyReceiptTamper.  A candidate that hashes to the proof changes      *)
(* nothing; none does, not even the true one (see StoredOrder).            *)
VerifyReceiptTamper(i, deposit) ==
  /\ receipts[i] # "NOT_CREATED"
  /\ ~ProofMatches(LockedPayload(intents[i].booking), deposit)
  /\ Allowed(receiptTransitions, receipts[i], "MISMATCH")
  /\ Allowed(bookingTransitions, booking[intents[i].booking].status,
             "MANUAL_REVIEW_REQUIRED")
  /\ receipts' = [receipts EXCEPT ![i] = "MISMATCH"]
  /\ SetBooking(i, "MANUAL_REVIEW_REQUIRED")
  /\ UNCHANGED <<holds, now, agreement, gate, intents, txns, api, turns>>

TimePasses == Tick /\ UNCHANGED <<booking, agreement, gate, paymentVars, turns>>

Next ==
  \/ TimePasses
  \/ \E b \in Booking, t \in Captured :
       \/ \E f \in Utterance, k \in HoldKey : TranscriptTurn(b, f, k, t)
       \/ ConfirmBooking(b, t)
       \/ \E c \in Client : CreateIntentRead(c, b, t)
  \/ \E c \in Client, i \in IntentKey :
       \/ CreateIntentWrite(c, i)
       \/ DemoExpireRead(c, i)
       \/ \E s \in Signature, t \in Captured : VerifyBegin(c, i, s, t)
  \/ \E c \in Client :
       \/ \E v \in Verdict : FinalizeRead(c, v)
       \/ FinalizeRetryable(c)
       \/ FinalizeRejected(c)
       \/ FinalizeConfirmed(c)
       \/ DemoExpireWrite(c)
       \/ Abandon(c)
  \/ \E i \in IntentKey, deposit \in CandidateDeposit : VerifyReceiptTamper(i, deposit)

Spec == Init /\ [][Next]_vars
=============================================================================
