------------------------- MODULE BookingFlowProofs -------------------------
(***************************************************************************)
(* Theorems about BookingFlow, for every set of bookings, departures,      *)
(* intents, signatures and requests in flight, and every catalogue: it     *)
(* uses the hold table as Inventory says, and the safety properties of     *)
(* BookingProperties hold.                                                 *)
(***************************************************************************)
EXTENDS BookingProperties, InventoryProofs

(***************************************************************************)
(* What makes the properties inductive: no row points into the void.       *)
(***************************************************************************)
(* An agreement is about a departure, and its hold is a row of the booking.*)
AgreedTerms ==
  \A b \in Booking : agreement[b] # NoAgreement =>
    /\ booking[b].dep # None
    /\ holds[agreement[b].hold] # NoHold

(* An intent is opened on an agreement, a receipt issued for an intent. *)
IntentsAgreed ==
  \A i \in IntentKey : intents[i] # NoIntent => agreement[intents[i].booking] # NoAgreement
ReceiptsHaveIntents == \A i \in IntentKey : Paid(i) => intents[i] # NoIntent

(* What a request works on exists: also what it has read long ago. *)
RequestsGrounded ==
  \A c \in Client :
    /\ api[c].pc = "creating" => agreement[api[c].booking] # NoAgreement
    /\ api[c].pc \in {"asking", "finalizing", "expiring"} => intents[api[c].intent] # NoIntent
    /\ api[c].pc = "expiring" => api[c].at <= now

(* Booking b has seats that last until e, or e is past. *)
Covered(b, e) ==
  e > now => \E k \in HoldKey : /\ holds[k].status \in {"ACTIVE", "CONSUMED"}
                                /\ holds[k].booking = b
                                /\ holds[k].expiresAt >= e

(* LiveIntentHasSeat for intents of any status, as a confirmed one may be  *)
(* open again, and for those that are about to be inserted.                *)
SeatsCover ==
  /\ \A i \in IntentKey :
       intents[i] # NoIntent => Covered(intents[i].booking, intents[i].expiresAt)
  /\ \A c \in Client :
       api[c].pc = "creating" => Covered(api[c].booking, api[c].expiresAt)

BookingInv ==
  /\ TypeOK
  /\ AgreedTerms
  /\ IntentsAgreed
  /\ ReceiptsHaveIntents
  /\ RequestsGrounded
  /\ SeatsCover
  /\ StatusEvidence
  /\ ReceiptBacked
  /\ ConsumedSeatIsPaid
-----------------------------------------------------------------------------
(***************************************************************************)
(* What the rows and requests that are there look like.                    *)
(***************************************************************************)
(* A request carries what its step has read. *)
LEMMA RequestFields ==
  ASSUME TypeOK, NEW c \in Client
  PROVE  /\ api[c].pc = "creating" =>
              /\ api[c].booking \in Booking /\ api[c].dep \in Departure
              /\ api[c].expiresAt \in Nat /\ api[c].bookingStatus \in BookingStatus
         /\ api[c].pc = "expiring" => api[c].intent \in IntentKey /\ api[c].at \in Nat
         /\ api[c].pc = "asking" =>
              /\ api[c].intent \in IntentKey /\ api[c].sig \in Signature
              /\ api[c].at \in Nat
         /\ api[c].pc = "finalizing" =>
              /\ api[c].intent \in IntentKey /\ api[c].sig \in Signature
              /\ api[c].verdict \in Verdict /\ api[c].bookingStatus \in BookingStatus
<1>1. api[c] \in Request \cup {Idle}
  BY DEF TypeOK
<1> QED
  BY <1>1 DEF Request, Idle

(* A row that is there is a row. *)
LEMMA RowFields ==
  ASSUME TypeOK
  PROVE  /\ \A i \in IntentKey : intents[i] # NoIntent => intents[i] \in IntentRow
         /\ \A b \in Booking : agreement[b] # NoAgreement => agreement[b] \in AgreementRow
         /\ \A k \in HoldKey : holds[k] # NoHold => holds[k] \in HoldRow
         /\ \A b \in Booking : booking[b] \in BookingRow
  BY DEF TypeOK, InventoryTypeOK, HoldTable

(* The facts of a turn leave a row of a booking that has begun. *)
LEMMA UpsertedRow ==
  ASSUME NEW row \in BookingRow, NEW f \in Utterance, NEW t
  PROVE  /\ Upserted(row, f, t) \in BookingRow
         /\ Upserted(row, f, t).status =
              IF row.status = "NONE" THEN "FIELDS_PARTIAL" ELSE row.status
         /\ row.dep # None => Upserted(row, f, t).dep # None
<1>1. /\ f.dep \in Departure \cup {None} /\ f.pax \in 0 .. MaxParty /\ f.rest \in BOOLEAN
  BY UtteranceAssumption
<1> QED
  BY <1>1, CatalogueAssumption DEF Upserted, BookingRow, BookingStatus

(* The stored gate is a gate. *)
LEMMA GateType ==
  ASSUME NEW row, NEW h, NEW b, NEW locked, NEW t
  PROVE  GateFor(row, h, b, locked, t) \in PaymentGateStatus
  BY DEF GateFor, PaymentGate, PaymentGateStatus

(* Terms that are operationally ready are complete and have a live hold. *)
LEMMA ReadyTerms ==
  ASSUME NEW row \in BookingRow, NEW h, NEW b, NEW t,
         IsOperationallyReady(row, h, b, t)
  PROVE  row.dep \in Departure /\ row.pax \in 1 .. MaxParty
<1>1. row.dep # None
  BY DEF IsOperationallyReady, Ready, Reading
<1>2. row.pax # 0
  BY DEF IsOperationallyReady, Ready, Reading, Unset
<1> QED
  BY <1>1, <1>2, BoundsAssumption DEF BookingRow

(* The statuses that come with an agreement. *)
AgreedStatus ==
  {"AGREEMENT_LOCKED", "PAYMENT_PENDING", "RECEIPT_ISSUED", "MANUAL_REVIEW_REQUIRED"}

(* The terms of b, locked with hold j at a time t. *)
LocksTerms(b, row, j, t) ==
  LET terms == [hold |-> j, dep |-> row.dep, pax |-> row.pax]
  IN  /\ IsActiveFor(holds'[j], b, t)
      /\ terms \in AgreementRow
      /\ agreement' = [agreement EXCEPT ![b] = terms]

(* A conversation about b: nothing is locked, or the terms of b are.  *)
TermsStep(b, row) ==
  /\ row \in BookingRow
  /\ booking' = [booking EXCEPT ![b] = row]
  /\ \E g \in PaymentGateStatus : gate' = [gate EXCEPT ![b] = g]
  /\ booking[b].dep # None => row.dep # None
  /\ \/ /\ agreement' = agreement
        /\ \/ row.status = booking[b].status
           \/ {row.status, booking[b].status} \cap AgreedStatus = {}
     \/ /\ row.status = "AGREEMENT_LOCKED"
        /\ booking[b].status \notin AgreedStatus
        /\ \E j \in HoldKey, t \in Captured : LocksTerms(b, row, j, t)

(* A confirmation locks the terms, with a live hold of the booking. *)
LEMMA ConfirmsEffect ==
  ASSUME NEW b \in Booking, NEW row \in BookingRow, NEW t \in Captured,
         Confirms(b, row, holds', t),
         booking[b].status \notin AgreedStatus, booking[b].dep # None => row.dep # None
  PROVE  TermsStep(b, [row EXCEPT !.status = "AGREEMENT_LOCKED"])
<1> DEFINE locked == [row EXCEPT !.status = "AGREEMENT_LOCKED"]
<1>1. row.dep \in Departure /\ row.pax \in 1 .. MaxParty
  BY ReadyTerms DEF Confirms
<1>2. /\ locked \in BookingRow /\ locked.status = "AGREEMENT_LOCKED"
      /\ locked.dep = row.dep /\ locked.pax = row.pax
  BY DEF BookingRow, BookingStatus
<1>3. /\ booking' = [booking EXCEPT ![b] = locked]
      /\ \E g \in PaymentGateStatus : gate' = [gate EXCEPT ![b] = g]
  BY GateType DEF Confirms
<1>4. PICK j \in LiveHolds(holds', b, t) :
        agreement' = [agreement EXCEPT ![b] =
                        [hold |-> j, dep |-> row.dep, pax |-> row.pax]]
  BY DEF Confirms
<1>5. LocksTerms(b, locked, j, t) /\ j \in HoldKey
  BY <1>1, <1>2, <1>4 DEF LocksTerms, LiveHolds, AgreementRow
<1> HIDE DEF locked
<1>6. TermsStep(b, locked)
  BY <1>2, <1>3, <1>5 DEF TermsStep
<1> QED
  BY <1>6 DEF locked

(* What a customer's turn writes down. *)
LEMMA TurnEffect ==
  ASSUME TypeOK, StatusEvidence, NEW b \in Booking, NEW f \in Utterance, NEW k \in HoldKey,
         NEW t \in Captured, TranscriptTurn(b, f, k, t)
  PROVE  \E row : TermsStep(b, row)
<1> DEFINE said == Upserted(booking[b], f, t)
           locked == agreement[b] # NoAgreement
           next == [said EXCEPT !.status = RecomputedStatus(said, holds', b, locked, t)]
<1>1. booking[b] \in BookingRow
  BY DEF TypeOK
<1>2. /\ said \in BookingRow
      /\ said.status = IF booking[b].status = "NONE" THEN "FIELDS_PARTIAL" ELSE booking[b].status
      /\ booking[b].dep # None => said.dep # None
  BY <1>1, UpsertedRow
<1>3. \/ next.status = said.status
      \/ /\ next.status = "AGREEMENT_READY"
         /\ said.status \in {"DRAFT", "FIELDS_PARTIAL", "BOOKING_DRAFT_READY"}
      \/ /\ next.status = "AGREEMENT_LOCKED"
         /\ locked /\ said.status = "AGREEMENT_READY"
  <2> HIDE DEF said, locked
  <2>1. next.status = RecomputedStatus(said, holds', b, locked, t)
    BY <1>2 DEF BookingRow
  <2> HIDE DEF next
  <2> QED
    BY <2>1 DEF RecomputedStatus, locked
<1>4. next \in BookingRow /\ next.dep = said.dep
  <2> HIDE DEF said, locked
  <2>1. RecomputedStatus(said, holds', b, locked, t) \in BookingStatus \cup {"NONE"}
    BY <1>2 DEF RecomputedStatus, BookingRow, BookingStatus, locked
  <2> QED
    BY <1>2, <2>1 DEF BookingRow
<1>5. \/ Confirms(b, next, holds', t)
      \/ /\ booking' = [booking EXCEPT ![b] = next]
         /\ gate' = [gate EXCEPT ![b] = GateFor(next, holds', b, locked, t)]
         /\ agreement' = agreement
  BY DEF TranscriptTurn
<1> HIDE DEF said, next
<1>6. agreement[b] # NoAgreement => said.status # "AGREEMENT_READY"
  BY <1>2 DEF StatusEvidence
<1>7. CASE Confirms(b, next, holds', t)
  <2>1. next.status = "AGREEMENT_READY"
    BY <1>7 DEF Confirms
  <2>2. booking[b].status \notin AgreedStatus /\ (booking[b].dep # None => next.dep # None)
    BY <1>2, <1>3, <1>4, <2>1 DEF AgreedStatus
  <2> QED
    BY <1>4, <1>7, <2>2, ConfirmsEffect
<1>8. CASE /\ booking' = [booking EXCEPT ![b] = next]
           /\ gate' = [gate EXCEPT ![b] = GateFor(next, holds', b, locked, t)]
           /\ agreement' = agreement
  <2>1. \/ next.status = booking[b].status
        \/ {next.status, booking[b].status} \cap AgreedStatus = {}
    BY <1>2, <1>3, <1>6 DEF AgreedStatus
  <2>2. \E g \in PaymentGateStatus : gate' = [gate EXCEPT ![b] = g]
    BY <1>8, GateType
  <2>3. TermsStep(b, next)
    BY <1>2, <1>4, <1>8, <2>1, <2>2 DEF TermsStep
  <2> QED
    BY <2>3
<1> QED
  BY <1>5, <1>7, <1>8

(* What a confirmation on the web page or by an operator writes down. *)
LEMMA ConfirmEffect ==
  ASSUME TypeOK, StatusEvidence, NEW b \in Booking, NEW t \in Captured, ConfirmBooking(b, t)
  PROVE  \E row : TermsStep(b, row)
<1>1. booking[b] \in BookingRow /\ Confirms(b, booking[b], holds', t)
  BY DEF TypeOK, ConfirmBooking
<1>2. booking[b].status \notin AgreedStatus
  BY <1>1 DEF Confirms, AgreedStatus
<1> QED
  BY <1>1, <1>2, ConfirmsEffect
-----------------------------------------------------------------------------
(***************************************************************************)
(* The hold table: the flow refines Inventory.                             *)
(***************************************************************************)
(* A turn reserves seats, is refused, or needs none. *)
LEMMA TurnHolds ==
  ASSUME booking \in [Booking -> BookingRow],
         NEW b \in Booking, NEW f \in Utterance, NEW k \in HoldKey,
         NEW t \in Captured, TranscriptTurn(b, f, k, t)
  PROVE  \/ UNCHANGED inventoryVars
         \/ \E d \in Departure, q \in 1 .. MaxParty :
              Reserve(k, b, d, q, t, t + HoldTTL) \/ ReserveRefused(d, q, t)
<1> DEFINE row == Upserted(booking[b], f, t)
<1>1. row \in BookingRow
  BY UpsertedRow
<1>2. HoldForTurn(b, row, k, t) /\ now' = now
  BY DEF TranscriptTurn
<1> HIDE DEF row
<1>3. CASE row.dep = None \/ row.pax = 0 \/ LiveHolds(holds, b, t) # {}
  BY <1>2, <1>3 DEF HoldForTurn, inventoryVars
<1>4. CASE ~(row.dep = None \/ row.pax = 0 \/ LiveHolds(holds, b, t) # {})
  <2>1. row.dep \in Departure /\ row.pax \in 1 .. MaxParty
    BY <1>1, <1>4, BoundsAssumption DEF BookingRow
  <2>2. \/ Reserve(k, b, row.dep, row.pax, t, t + HoldTTL)
        \/ ReserveRefused(row.dep, row.pax, t)
    BY <1>2, <1>4 DEF HoldForTurn, Reserve, ReserveRefused
  <2> QED
    BY <2>1, <2>2
<1> QED
  BY <1>3, <1>4

(* The five things a step of the flow may do to seats and clock. *)
LEMMA HoldCases ==
  ASSUME TypeOK, RequestsGrounded, [Next]_vars
  PROVE  \/ UNCHANGED inventoryVars
         \/ Tick
         \/ \E c \in Client : /\ FinalizeConfirmed(c)
                             /\ intents[api[c].intent].booking \in Booking
                             /\ Consume(intents[api[c].intent].booking)
         \/ \E d \in Departure, q \in 1 .. MaxParty, t \in Captured : ReserveRefused(d, q, t)
         \/ \E k \in HoldKey, b \in Booking, d \in Departure, q \in 1 .. MaxParty,
               t \in Captured : Reserve(k, b, d, q, t, t + HoldTTL)
<1>1. CASE TimePasses
  BY <1>1 DEF TimePasses
<1>2. ASSUME NEW b \in Booking, NEW t \in Captured, NEW f \in Utterance, NEW k \in HoldKey,
             TranscriptTurn(b, f, k, t)
      PROVE  \/ UNCHANGED inventoryVars
             \/ \E d \in Departure, q \in 1 .. MaxParty :
                  Reserve(k, b, d, q, t, t + HoldTTL) \/ ReserveRefused(d, q, t)
  BY <1>2, TurnHolds DEF TypeOK
<1>3. ASSUME NEW b \in Booking, NEW t \in Captured, NEW c \in Client,
             ConfirmBooking(b, t) \/ CreateIntentRead(c, b, t)
      PROVE  UNCHANGED inventoryVars
  BY <1>3 DEF ConfirmBooking, CreateIntentRead, inventoryVars
<1>4. ASSUME NEW b \in Booking, NEW t \in Captured, ConfirmBooking(b, t)
      PROVE  UNCHANGED inventoryVars
  BY <1>4 DEF ConfirmBooking, inventoryVars
<1>5. ASSUME NEW c \in Client, NEW i \in IntentKey,
             \/ CreateIntentWrite(c, i) \/ DemoExpireRead(c, i)
             \/ \E s \in Signature, t \in Captured : VerifyBegin(c, i, s, t)
      PROVE  UNCHANGED inventoryVars
  BY <1>5 DEF CreateIntentWrite, DemoExpireRead, VerifyBegin, inventoryVars
<1>6. ASSUME NEW c \in Client,
             \/ \E v \in Verdict : FinalizeRead(c, v)
             \/ FinalizeRetryable(c) \/ FinalizeRejected(c) \/ DemoExpireWrite(c) \/ Abandon(c)
      PROVE  UNCHANGED inventoryVars
  BY <1>6 DEF FinalizeRead, FinalizeRetryable, FinalizeRejected, DemoExpireWrite, Abandon,
              inventoryVars
<1>7. ASSUME NEW c \in Client, FinalizeConfirmed(c)
      PROVE  /\ intents[api[c].intent].booking \in Booking
             /\ Consume(intents[api[c].intent].booking)
  <2>1. intents[api[c].intent] \in IntentRow
    BY <1>7, RequestFields, RowFields DEF FinalizeConfirmed, RequestsGrounded
  <2> QED
    BY <1>7, <2>1 DEF FinalizeConfirmed, IntentRow
<1>8. ASSUME NEW i \in IntentKey, NEW deposit \in CandidateDeposit,
             VerifyReceiptTamper(i, deposit)
      PROVE  UNCHANGED inventoryVars
  BY <1>8 DEF VerifyReceiptTamper, inventoryVars
<1>9. CASE UNCHANGED vars
  BY <1>9 DEF vars, inventoryVars
<1> QED
  BY <1>1, <1>2, <1>3, <1>4, <1>5, <1>6, <1>7, <1>8, <1>9 DEF Next

(* The clock does not run backwards. *)
LEMMA ClockStep ==
  ASSUME TypeOK, RequestsGrounded, [Next]_vars
  PROVE  now \in Nat /\ now' \in Nat /\ now' >= now
<1>1. UNCHANGED now \/ Tick
  BY HoldCases DEF inventoryVars, Consume, ReserveRefused, Reserve
<1> QED
  BY <1>1, BoundsAssumption DEF TypeOK, InventoryTypeOK, Tick

(* Every step of the flow is a step of Inventory, or none. *)
LEMMA StepRefinesInventory ==
  ASSUME TypeOK, RequestsGrounded, [Next]_vars
  PROVE  [InventoryNext]_inventoryVars
<1>1. ASSUME NEW k \in HoldKey, NEW b \in Booking, NEW d \in Departure, NEW q \in 1 .. MaxParty,
             NEW t \in Captured, Reserve(k, b, d, q, t, t + HoldTTL)
      PROVE  InventoryNext
  <2>1. t + HoldTTL \in t .. t + HoldTTL
    BY CapturedIsPast, BoundsAssumption DEF TypeOK
  <2> QED
    BY <1>1, <2>1 DEF InventoryNext
<1> QED
  BY HoldCases, <1>1 DEF InventoryNext

(* Rows of the hold table stay, with their booking and their expiry, and   *)
(* seats are not taken away before their time.                             *)
LEMMA HoldsKept ==
  ASSUME TypeOK, RequestsGrounded, [Next]_vars, NEW k \in HoldKey, holds[k] # NoHold
  PROVE  /\ holds'[k] # NoHold
         /\ holds'[k].booking = holds[k].booking
         /\ holds'[k].expiresAt = holds[k].expiresAt
         /\ (holds[k].status \in {"ACTIVE", "CONSUMED"} /\ holds[k].expiresAt > now) =>
              holds'[k].status \in {"ACTIVE", "CONSUMED"}
<1>1. InventoryTypeOK /\ holds \in HoldTable /\ holds[k] \in HoldRow /\ now \in Nat
  BY RowFields, BoundsAssumption DEF TypeOK, InventoryTypeOK
<1>2. CASE UNCHANGED inventoryVars \/ Tick
  BY <1>2 DEF inventoryVars, Tick
<1>3. ASSUME NEW b \in Booking, Consume(b)
      PROVE  /\ holds'[k] \in HoldRow
             /\ holds'[k].booking = holds[k].booking
             /\ holds'[k].expiresAt = holds[k].expiresAt
             /\ holds[k].status \in {"ACTIVE", "CONSUMED"} =>
                  holds'[k].status \in {"ACTIVE", "CONSUMED"}
  BY <1>1, <1>3 DEF Consume, ConsumeActive, HoldRow
<1>4. ASSUME NEW d \in Departure, NEW t \in Captured
      PROVE  /\ Sweep(holds, d, t)[k] \in HoldRow
             /\ Sweep(holds, d, t)[k].booking = holds[k].booking
             /\ Sweep(holds, d, t)[k].expiresAt = holds[k].expiresAt
             /\ (holds[k].status \in {"ACTIVE", "CONSUMED"} /\ holds[k].expiresAt > now) =>
                  Sweep(holds, d, t)[k].status \in {"ACTIVE", "CONSUMED"}
  <2>1. \/ Sweep(holds, d, t)[k] = holds[k]
        \/ /\ holds[k].expiresAt <= now
           /\ Sweep(holds, d, t)[k] = [holds[k] EXCEPT !.status = "EXPIRED"]
    BY <1>1, SweepRow
  <2> QED
    BY <1>1, <2>1 DEF HoldRow
<1>5. ASSUME NEW d \in Departure, NEW q \in 1 .. MaxParty, NEW t \in Captured,
             ReserveRefused(d, q, t)
      PROVE  holds'[k] = Sweep(holds, d, t)[k]
  BY <1>5 DEF ReserveRefused
<1>6. ASSUME NEW j \in HoldKey, NEW b \in Booking, NEW d \in Departure, NEW q \in 1 .. MaxParty,
             NEW t \in Captured, Reserve(j, b, d, q, t, t + HoldTTL)
      PROVE  holds'[k] = Sweep(holds, d, t)[k]
  <2>1. j # k
    BY <1>6 DEF Reserve, CanReserve
  <2> QED
    BY <1>6, <2>1, SweepType, <1>1 DEF Reserve, Reserved, HoldTable
<1>7. HoldRow \cap {NoHold} = {}
  BY DEF HoldRow, NoHold
<1> QED
  BY HoldCases, <1>2, <1>3, <1>4, <1>5, <1>6, <1>7
-----------------------------------------------------------------------------
(***************************************************************************)
(* Type correctness, step by step.                                         *)
(***************************************************************************)
(* The bookings of intents and agreements have begun. *)
LEMMA BegunBooking ==
  ASSUME TypeOK, StatusEvidence, NEW b \in Booking, agreement[b] # NoAgreement
  PROVE  booking[b].status \in BookingStatus
  BY DEF StatusEvidence, BookingStatus

(* An intent is allowed only on locked terms that the gate lets pass. *)
LEMMA AllowedIsLocked ==
  ASSUME NEW status, NEW decision, NEW live, NEW open, NEW done,
         PaymentIntentEligibility(status, decision, live, open, done) = "ALLOWED"
  PROVE  status = "AGREEMENT_LOCKED" /\ decision = "UNLOCKED"
  BY DEF PaymentIntentEligibility

(* What createPaymentIntent has read. *)
LEMMA CreateIntentReadEffect ==
  ASSUME TypeOK, AgreedTerms, NEW c \in Client, NEW b \in Booking, NEW t \in Captured,
         CreateIntentRead(c, b, t)
  PROVE  /\ agreement[b] # NoAgreement
         /\ booking[b].status = "AGREEMENT_LOCKED"
         /\ \E e \in Nat :
              /\ \E k \in HoldKey : IsActiveFor(holds[k], b, t) /\ holds[k].expiresAt >= e
              /\ [pc |-> "creating", booking |-> b, dep |-> booking[b].dep, expiresAt |-> e,
                  bookingStatus |-> booking[b].status] \in Request
              /\ api' = [api EXCEPT ![c] =
                           [pc |-> "creating", booking |-> b, dep |-> booking[b].dep,
                            expiresAt |-> e, bookingStatus |-> booking[b].status]]
<1>1. agreement[b] # NoAgreement /\ booking[b].status = "AGREEMENT_LOCKED"
  BY AllowedIsLocked DEF CreateIntentRead
<1>2. booking[b].dep \in Departure
  BY <1>1, RowFields DEF AgreedTerms, BookingRow
<1>3. PICK k \in LiveHolds(holds, b, t) :
        api' = [api EXCEPT ![c] =
                 [pc |-> "creating", booking |-> b, dep |-> booking[b].dep,
                  expiresAt |-> IF holds[k].expiresAt < t + HoldTTL
                                THEN holds[k].expiresAt ELSE t + HoldTTL,
                  bookingStatus |-> booking[b].status]]
  BY DEF CreateIntentRead
<1> DEFINE e == IF holds[k].expiresAt < t + HoldTTL THEN holds[k].expiresAt ELSE t + HoldTTL
<1>4. k \in HoldKey /\ IsActiveFor(holds[k], b, t)
  BY DEF LiveHolds
<1>5. holds[k] \in HoldRow
  BY <1>4, ActiveRow DEF IsActiveFor, TypeOK, InventoryTypeOK
<1>6. t \in Nat /\ holds[k].expiresAt \in Nat
  BY <1>5, CapturedIsPast DEF HoldRow, TypeOK
<1>7. e \in Nat /\ holds[k].expiresAt >= e
  BY <1>6, BoundsAssumption
<1> HIDE DEF e
<1>8. [pc |-> "creating", booking |-> b, dep |-> booking[b].dep, expiresAt |-> e,
       bookingStatus |-> booking[b].status] \in Request
  BY <1>1, <1>2, <1>7 DEF Request, BookingStatus
<1> QED
  BY <1>1, <1>3, <1>4, <1>7, <1>8 DEF e

(* Steps that only write down what a request has read, or forget it, keep  *)
(* the types.                                                              *)
LEMMA RequestTypeStep ==
  ASSUME TypeOK, AgreedTerms, IntentsAgreed, RequestsGrounded, StatusEvidence,
         NEW c \in Client,
         \/ \E b \in Booking, t \in Captured : CreateIntentRead(c, b, t)
         \/ \E i \in IntentKey : DemoExpireRead(c, i)
         \/ \E i \in IntentKey, s \in Signature, t \in Captured : VerifyBegin(c, i, s, t)
         \/ \E v \in Verdict : FinalizeRead(c, v)
         \/ Abandon(c)
  PROVE  api' \in [Client -> Request \cup {Idle}]
<1>1. api \in [Client -> Request \cup {Idle}]
  BY DEF TypeOK
<1>2. ASSUME NEW r \in Request \cup {Idle}, api' = [api EXCEPT ![c] = r]
      PROVE  api' \in [Client -> Request \cup {Idle}]
  BY <1>1, <1>2
<1>3. ASSUME NEW b \in Booking, NEW t \in Captured, CreateIntentRead(c, b, t)
      PROVE  \E r \in Request \cup {Idle} : api' = [api EXCEPT ![c] = r]
  BY <1>3, CreateIntentReadEffect
<1>4. ASSUME NEW i \in IntentKey, DemoExpireRead(c, i)
      PROVE  \E r \in Request \cup {Idle} : api' = [api EXCEPT ![c] = r]
  <2>1. [pc |-> "expiring", intent |-> i, at |-> now] \in Request
    BY BoundsAssumption DEF Request, TypeOK, InventoryTypeOK
  <2> QED
    BY <1>4, <2>1 DEF DemoExpireRead
<1>5. ASSUME NEW i \in IntentKey, NEW s \in Signature, NEW t \in Captured, VerifyBegin(c, i, s, t)
      PROVE  \E r \in Request \cup {Idle} : api' = [api EXCEPT ![c] = r]
  <2>1. t \in Nat /\ TakenByOther(s, i) \in BOOLEAN
    BY CapturedIsPast DEF TypeOK, TakenByOther
  <2>2. [pc |-> "asking", intent |-> i, at |-> t, sig |-> s, reused |-> TakenByOther(s, i)]
          \in Request
    BY <2>1 DEF Request
  <2> QED
    BY <1>5, <2>2 DEF VerifyBegin
<1>6. ASSUME NEW v \in Verdict, FinalizeRead(c, v)
      PROVE  \E r \in Request \cup {Idle} : api' = [api EXCEPT ![c] = r]
  <2> DEFINE i == api[c].intent
             r == [pc |-> "finalizing", intent |-> i, sig |-> api[c].sig, verdict |-> v,
                   bookingStatus |-> booking[intents[i].booking].status]
  <2>1. i \in IntentKey /\ api[c].sig \in Signature /\ intents[i] # NoIntent
    BY <1>6, RequestFields DEF FinalizeRead, RequestsGrounded
  <2>2. intents[i].booking \in Booking /\ agreement[intents[i].booking] # NoAgreement
    BY <2>1, RowFields DEF IntentsAgreed, IntentRow
  <2>3. booking[intents[i].booking].status \in BookingStatus
    BY <2>2, BegunBooking
  <2>4. r \in Request
    BY <2>1, <2>3, SMTT(40) DEF Request
  <2>5. api' = [api EXCEPT ![c] = r]
    BY <1>6 DEF FinalizeRead
  <2> QED
    BY <2>4, <2>5
<1>7. ASSUME Abandon(c)
      PROVE  \E r \in Request \cup {Idle} : api' = [api EXCEPT ![c] = r]
  BY <1>7 DEF Abandon
<1> QED
  BY <1>2, <1>3, <1>4, <1>5, <1>6, <1>7

(* Steps that write an intent keep the types. *)
LEMMA IntentTypeStep ==
  ASSUME TypeOK, RequestsGrounded, NEW c \in Client,
         \/ \E i \in IntentKey : CreateIntentWrite(c, i)
         \/ FinalizeRetryable(c) \/ FinalizeRejected(c) \/ FinalizeConfirmed(c)
         \/ DemoExpireWrite(c)
  PROVE  /\ intents' \in [IntentKey -> IntentRow \cup {NoIntent}]
         /\ booking' \in [Booking -> BookingRow]
         /\ txns' \in [Signature -> TxnRow \cup {NoTxn}]
         /\ receipts' \in [IntentKey -> ReceiptStatus]
         /\ api' \in [Client -> Request \cup {Idle}]
         /\ UNCHANGED <<agreement, gate, turns>>
<1> USE DEF TypeOK
<1>1. ASSUME NEW s \in BookingStatus, NEW b \in Booking
      PROVE  [booking EXCEPT ![b].status = s] \in [Booking -> BookingRow]
  BY DEF BookingRow
<1>2. ASSUME NEW s \in IntentStatus, NEW i \in IntentKey, intents[i] # NoIntent
      PROVE  [intents EXCEPT ![i].status = s] \in [IntentKey -> IntentRow \cup {NoIntent}]
  BY <1>2 DEF IntentRow
<1>3. api' = [api EXCEPT ![c] = Idle] => api' \in [Client -> Request \cup {Idle}]
  OBVIOUS
<1>4. ASSUME NEW i \in IntentKey, CreateIntentWrite(c, i)
      PROVE  /\ intents' \in [IntentKey -> IntentRow \cup {NoIntent}]
             /\ booking' \in [Booking -> BookingRow]
             /\ api' = [api EXCEPT ![c] = Idle]
             /\ UNCHANGED <<agreement, gate, txns, receipts, turns>>
  <2> DEFINE row == [status |-> "CREATED", booking |-> api[c].booking, dep |-> api[c].dep,
                     expiresAt |-> api[c].expiresAt, createdAt |-> now]
  <2>1. /\ api[c].booking \in Booking /\ api[c].dep \in Departure
        /\ api[c].expiresAt \in Nat
    BY <1>4, RequestFields DEF CreateIntentWrite
  <2>2. now \in Nat
    BY BoundsAssumption DEF InventoryTypeOK
  <2>3. row \in IntentRow
    BY <2>1, <2>2 DEF IntentRow, IntentStatus
  <2>4. intents' = [intents EXCEPT ![i] = row]
    BY <1>4 DEF CreateIntentWrite
  <2> HIDE DEF row
  <2>5. intents' \in [IntentKey -> IntentRow \cup {NoIntent}]
    BY <2>3, <2>4
  <2>6. booking' \in [Booking -> BookingRow]
    BY <1>1, <1>4, <2>1 DEF CreateIntentWrite, BookingStatus
  <2> QED
    BY <1>4, <2>5, <2>6 DEF CreateIntentWrite
<1>5. ASSUME api[c].pc = "finalizing"
      PROVE  /\ api[c].intent \in IntentKey /\ intents[api[c].intent] # NoIntent
             /\ intents[api[c].intent].booking \in Booking
             /\ api[c].sig \in Signature /\ api[c].verdict \in Verdict
  BY <1>5, RequestFields, RowFields DEF RequestsGrounded, IntentRow
<1>6. ASSUME api[c].pc = "finalizing", RecordTxn(c), api[c].verdict \in {"CONFIRMED", "REJECTED"}
      PROVE  txns' \in [Signature -> TxnRow \cup {NoTxn}]
  BY <1>5, <1>6 DEF RecordTxn, TxnRow
<1>7. CASE FinalizeRetryable(c)
  BY <1>2, <1>3, <1>5, <1>7 DEF FinalizeRetryable, SetIntent, IntentStatus
<1>8. CASE FinalizeRejected(c)
  <2>1. intents' \in [IntentKey -> IntentRow \cup {NoIntent}]
    BY <1>2, <1>5, <1>8 DEF FinalizeRejected, SetIntent, IntentStatus
  <2>2. booking' \in [Booking -> BookingRow]
    BY <1>1, <1>5, <1>8 DEF FinalizeRejected, SetBooking, BookingStatus
  <2>3. txns' \in [Signature -> TxnRow \cup {NoTxn}]
    BY <1>6, <1>8 DEF FinalizeRejected
  <2> QED
    BY <1>3, <1>8, <2>1, <2>2, <2>3 DEF FinalizeRejected
<1>9. CASE FinalizeConfirmed(c)
  <2>1. intents' \in [IntentKey -> IntentRow \cup {NoIntent}]
    BY <1>2, <1>5, <1>9 DEF FinalizeConfirmed, SetIntent, IntentStatus
  <2>2. booking' \in [Booking -> BookingRow]
    BY <1>1, <1>5, <1>9 DEF FinalizeConfirmed, SetBooking, BookingStatus
  <2>3. txns' \in [Signature -> TxnRow \cup {NoTxn}]
    BY <1>6, <1>9 DEF FinalizeConfirmed
  <2>4. receipts' \in [IntentKey -> ReceiptStatus]
    BY <1>5, <1>9 DEF FinalizeConfirmed, IssueReceipt, ReceiptStatus
  <2> QED
    BY <1>3, <1>9, <2>1, <2>2, <2>3, <2>4 DEF FinalizeConfirmed
<1>10. CASE DemoExpireWrite(c)
  <2> DEFINE i == api[c].intent
  <2>1. i \in IntentKey /\ intents[i] \in IntentRow /\ api[c].at \in Nat
    BY <1>10, RequestFields, RowFields DEF DemoExpireWrite, RequestsGrounded
  <2>2. api[c].at - 1 \in Nat
    BY <1>10, <2>1 DEF DemoExpireWrite, IntentRow
  <2>3. intents' = [intents EXCEPT ![i].expiresAt = api[c].at - 1]
    BY <1>10 DEF DemoExpireWrite
  <2>4. intents' \in [IntentKey -> IntentRow \cup {NoIntent}]
    BY <2>1, <2>2, <2>3 DEF IntentRow
  <2> QED
    BY <1>3, <1>10, <2>4 DEF DemoExpireWrite
<1> QED
  BY <1>3, <1>4, <1>7, <1>8, <1>9, <1>10

(* Every step keeps every type. *)
LEMMA TypeStep ==
  ASSUME BookingInv, [Next]_vars
  PROVE  TypeOK'
<1> USE DEF BookingInv
<1>1. InventoryTypeOK'
  BY StepRefinesInventory, InventoryTypeStep DEF TypeOK
<1>2. CASE TimePasses
  BY <1>1, <1>2 DEF TimePasses, TypeOK, paymentVars
<1>3. ASSUME NEW b \in Booking, NEW row, TermsStep(b, row)
      PROVE  /\ booking' \in [Booking -> BookingRow]
             /\ gate' \in [Booking -> PaymentGateStatus]
             /\ agreement' \in [Booking -> AgreementRow \cup {NoAgreement}]
  <2>1. \/ agreement' = agreement
        \/ \E r \in AgreementRow : agreement' = [agreement EXCEPT ![b] = r]
    BY <1>3 DEF TermsStep, LocksTerms
  <2> QED
    BY <1>3, <2>1 DEF TermsStep, TypeOK
<1>4. ASSUME NEW b \in Booking, NEW t \in Captured,
             \/ \E f \in Utterance, k \in HoldKey : TranscriptTurn(b, f, k, t)
             \/ ConfirmBooking(b, t)
      PROVE  TypeOK'
  <2>1. UNCHANGED paymentVars /\ (turns' = turns \/ (turns < MaxTurns /\ turns' = turns + 1))
    BY <1>4 DEF TranscriptTurn, ConfirmBooking
  <2>2. turns' \in 0 .. MaxTurns
    BY <2>1, TurnsAssumption DEF TypeOK
  <2>3. \E row : TermsStep(b, row)
    BY <1>4, TurnEffect, ConfirmEffect
  <2> QED
    BY <1>1, <1>3, <2>1, <2>2, <2>3 DEF TypeOK, paymentVars
<1>5. ASSUME NEW c \in Client,
             \/ \E b \in Booking, t \in Captured : CreateIntentRead(c, b, t)
             \/ \E i \in IntentKey : DemoExpireRead(c, i)
             \/ \E i \in IntentKey, s \in Signature, t \in Captured : VerifyBegin(c, i, s, t)
             \/ \E v \in Verdict : FinalizeRead(c, v)
             \/ Abandon(c)
      PROVE  TypeOK'
  <2>1. UNCHANGED <<booking, agreement, gate, intents, txns, receipts, turns>>
    BY <1>5 DEF CreateIntentRead, DemoExpireRead, VerifyBegin, FinalizeRead, Abandon
  <2>2. api' \in [Client -> Request \cup {Idle}]
    BY <1>5, RequestTypeStep
  <2> QED
    BY <1>1, <2>1, <2>2 DEF TypeOK
<1>6. ASSUME NEW c \in Client,
             \/ \E i \in IntentKey : CreateIntentWrite(c, i)
             \/ FinalizeRetryable(c) \/ FinalizeRejected(c) \/ FinalizeConfirmed(c)
             \/ DemoExpireWrite(c)
      PROVE  TypeOK'
  BY <1>1, <1>6, IntentTypeStep DEF TypeOK
<1>7. ASSUME NEW i \in IntentKey, NEW deposit \in CandidateDeposit,
             VerifyReceiptTamper(i, deposit)
      PROVE  TypeOK'
  <2>1. receipts' \in [IntentKey -> ReceiptStatus]
    BY <1>7 DEF VerifyReceiptTamper, ReceiptStatus, TypeOK
  <2>2. intents[i].booking \in Booking
    BY <1>7, RowFields DEF VerifyReceiptTamper, ReceiptsHaveIntents, Paid, IntentRow
  <2>3. booking' \in [Booking -> BookingRow]
    <3> DEFINE b == intents[i].booking
    <3>1. booking' = [booking EXCEPT ![b] = [booking[b] EXCEPT !.status = "MANUAL_REVIEW_REQUIRED"]]
      BY <1>7 DEF VerifyReceiptTamper, SetBooking
    <3>2. booking \in [Booking -> BookingRow] /\ b \in Booking
      BY <2>2 DEF TypeOK
    <3> HIDE DEF b
    <3>3. [booking[b] EXCEPT !.status = "MANUAL_REVIEW_REQUIRED"] \in BookingRow
      BY <3>2 DEF BookingRow, BookingStatus
    <3> QED
      BY <3>1, <3>2, <3>3
  <2> QED
    BY <1>1, <1>7, <2>1, <2>3 DEF VerifyReceiptTamper, TypeOK
<1>8. CASE UNCHANGED vars
  BY <1>1, <1>8 DEF vars, TypeOK
<1> QED
  BY <1>2, <1>4, <1>5, <1>6, <1>7, <1>8 DEF Next
-----------------------------------------------------------------------------
(***************************************************************************)
(* What a step may do to a booking, an intent and a request.               *)
(***************************************************************************)
(* The rows a payment request works on. *)
LEMMA RequestRows ==
  ASSUME BookingInv, NEW c \in Client
  PROVE  /\ api[c].pc = "creating" =>
              /\ api[c].booking \in Booking
              /\ agreement[api[c].booking] # NoAgreement
         /\ api[c].pc \in {"asking", "finalizing", "expiring"} =>
              /\ api[c].intent \in IntentKey
              /\ intents[api[c].intent] # NoIntent
              /\ intents[api[c].intent] \in IntentRow
              /\ intents[api[c].intent].booking \in Booking
              /\ agreement[intents[api[c].intent].booking] # NoAgreement
  BY RequestFields, RowFields DEF BookingInv, RequestsGrounded, IntentsAgreed, IntentRow

(* Everything else leaves the agreements alone and at most gives a booking *)
(* with one the status its rows call for.                                  *)
LEMMA PaymentSteps ==
  ASSUME BookingInv, [Next]_vars
  PROVE  \/ \E b \in Booking : \E row : TermsStep(b, row)
         \/ booking' = booking /\ agreement' = agreement
         \/ \E b \in Booking, s \in BookingStatus :
              /\ booking' = [booking EXCEPT ![b].status = s]
              /\ agreement' = agreement
              /\ agreement[b] # NoAgreement
              /\ \/ /\ s = "PAYMENT_PENDING"
                    /\ \E c \in Client, i \in IntentKey :
                         CreateIntentWrite(c, i) /\ api[c].booking = b
                 \/ /\ s = "RECEIPT_ISSUED"
                    /\ \E c \in Client :
                         FinalizeConfirmed(c) /\ intents[api[c].intent].booking = b
                 \/ s = "MANUAL_REVIEW_REQUIRED"
<1>1. ASSUME NEW b \in Booking, NEW t \in Captured,
             \/ \E f \in Utterance, k \in HoldKey : TranscriptTurn(b, f, k, t)
             \/ ConfirmBooking(b, t)
      PROVE  \E row : TermsStep(b, row)
  BY <1>1, TurnEffect, ConfirmEffect DEF BookingInv
<1>2. ASSUME \/ TimePasses
             \/ \E c \in Client, b \in Booking, t \in Captured : CreateIntentRead(c, b, t)
             \/ \E c \in Client, i \in IntentKey : DemoExpireRead(c, i)
             \/ \E c \in Client, i \in IntentKey, s \in Signature, t \in Captured :
                  VerifyBegin(c, i, s, t)
             \/ \E c \in Client, v \in Verdict : FinalizeRead(c, v)
             \/ \E c \in Client :
                  FinalizeRetryable(c) \/ DemoExpireWrite(c) \/ Abandon(c)
             \/ UNCHANGED vars
      PROVE  booking' = booking /\ agreement' = agreement
  BY <1>2 DEF TimePasses, CreateIntentRead, DemoExpireRead, VerifyBegin, FinalizeRead,
              FinalizeRetryable, DemoExpireWrite, Abandon, vars
<1>3. {"PAYMENT_PENDING", "RECEIPT_ISSUED", "MANUAL_REVIEW_REQUIRED"} \subseteq BookingStatus
  BY DEF BookingStatus
<1>4. ASSUME NEW c \in Client, NEW i \in IntentKey, CreateIntentWrite(c, i)
      PROVE  /\ api[c].booking \in Booking
             /\ booking' = [booking EXCEPT ![api[c].booking].status = "PAYMENT_PENDING"]
             /\ agreement' = agreement
             /\ agreement[api[c].booking] # NoAgreement
  BY <1>4, RequestRows DEF CreateIntentWrite
<1>5. ASSUME NEW c \in Client, FinalizeConfirmed(c)
      PROVE  /\ intents[api[c].intent].booking \in Booking
             /\ booking' = [booking EXCEPT ![intents[api[c].intent].booking].status =
                              "RECEIPT_ISSUED"]
             /\ agreement' = agreement
             /\ agreement[intents[api[c].intent].booking] # NoAgreement
  BY <1>5, RequestRows DEF FinalizeConfirmed, SetBooking
<1>6. ASSUME NEW c \in Client, FinalizeRejected(c)
      PROVE  /\ intents[api[c].intent].booking \in Booking
             /\ booking' = [booking EXCEPT ![intents[api[c].intent].booking].status =
                              "MANUAL_REVIEW_REQUIRED"]
             /\ agreement' = agreement
             /\ agreement[intents[api[c].intent].booking] # NoAgreement
  BY <1>6, RequestRows DEF FinalizeRejected, SetBooking
<1>7. ASSUME NEW i \in IntentKey, NEW deposit \in CandidateDeposit,
             VerifyReceiptTamper(i, deposit)
      PROVE  /\ intents[i].booking \in Booking
             /\ booking' = [booking EXCEPT ![intents[i].booking].status =
                              "MANUAL_REVIEW_REQUIRED"]
             /\ agreement' = agreement
             /\ agreement[intents[i].booking] # NoAgreement
  BY <1>7, RowFields DEF VerifyReceiptTamper, SetBooking, BookingInv, ReceiptsHaveIntents,
                         Paid, IntentsAgreed, IntentRow
<1> QED
  BY <1>1, <1>2, <1>3, <1>4, <1>5, <1>6, <1>7 DEF Next

(* A booking's status and agreement, before and after a step. *)
LEMMA BookingCases ==
  ASSUME BookingInv, [Next]_vars, NEW b \in Booking
  PROVE  /\ booking[b].dep # None => booking'[b].dep # None
         /\ \/ /\ agreement'[b] = agreement[b]
               /\ \/ booking'[b].status = booking[b].status
                  \/ {booking'[b].status, booking[b].status} \cap AgreedStatus = {}
            \/ /\ agreement[b] = NoAgreement
               /\ agreement'[b] \in AgreementRow
               /\ holds'[agreement'[b].hold].status = "ACTIVE"
               /\ holds'[agreement'[b].hold].booking = b
               /\ booking'[b].status = "AGREEMENT_LOCKED"
               /\ booking'[b].dep # None
            \/ /\ agreement[b] # NoAgreement
               /\ agreement'[b] = agreement[b]
               /\ \/ /\ booking'[b].status = "PAYMENT_PENDING"
                     /\ \E c \in Client, i \in IntentKey :
                          CreateIntentWrite(c, i) /\ api[c].booking = b
                  \/ /\ booking'[b].status = "RECEIPT_ISSUED"
                     /\ \E c \in Client :
                          FinalizeConfirmed(c) /\ intents[api[c].intent].booking = b
                  \/ booking'[b].status = "MANUAL_REVIEW_REQUIRED"
<1>1. /\ booking \in [Booking -> BookingRow]
      /\ agreement \in [Booking -> AgreementRow \cup {NoAgreement}]
      /\ StatusEvidence
  BY DEF BookingInv, TypeOK
<1>2. ASSUME NEW a \in Booking, NEW row, TermsStep(a, row), a # b
      PROVE  booking'[b] = booking[b] /\ agreement'[b] = agreement[b]
  BY <1>1, <1>2 DEF TermsStep, LocksTerms
<1>3. ASSUME NEW row, TermsStep(b, row)
      PROVE  /\ booking[b].dep # None => booking'[b].dep # None
             /\ \/ /\ agreement'[b] = agreement[b]
                   /\ \/ booking'[b].status = booking[b].status
                      \/ {booking'[b].status, booking[b].status} \cap AgreedStatus = {}
                \/ /\ agreement[b] = NoAgreement
                   /\ agreement'[b] \in AgreementRow
                   /\ holds'[agreement'[b].hold].status = "ACTIVE"
                   /\ holds'[agreement'[b].hold].booking = b
                   /\ booking'[b].status = "AGREEMENT_LOCKED"
                   /\ booking'[b].dep # None
  <2>1. booking'[b] = row
    BY <1>1, <1>3 DEF TermsStep
  <2>2. ASSUME booking[b].status \notin AgreedStatus, row.status = "AGREEMENT_LOCKED",
               NEW j \in HoldKey, NEW t \in Captured, LocksTerms(b, row, j, t)
        PROVE  /\ agreement[b] = NoAgreement
               /\ agreement'[b] \in AgreementRow
               /\ holds'[agreement'[b].hold].status = "ACTIVE"
               /\ holds'[agreement'[b].hold].booking = b
               /\ row.dep # None
    <3>1. agreement[b] = NoAgreement
      BY <1>1, <2>2 DEF StatusEvidence, AgreedStatus
    <3>2. agreement'[b] = [hold |-> j, dep |-> row.dep, pax |-> row.pax]
      BY <1>1, <2>2 DEF LocksTerms
    <3>3. row.dep \in Departure
      BY <2>2 DEF LocksTerms, AgreementRow
    <3> QED
      BY <2>2, <3>1, <3>2, <3>3, CatalogueAssumption DEF LocksTerms, IsActiveFor
  <2> QED
    BY <1>3, <2>1, <2>2 DEF TermsStep
<1>4. CASE booking' = booking /\ agreement' = agreement
  BY <1>4
<1>5. ASSUME NEW a \in Booking, NEW s \in BookingStatus,
             booking' = [booking EXCEPT ![a].status = s], agreement' = agreement,
             agreement[a] # NoAgreement
      PROVE  /\ booking'[b].dep = booking[b].dep
             /\ a # b => booking'[b] = booking[b]
             /\ a = b => booking'[b].status = s
  BY <1>1, <1>5 DEF BookingRow
<1> QED
  BY <1>2, <1>3, <1>4, <1>5, PaymentSteps

(* A row of payment_intents, before and after a step. *)
IntentUpdated(i, s) ==
  /\ intents[i] \in IntentRow
  /\ intents' = [intents EXCEPT ![i].status = s]

(* What a step may do to payment_intents. *)
LEMMA IntentSteps ==
  ASSUME BookingInv, [Next]_vars
  PROVE  \/ intents' = intents
         \/ \E c \in Client, i \in IntentKey :
              /\ CreateIntentWrite(c, i)
              /\ intents[i] = NoIntent
              /\ intents' = [intents EXCEPT ![i] =
                               [status |-> "CREATED", booking |-> api[c].booking,
                                dep |-> api[c].dep, expiresAt |-> api[c].expiresAt,
                                createdAt |-> now]]
         \/ \E c \in Client :
              /\ api[c].intent \in IntentKey
              /\ \/ \E s \in OpenStatus : IntentUpdated(api[c].intent, s)
                 \/ FinalizeRejected(c) /\ IntentUpdated(api[c].intent, "REJECTED")
                 \/ FinalizeConfirmed(c) /\ IntentUpdated(api[c].intent, "CONFIRMED")
         \/ \E c \in Client :
              /\ api[c].intent \in IntentKey
              /\ intents[api[c].intent] \in IntentRow
              /\ api[c].at \in Nat /\ api[c].at <= now
              /\ intents' = [intents EXCEPT ![api[c].intent].expiresAt = api[c].at - 1]
<1>1. ASSUME \/ \E b \in Booking, t \in Captured, f \in Utterance, k \in HoldKey :
                  TranscriptTurn(b, f, k, t)
             \/ \E b \in Booking, t \in Captured : ConfirmBooking(b, t)
             \/ TimePasses
             \/ UNCHANGED vars
      PROVE  intents' = intents
  <2>1. ASSUME NEW b \in Booking, NEW t \in Captured, NEW f \in Utterance, NEW k \in HoldKey,
               TranscriptTurn(b, f, k, t)
        PROVE  UNCHANGED paymentVars
    BY <2>1 DEF TranscriptTurn
  <2>2. ASSUME NEW b \in Booking, NEW t \in Captured, ConfirmBooking(b, t)
        PROVE  UNCHANGED paymentVars
    BY <2>2 DEF ConfirmBooking
  <2>3. TimePasses => UNCHANGED paymentVars
    BY DEF TimePasses
  <2> QED
    BY <1>1, <2>1, <2>2, <2>3 DEF paymentVars, vars
<1>7. ASSUME \/ \E c \in Client, b \in Booking, t \in Captured : CreateIntentRead(c, b, t)
             \/ \E c \in Client, i \in IntentKey : DemoExpireRead(c, i)
             \/ \E c \in Client, i \in IntentKey, s \in Signature, t \in Captured :
                  VerifyBegin(c, i, s, t)
             \/ \E c \in Client, v \in Verdict : FinalizeRead(c, v)
             \/ \E c \in Client : Abandon(c)
             \/ \E i \in IntentKey, deposit \in CandidateDeposit : VerifyReceiptTamper(i, deposit)
      PROVE  intents' = intents
  BY <1>7 DEF CreateIntentRead, DemoExpireRead, VerifyBegin, FinalizeRead, Abandon,
              VerifyReceiptTamper
<1>2. ASSUME NEW c \in Client, NEW i \in IntentKey, CreateIntentWrite(c, i)
      PROVE  /\ intents[i] = NoIntent
             /\ intents' = [intents EXCEPT ![i] =
                              [status |-> "CREATED", booking |-> api[c].booking,
                               dep |-> api[c].dep, expiresAt |-> api[c].expiresAt,
                               createdAt |-> now]]
  BY <1>2 DEF CreateIntentWrite
<1>3. ASSUME NEW c \in Client, FinalizeRetryable(c)
      PROVE  /\ api[c].intent \in IntentKey
             /\ \E s \in OpenStatus : IntentUpdated(api[c].intent, s)
  BY <1>3, RequestRows DEF FinalizeRetryable, SetIntent, IntentUpdated, OpenStatus
<1>4. ASSUME NEW c \in Client, FinalizeRejected(c)
      PROVE  api[c].intent \in IntentKey /\ IntentUpdated(api[c].intent, "REJECTED")
  BY <1>4, RequestRows DEF FinalizeRejected, SetIntent, IntentUpdated
<1>5. ASSUME NEW c \in Client, FinalizeConfirmed(c)
      PROVE  api[c].intent \in IntentKey /\ IntentUpdated(api[c].intent, "CONFIRMED")
  BY <1>5, RequestRows DEF FinalizeConfirmed, SetIntent, IntentUpdated
<1>6. ASSUME NEW c \in Client, DemoExpireWrite(c)
      PROVE  /\ api[c].intent \in IntentKey
             /\ intents[api[c].intent] \in IntentRow
             /\ api[c].at \in Nat /\ api[c].at <= now
             /\ intents' = [intents EXCEPT ![api[c].intent].expiresAt = api[c].at - 1]
  BY <1>6, RequestRows, RequestFields DEF DemoExpireWrite, BookingInv, RequestsGrounded
<1> QED
  BY <1>1, <1>2, <1>3, <1>4, <1>5, <1>6, <1>7 DEF Next

(* An intent keeps its booking, and its expiry is only ever brought        *)
(* forward to a time that is past; it is inserted by CreateIntentWrite     *)
(* alone, and leaves the open statuses by a verdict alone.                 *)
LEMMA IntentCases ==
  ASSUME BookingInv, [Next]_vars, NEW i \in IntentKey
  PROVE  /\ intents[i] # NoIntent =>
              /\ intents'[i] # NoIntent
              /\ intents'[i].booking = intents[i].booking
              /\ \/ intents'[i].expiresAt = intents[i].expiresAt
                 \/ intents'[i].expiresAt < now
         /\ (intents[i] = NoIntent /\ intents'[i] # NoIntent) =>
              \E c \in Client : /\ CreateIntentWrite(c, i)
                                /\ intents'[i].status = "CREATED"
                                /\ intents'[i].booking = api[c].booking
                                /\ intents'[i].expiresAt = api[c].expiresAt
         /\ (Open(i) /\ ~Open(i)') =>
              \E c \in Client : /\ api[c].intent = i
                                /\ FinalizeRejected(c) \/ FinalizeConfirmed(c)
<1>1. intents \in [IntentKey -> IntentRow \cup {NoIntent}] /\ now \in Nat
  BY BoundsAssumption DEF BookingInv, TypeOK, InventoryTypeOK
<1>2. CASE intents' = intents
  BY <1>2 DEF Open
<1>3. ASSUME NEW c \in Client, NEW j \in IntentKey, CreateIntentWrite(c, j),
             intents[j] = NoIntent,
             intents' = [intents EXCEPT ![j] =
                           [status |-> "CREATED", booking |-> api[c].booking,
                            dep |-> api[c].dep, expiresAt |-> api[c].expiresAt,
                            createdAt |-> now]]
      PROVE  /\ j # i => intents'[i] = intents[i]
             /\ j = i => /\ intents[i] = NoIntent
                         /\ intents'[i].status = "CREATED"
                         /\ intents'[i].booking = api[c].booking
                         /\ intents'[i].expiresAt = api[c].expiresAt
  BY <1>1, <1>3
<1>4. ASSUME NEW j \in IntentKey, NEW s, IntentUpdated(j, s)
      PROVE  /\ j # i => intents'[i] = intents[i]
             /\ j = i => /\ intents[i] \in IntentRow
                         /\ intents'[i] # NoIntent
                         /\ intents'[i].status = s
                         /\ intents'[i].booking = intents[i].booking
                         /\ intents'[i].expiresAt = intents[i].expiresAt
  BY <1>1, <1>4 DEF IntentUpdated, IntentRow, NoIntent
<1>5. ASSUME NEW j \in IntentKey, NEW e, intents[j] \in IntentRow, e \in Int, e < now,
             intents' = [intents EXCEPT ![j].expiresAt = e]
      PROVE  /\ j # i => intents'[i] = intents[i]
             /\ j = i => /\ intents[i] \in IntentRow
                         /\ intents'[i] # NoIntent
                         /\ intents'[i].status = intents[i].status
                         /\ intents'[i].booking = intents[i].booking
                         /\ intents'[i].expiresAt < now
  BY <1>1, <1>5 DEF IntentRow, NoIntent
<1>6. NoIntent \notin IntentRow /\ NoIntent.status \notin OpenStatus
  BY DEF NoIntent, IntentRow, OpenStatus
<1>7. ASSUME NEW c \in Client, NEW j \in IntentKey,
             \/ \E s \in OpenStatus : IntentUpdated(j, s)
             \/ FinalizeRejected(c) /\ IntentUpdated(j, "REJECTED")
             \/ FinalizeConfirmed(c) /\ IntentUpdated(j, "CONFIRMED")
      PROVE  /\ j # i => intents'[i] = intents[i]
             /\ j = i => /\ intents[i] # NoIntent
                         /\ intents'[i] # NoIntent
                         /\ intents'[i].booking = intents[i].booking
                         /\ intents'[i].expiresAt = intents[i].expiresAt
                         /\ \/ intents'[i].status \in OpenStatus
                            \/ FinalizeRejected(c) \/ FinalizeConfirmed(c)
  BY <1>4, <1>6, <1>7
<1>8. ASSUME NEW c \in Client, api[c].intent \in IntentKey,
             intents[api[c].intent] \in IntentRow, api[c].at \in Nat, api[c].at <= now,
             intents' = [intents EXCEPT ![api[c].intent].expiresAt = api[c].at - 1]
      PROVE  /\ api[c].intent # i => intents'[i] = intents[i]
             /\ api[c].intent = i => /\ intents[i] \in IntentRow
                                     /\ intents'[i] # NoIntent
                                     /\ intents'[i].status = intents[i].status
                                     /\ intents'[i].booking = intents[i].booking
                                     /\ intents'[i].expiresAt < now
  <2>1. api[c].at - 1 \in Int /\ api[c].at - 1 < now
    BY <1>1, <1>8
  <2> QED
    BY <1>5, <1>8, <2>1
<1> QED
  BY <1>2, <1>3, <1>6, <1>7, <1>8, IntentSteps DEF Open

(* Transactions and receipts: rejected, confirmed with its receipt, or     *)
(* found to mismatch.                                                      *)
LEMMA ReceiptSteps ==
  ASSUME BookingInv, [Next]_vars
  PROVE  \/ UNCHANGED <<txns, receipts>>
         \/ \E s \in Signature, i \in IntentKey :
              /\ txns[s] = NoTxn
              /\ txns' = [txns EXCEPT ![s] = [verdict |-> "REJECTED", intent |-> i]]
              /\ receipts' = receipts
         \/ \E s \in Signature, c \in Client :
              /\ FinalizeConfirmed(c)
              /\ api[c].intent \in IntentKey
              /\ txns[s] = NoTxn
              /\ receipts[api[c].intent] = "NOT_CREATED"
              /\ txns' = [txns EXCEPT ![s] = [verdict |-> "CONFIRMED", intent |-> api[c].intent]]
              /\ receipts' = [receipts EXCEPT ![api[c].intent] = "VERIFIED_MATCH"]
         \/ \E i \in IntentKey :
              /\ Paid(i)
              /\ txns' = txns
              /\ receipts' = [receipts EXCEPT ![i] = "MISMATCH"]
<1>1. ASSUME NEW b \in Booking, NEW t \in Captured, NEW f \in Utterance, NEW k \in HoldKey,
             TranscriptTurn(b, f, k, t)
      PROVE  UNCHANGED <<txns, receipts>>
  BY <1>1 DEF TranscriptTurn, paymentVars
<1>2. ASSUME NEW b \in Booking, NEW t \in Captured, ConfirmBooking(b, t)
      PROVE  UNCHANGED <<txns, receipts>>
  BY <1>2 DEF ConfirmBooking, paymentVars
<1>3. TimePasses \/ UNCHANGED vars => UNCHANGED <<txns, receipts>>
  BY DEF TimePasses, paymentVars, vars
<1>4. ASSUME \/ \E c \in Client, b \in Booking, t \in Captured : CreateIntentRead(c, b, t)
             \/ \E c \in Client, i \in IntentKey :
                  CreateIntentWrite(c, i) \/ DemoExpireRead(c, i)
             \/ \E c \in Client, i \in IntentKey, s \in Signature, t \in Captured :
                  VerifyBegin(c, i, s, t)
             \/ \E c \in Client, v \in Verdict : FinalizeRead(c, v)
             \/ \E c \in Client : FinalizeRetryable(c) \/ DemoExpireWrite(c) \/ Abandon(c)
      PROVE  UNCHANGED <<txns, receipts>>
  BY <1>4 DEF CreateIntentRead, CreateIntentWrite, DemoExpireRead, VerifyBegin, FinalizeRead,
              FinalizeRetryable, DemoExpireWrite, Abandon
<1>5. ASSUME NEW c \in Client, FinalizeRejected(c)
      PROVE  \/ UNCHANGED <<txns, receipts>>
             \/ \E s \in Signature, i \in IntentKey :
                  /\ txns[s] = NoTxn
                  /\ txns' = [txns EXCEPT ![s] = [verdict |-> "REJECTED", intent |-> i]]
                  /\ receipts' = receipts
  <2>1. api[c].sig \in Signature /\ api[c].intent \in IntentKey
    BY <1>5, RequestFields DEF FinalizeRejected, BookingInv
  <2>2. \/ UNCHANGED <<txns, receipts>>
        \/ /\ txns[api[c].sig] = NoTxn
           /\ txns' = [txns EXCEPT ![api[c].sig] =
                         [verdict |-> "REJECTED", intent |-> api[c].intent]]
           /\ receipts' = receipts
    BY <1>5 DEF FinalizeRejected, RecordTxn
  <2> QED
    BY <2>1, <2>2
<1>6. ASSUME NEW c \in Client, FinalizeConfirmed(c)
      PROVE  /\ api[c].intent \in IntentKey /\ api[c].sig \in Signature
             /\ txns[api[c].sig] = NoTxn
             /\ receipts[api[c].intent] = "NOT_CREATED"
             /\ txns' = [txns EXCEPT ![api[c].sig] =
                           [verdict |-> "CONFIRMED", intent |-> api[c].intent]]
             /\ receipts' = [receipts EXCEPT ![api[c].intent] = "VERIFIED_MATCH"]
  <2>1. api[c].sig \in Signature /\ api[c].intent \in IntentKey
    BY <1>6, RequestFields DEF FinalizeConfirmed, BookingInv
  <2> QED
    BY <1>6, <2>1 DEF FinalizeConfirmed, RecordTxn, IssueReceipt
<1>7. ASSUME NEW i \in IntentKey, NEW deposit \in CandidateDeposit,
             VerifyReceiptTamper(i, deposit)
      PROVE  /\ Paid(i) /\ txns' = txns
             /\ receipts' = [receipts EXCEPT ![i] = "MISMATCH"]
  BY <1>7 DEF VerifyReceiptTamper, Paid
<1> QED
  BY <1>1, <1>2, <1>3, <1>4, <1>5, <1>6, <1>7, ZenonT(60) DEF Next

(* A receipt stays, and is issued by a confirmed payment. *)
LEMMA ReceiptCases ==
  ASSUME BookingInv, [Next]_vars, NEW i \in IntentKey
  PROVE  /\ Paid(i) => Paid(i)'
         /\ (Paid(i)' /\ ~Paid(i)) =>
              \E c \in Client : FinalizeConfirmed(c) /\ api[c].intent = i
         /\ \A c \in Client : (FinalizeConfirmed(c) /\ api[c].intent = i) => Paid(i)'
<1>1. receipts \in [IntentKey -> ReceiptStatus]
  BY DEF BookingInv, TypeOK
<1>2. ASSUME NEW c \in Client, FinalizeConfirmed(c), api[c].intent = i
      PROVE  Paid(i)'
  BY <1>1, <1>2 DEF FinalizeConfirmed, IssueReceipt, Paid
<1> QED
  BY <1>1, <1>2, ReceiptSteps DEF Paid

(* A request moves on with what it has read of the rows as they are. *)
LEMMA RequestCases ==
  ASSUME BookingInv, [Next]_vars, NEW c \in Client
  PROVE  \/ api'[c] = api[c]
         \/ api'[c] = Idle
         \/ /\ UNCHANGED <<holds, now, agreement>>
            /\ api'[c].pc = "creating"
            /\ api'[c].booking \in Booking
            /\ agreement[api'[c].booking] # NoAgreement
            /\ \E k \in HoldKey, t \in Captured :
                 /\ IsActiveFor(holds[k], api'[c].booking, t)
                 /\ holds[k].expiresAt >= api'[c].expiresAt
         \/ /\ UNCHANGED <<holds, now, intents>>
            /\ api'[c].pc \in {"asking", "finalizing", "expiring"}
            /\ api'[c].intent \in IntentKey
            /\ intents[api'[c].intent] # NoIntent
            /\ api'[c].pc = "expiring" => api'[c].at = now
<1>1. api \in [Client -> Request \cup {Idle}]
  BY DEF BookingInv, TypeOK
<1>2. ASSUME NEW b \in Booking, NEW t \in Captured, NEW f \in Utterance, NEW k \in HoldKey,
             TranscriptTurn(b, f, k, t)
      PROVE  api' = api
  BY <1>2 DEF TranscriptTurn, paymentVars
<1>3. ASSUME NEW b \in Booking, NEW t \in Captured, ConfirmBooking(b, t)
      PROVE  api' = api
  BY <1>3 DEF ConfirmBooking, paymentVars
<1>4. ASSUME \/ TimePasses
             \/ \E i \in IntentKey, deposit \in CandidateDeposit : VerifyReceiptTamper(i, deposit)
             \/ UNCHANGED vars
      PROVE  api' = api
  BY <1>4 DEF TimePasses, VerifyReceiptTamper, paymentVars, vars
<1>5. ASSUME NEW d \in Client,
             \/ \E i \in IntentKey : CreateIntentWrite(d, i)
             \/ FinalizeRetryable(d) \/ FinalizeRejected(d) \/ FinalizeConfirmed(d)
             \/ DemoExpireWrite(d) \/ Abandon(d)
      PROVE  api'[c] = api[c] \/ api'[c] = Idle
  <2>1. api' = [api EXCEPT ![d] = Idle]
    BY <1>5 DEF CreateIntentWrite, FinalizeRetryable, FinalizeRejected, FinalizeConfirmed,
                DemoExpireWrite, Abandon
  <2> QED
    BY <1>1, <2>1
<1>6. ASSUME NEW d \in Client, NEW b \in Booking, NEW t \in Captured, CreateIntentRead(d, b, t)
      PROVE  \/ api'[c] = api[c]
             \/ /\ UNCHANGED <<holds, now, agreement>>
                /\ api'[c].pc = "creating"
                /\ api'[c].booking \in Booking
                /\ agreement[api'[c].booking] # NoAgreement
                /\ \E k \in HoldKey :
                     /\ IsActiveFor(holds[k], api'[c].booking, t)
                     /\ holds[k].expiresAt >= api'[c].expiresAt
  <2>1. /\ agreement[b] # NoAgreement
        /\ \E e \in Nat :
             /\ \E k \in HoldKey : IsActiveFor(holds[k], b, t) /\ holds[k].expiresAt >= e
             /\ api' = [api EXCEPT ![d] =
                          [pc |-> "creating", booking |-> b, dep |-> booking[b].dep,
                           expiresAt |-> e, bookingStatus |-> booking[b].status]]
    BY <1>6, CreateIntentReadEffect DEF BookingInv
  <2>2. UNCHANGED <<holds, now, agreement>>
    BY <1>6 DEF CreateIntentRead
  <2> QED
    BY <1>1, <2>1, <2>2
<1>7. ASSUME NEW d \in Client, NEW i \in IntentKey,
             \/ DemoExpireRead(d, i)
             \/ \E s \in Signature, t \in Captured : VerifyBegin(d, i, s, t)
      PROVE  \/ api'[c] = api[c]
             \/ /\ UNCHANGED <<holds, now, intents>>
                /\ api'[c].pc \in {"asking", "expiring"}
                /\ api'[c].intent = i
                /\ intents[i] # NoIntent
                /\ api'[c].pc = "expiring" => api'[c].at = now
  <2>1. intents[i] # NoIntent
    BY <1>7 DEF DemoExpireRead, VerifyBegin, NoIntent
  <2> QED
    BY <1>1, <1>7, <2>1 DEF DemoExpireRead, VerifyBegin
<1>8. ASSUME NEW d \in Client, NEW v \in Verdict, FinalizeRead(d, v)
      PROVE  \/ api'[c] = api[c]
             \/ /\ UNCHANGED <<holds, now, intents>>
                /\ api'[c].pc = "finalizing"
                /\ api'[c].intent \in IntentKey
                /\ intents[api'[c].intent] # NoIntent
  BY <1>1, <1>8, RequestRows DEF FinalizeRead
<1> QED
  BY <1>2, <1>3, <1>4, <1>5, <1>6, <1>7, <1>8 DEF Next
-----------------------------------------------------------------------------
(***************************************************************************)
(* The inductive invariant.                                                *)
(***************************************************************************)
(* An agreement is never withdrawn or changed. *)
LEMMA AgreementKept ==
  ASSUME BookingInv, [Next]_vars, NEW b \in Booking, agreement[b] # NoAgreement
  PROVE  agreement'[b] = agreement[b]
  BY BookingCases

(* Agreements, intents, receipts and requests go on pointing at what is    *)
(* there.                                                                  *)
LEMMA NothingDangles ==
  ASSUME BookingInv, [Next]_vars
  PROVE  AgreedTerms' /\ IntentsAgreed' /\ ReceiptsHaveIntents' /\ RequestsGrounded'
<1> TypeOK /\ RequestsGrounded
  BY DEF BookingInv
<1>1. ASSUME NEW b \in Booking, agreement'[b] # NoAgreement
      PROVE  booking'[b].dep # None /\ holds'[agreement'[b].hold] # NoHold
  <2>1. CASE agreement[b] # NoAgreement
    <3>1. /\ agreement'[b] = agreement[b] /\ agreement[b].hold \in HoldKey
          /\ booking[b].dep # None /\ holds[agreement[b].hold] # NoHold
      BY <2>1, AgreementKept, RowFields DEF BookingInv, AgreedTerms, AgreementRow
    <3> QED
      BY <3>1, BookingCases, HoldsKept
  <2>2. CASE agreement[b] = NoAgreement
    BY <1>1, <2>2, BookingCases DEF NoHold
  <2> QED
    BY <2>1, <2>2
<1>2. ASSUME NEW i \in IntentKey, intents'[i] # NoIntent
      PROVE  agreement'[intents'[i].booking] # NoAgreement
  <2>1. CASE intents[i] # NoIntent
    <3>1. /\ intents'[i].booking = intents[i].booking /\ intents[i].booking \in Booking
          /\ agreement[intents[i].booking] # NoAgreement
      BY <2>1, IntentCases, RowFields DEF BookingInv, IntentsAgreed, IntentRow
    <3> QED
      BY <3>1, AgreementKept
  <2>2. CASE intents[i] = NoIntent
    <3>1. PICK c \in Client :
            CreateIntentWrite(c, i) /\ intents'[i].booking = api[c].booking
      BY <1>2, <2>2, IntentCases
    <3>2. api[c].booking \in Booking /\ agreement[api[c].booking] # NoAgreement
      BY <3>1, RequestRows DEF CreateIntentWrite
    <3> QED
      BY <3>1, <3>2, AgreementKept
  <2> QED
    BY <2>1, <2>2
<1>3. ASSUME NEW i \in IntentKey, Paid(i)'
      PROVE  intents'[i] # NoIntent
  <2>1. intents[i] # NoIntent
    BY <1>3, ReceiptCases, RequestRows DEF BookingInv, ReceiptsHaveIntents, FinalizeConfirmed
  <2> QED
    BY <2>1, IntentCases
<1>4. ASSUME NEW c \in Client
      PROVE  /\ api'[c].pc = "creating" => agreement'[api'[c].booking] # NoAgreement
             /\ api'[c].pc \in {"asking", "finalizing", "expiring"} =>
                  intents'[api'[c].intent] # NoIntent
             /\ api'[c].pc = "expiring" => api'[c].at <= now'
  <2>1. now \in Nat /\ now' \in Nat /\ now' >= now
    BY ClockStep
  <2>2. CASE api'[c] = api[c]
    <3>1. api[c].pc = "creating" => agreement'[api[c].booking] # NoAgreement
      BY RequestRows, AgreementKept
    <3>2. api[c].pc \in {"asking", "finalizing", "expiring"} =>
            intents'[api[c].intent] # NoIntent
      BY RequestRows, IntentCases
    <3>3. api[c].pc = "expiring" => api[c].at <= now'
      BY <2>1, RequestFields DEF RequestsGrounded
    <3> QED
      BY <2>2, <3>1, <3>2, <3>3
  <2> QED
    BY <2>1, <2>2, RequestCases DEF Idle
<1> QED
  BY <1>1, <1>2, <1>3, <1>4 DEF AgreedTerms, IntentsAgreed, ReceiptsHaveIntents, RequestsGrounded

(* Seats that last until e are not taken away before. *)
StaysCovered(b, e) ==
  e > now' => \E k \in HoldKey : /\ holds'[k].status \in {"ACTIVE", "CONSUMED"}
                                 /\ holds'[k].booking = b
                                 /\ holds'[k].expiresAt >= e

(* No step takes them away: not a sweep, not another booking's hold. *)
LEMMA CoverKept ==
  ASSUME BookingInv, [Next]_vars, NEW b, NEW e \in Nat, Covered(b, e)
  PROVE  StaysCovered(b, e)
<1>1. TypeOK /\ RequestsGrounded
  BY DEF BookingInv
<1>2. now \in Nat /\ now' \in Nat /\ now' >= now
  BY <1>1, ClockStep
<1> SUFFICES ASSUME e > now'
             PROVE  \E k \in HoldKey : /\ holds'[k].status \in {"ACTIVE", "CONSUMED"}
                                       /\ holds'[k].booking = b
                                       /\ holds'[k].expiresAt >= e
  BY DEF StaysCovered
<1>3. PICK k \in HoldKey : /\ holds[k].status \in {"ACTIVE", "CONSUMED"}
                           /\ holds[k].booking = b
                           /\ holds[k].expiresAt >= e
  BY <1>2 DEF Covered
<1>4. holds[k] # NoHold
  BY <1>3 DEF NoHold
<1>5. holds[k].expiresAt \in Nat
  BY <1>1, <1>4, RowFields DEF HoldRow
<1> QED
  BY <1>1, <1>2, <1>3, <1>4, <1>5, HoldsKept

(* Seats go on covering intents and requests. *)
LEMMA SeatsCoverStep ==
  ASSUME BookingInv, [Next]_vars
  PROVE  SeatsCover'
<1>1. TypeOK /\ RequestsGrounded /\ SeatsCover /\ TypeOK'
  BY TypeStep DEF BookingInv
<1>2. now \in Nat /\ now' \in Nat /\ now' >= now
  BY <1>1, ClockStep
<1>3. ASSUME NEW i \in IntentKey, intents'[i] # NoIntent
      PROVE  Covered(intents[i].booking, intents[i].expiresAt)'
  <2>1. CASE intents[i] # NoIntent
    <3>1. /\ Covered(intents[i].booking, intents[i].expiresAt)
          /\ intents[i].expiresAt \in Nat
      BY <1>1, <2>1, RowFields DEF SeatsCover, IntentRow
    <3>2. CASE intents'[i].expiresAt = intents[i].expiresAt
      <4>1. StaysCovered(intents[i].booking, intents[i].expiresAt)
        BY <3>1, CoverKept
      <4>2. intents'[i].booking = intents[i].booking
        BY <2>1, IntentCases
      <4> QED
        BY <3>2, <4>1, <4>2 DEF Covered, StaysCovered
    <3>3. CASE intents'[i].expiresAt < now
      BY <1>1, <1>2, <1>3, <3>3 DEF Covered, TypeOK, IntentRow
    <3> QED
      BY <2>1, <3>2, <3>3, IntentCases
  <2>2. CASE intents[i] = NoIntent
    <3>1. PICK c \in Client : /\ CreateIntentWrite(c, i)
                              /\ intents'[i].booking = api[c].booking
                              /\ intents'[i].expiresAt = api[c].expiresAt
      BY <1>3, <2>2, IntentCases
    <3>2. Covered(api[c].booking, api[c].expiresAt) /\ api[c].expiresAt \in Nat
      BY <1>1, <3>1, RequestFields DEF SeatsCover, CreateIntentWrite
    <3>3. StaysCovered(api[c].booking, api[c].expiresAt)
      BY <3>2, CoverKept
    <3> QED
      BY <3>1, <3>3 DEF Covered, StaysCovered
  <2> QED
    BY <2>1, <2>2
<1>4. ASSUME NEW c \in Client, api'[c].pc = "creating"
      PROVE  Covered(api[c].booking, api[c].expiresAt)'
  <2>1. CASE api'[c] = api[c]
    <3>1. Covered(api[c].booking, api[c].expiresAt) /\ api[c].expiresAt \in Nat
      BY <1>1, <1>4, <2>1, RequestFields DEF SeatsCover
    <3>2. StaysCovered(api[c].booking, api[c].expiresAt)
      BY <3>1, CoverKept
    <3> QED
      BY <2>1, <3>2 DEF Covered, StaysCovered
  <2>2. CASE api'[c] # api[c]
    <3>1. PICK k \in HoldKey, t \in Captured :
            /\ IsActiveFor(holds'[k], api'[c].booking, t)
            /\ holds'[k].expiresAt >= api'[c].expiresAt
      BY <1>4, <2>2, RequestCases DEF Idle
    <3> QED
      BY <3>1 DEF Covered, IsActiveFor
  <2> QED
    BY <2>1, <2>2
<1> QED
  BY <1>3, <1>4 DEF SeatsCover

(* Seats are consumed by a confirmed payment for their booking alone. *)
LEMMA ConsumedBy ==
  ASSUME BookingInv, [Next]_vars, NEW k \in HoldKey,
         holds'[k].status = "CONSUMED", holds[k].status # "CONSUMED"
  PROVE  \E c \in Client : /\ FinalizeConfirmed(c)
                           /\ holds'[k].booking = intents[api[c].intent].booking
<1>1. TypeOK /\ RequestsGrounded /\ InventoryTypeOK /\ holds \in HoldTable
  BY DEF BookingInv, TypeOK, InventoryTypeOK
<1>2. CASE UNCHANGED inventoryVars \/ Tick
  BY <1>2 DEF inventoryVars, Tick
<1>3. ASSUME NEW b \in Booking, Consume(b)
      PROVE  holds'[k].booking = b
  BY <1>1, <1>3 DEF Consume, ConsumeActive, HoldTable, HoldRow, NoHold
<1>4. ASSUME NEW d \in Departure, NEW t \in Captured
      PROVE  Sweep(holds, d, t)[k].status # "CONSUMED"
  BY <1>1, ActiveRow DEF Sweep, IsDue, HoldRow
<1>5. ASSUME NEW d \in Departure, NEW q \in 1 .. MaxParty, NEW t \in Captured,
             ReserveRefused(d, q, t)
      PROVE  FALSE
  BY <1>4, <1>5 DEF ReserveRefused
<1>6. ASSUME NEW j \in HoldKey, NEW b \in Booking, NEW d \in Departure, NEW q \in 1 .. MaxParty,
             NEW t \in Captured, Reserve(j, b, d, q, t, t + HoldTTL)
      PROVE  FALSE
  <2>1. Sweep(holds, d, t) \in HoldTable
    BY <1>1, SweepType
  <2>2. \/ holds'[k] = Sweep(holds, d, t)[k]
        \/ holds'[k].status = "ACTIVE"
    BY <1>6, <2>1 DEF Reserve, Reserved, HoldTable
  <2> QED
    BY <1>4, <2>2
<1> QED
  BY <1>1, <1>2, <1>3, <1>5, <1>6, HoldCases

(* Consumed seats go on being paid for. *)
LEMMA ConsumedSeatStep ==
  ASSUME BookingInv, [Next]_vars
  PROVE  ConsumedSeatIsPaid'
<1> SUFFICES ASSUME NEW k \in HoldKey, holds'[k].status = "CONSUMED"
             PROVE  \E i \in IntentKey : Paid(i)' /\ intents'[i].booking = holds'[k].booking
  BY DEF ConsumedSeatIsPaid
<1>1. TypeOK /\ RequestsGrounded
  BY DEF BookingInv
<1>2. \E i \in IntentKey :
        Paid(i)' /\ intents[i] # NoIntent /\ intents[i].booking = holds'[k].booking
  <2>1. CASE holds[k].status = "CONSUMED"
    <3>1. holds'[k].booking = holds[k].booking
      BY <1>1, <2>1, HoldsKept DEF NoHold
    <3> QED
      BY <2>1, <3>1, ReceiptCases DEF BookingInv, ConsumedSeatIsPaid, ReceiptsHaveIntents
  <2>2. CASE holds[k].status # "CONSUMED"
    <3>1. PICK c \in Client : /\ FinalizeConfirmed(c)
                              /\ holds'[k].booking = intents[api[c].intent].booking
      BY <2>2, ConsumedBy
    <3>2. api[c].intent \in IntentKey /\ intents[api[c].intent] # NoIntent
      BY <3>1, RequestRows DEF FinalizeConfirmed
    <3> QED
      BY <3>1, <3>2, ReceiptCases
  <2> QED
    BY <2>1, <2>2
<1> QED
  BY <1>2, IntentCases

(* Receipts go on resting on one confirmed transaction each. *)
LEMMA ReceiptBackedStep ==
  ASSUME BookingInv, [Next]_vars
  PROVE  ReceiptBacked'
<1> DEFINE Confirming(i) == {s \in Signature : txns[s] = [verdict |-> "CONFIRMED", intent |-> i]}
           ConfirmingNext(i) ==
             {s \in Signature : txns'[s] = [verdict |-> "CONFIRMED", intent |-> i]}
<1>1. /\ txns \in [Signature -> TxnRow \cup {NoTxn}]
      /\ receipts \in [IntentKey -> ReceiptStatus]
  BY DEF BookingInv, TypeOK
<1>2. \A i \in IntentKey : /\ Paid(i) <=> Confirming(i) # {}
                           /\ \A s, u \in Confirming(i) : s = u
  BY DEF BookingInv, ReceiptBacked
<1>3. ASSUME NEW i \in IntentKey
      PROVE  /\ Paid(i)' <=> ConfirmingNext(i) # {}
             /\ \A s, u \in ConfirmingNext(i) : s = u
  <2>1. CASE UNCHANGED <<txns, receipts>>
    BY <1>2, <2>1 DEF Paid
  <2>2. ASSUME NEW s \in Signature, NEW j \in IntentKey, txns[s] = NoTxn,
               txns' = [txns EXCEPT ![s] = [verdict |-> "REJECTED", intent |-> j]],
               receipts' = receipts
        PROVE  ConfirmingNext(i) = Confirming(i)
    <3>1. /\ \A u \in Signature \ {s} : txns'[u] = txns[u]
          /\ txns'[s].verdict = "REJECTED"
      BY <1>1, <2>2
    <3> QED
      BY <2>2, <3>1 DEF NoTxn
  <2>3. ASSUME NEW s \in Signature, NEW j \in IntentKey, txns[s] = NoTxn,
               receipts[j] = "NOT_CREATED",
               txns' = [txns EXCEPT ![s] = [verdict |-> "CONFIRMED", intent |-> j]],
               receipts' = [receipts EXCEPT ![j] = "VERIFIED_MATCH"]
        PROVE  /\ Paid(i)' <=> ConfirmingNext(i) # {}
               /\ \A u, v \in ConfirmingNext(i) : u = v
    <3>1. /\ \A u \in Signature \ {s} : txns'[u] = txns[u]
          /\ txns'[s] = [verdict |-> "CONFIRMED", intent |-> j]
          /\ s \notin Confirming(i)
      BY <1>1, <2>3 DEF NoTxn
    <3>2. CASE i = j
      <4>1. Confirming(i) = {}
        BY <1>2, <2>3, <3>2 DEF Paid
      <4>2. ConfirmingNext(i) = {s}
        BY <3>1, <3>2, <4>1
      <4>3. Paid(i)'
        BY <1>1, <2>3, <3>2 DEF Paid
      <4> QED
        BY <4>2, <4>3
    <3>3. CASE i # j
      <4>1. ConfirmingNext(i) = Confirming(i)
        BY <3>1, <3>3
      <4>2. Paid(i)' <=> Paid(i)
        BY <1>1, <2>3, <3>3 DEF Paid
      <4> QED
        BY <1>2, <4>1, <4>2
    <3> QED
      BY <3>2, <3>3
  <2>4. ASSUME NEW j \in IntentKey, Paid(j), txns' = txns,
               receipts' = [receipts EXCEPT ![j] = "MISMATCH"]
        PROVE  ConfirmingNext(i) = Confirming(i) /\ (Paid(i)' <=> Paid(i))
    BY <1>1, <2>4 DEF Paid
  <2>5. receipts' = receipts => (Paid(i)' <=> Paid(i))
    BY DEF Paid
  <2> HIDE DEF Confirming, ConfirmingNext
  <2> QED
    BY <1>2, <2>1, <2>2, <2>3, <2>4, <2>5, ReceiptSteps
<1>4. ASSUME NEW i \in IntentKey, Paid(i)'
      PROVE  agreement'[intents'[i].booking] # NoAgreement
  BY <1>4, NothingDangles DEF ReceiptsHaveIntents, IntentsAgreed
<1> QED
  BY <1>3, <1>4 DEF ReceiptBacked

(* A booking's status goes on being what its rows say. *)
LEMMA StatusEvidenceStep ==
  ASSUME BookingInv, [Next]_vars
  PROVE  StatusEvidence'
<1>1. TypeOK /\ RequestsGrounded /\ StatusEvidence /\ AgreedTerms
  BY DEF BookingInv
<1>2. ASSUME NEW b \in Booking
      PROVE  (agreement'[b] # NoAgreement) <=> booking'[b].status \in AgreedStatus
  <2>1. (agreement[b] # NoAgreement) <=> booking[b].status \in AgreedStatus
    BY <1>1 DEF StatusEvidence, AgreedStatus
  <2>2. NoAgreement \notin AgreementRow
    BY DEF NoAgreement, AgreementRow
  <2>3. {"AGREEMENT_LOCKED", "PAYMENT_PENDING", "RECEIPT_ISSUED", "MANUAL_REVIEW_REQUIRED"}
          \subseteq AgreedStatus
    BY DEF AgreedStatus
  <2> QED
    BY <2>1, <2>2, <2>3, BookingCases
<1>3. ASSUME NEW b \in Booking, agreement'[b] # NoAgreement
      PROVE  holds'[agreement'[b].hold].booking = b
  <2>1. CASE agreement[b] # NoAgreement
    <3>1. /\ agreement[b].hold \in HoldKey /\ holds[agreement[b].hold] # NoHold
          /\ holds[agreement[b].hold].booking = b
          /\ agreement'[b] = agreement[b]
      BY <1>1, <2>1, RowFields, AgreementKept DEF AgreedTerms, StatusEvidence, AgreementRow
    <3> QED
      BY <1>1, <3>1, HoldsKept
  <2>2. CASE agreement[b] = NoAgreement
    BY <1>3, <2>2, BookingCases
  <2> QED
    BY <2>1, <2>2
<1>4. ASSUME NEW b \in Booking, booking'[b].status = "PAYMENT_PENDING"
      PROVE  \E i \in IntentKey : IntentOf(i, b)' /\ Open(i)'
  <2>1. CASE booking[b].status = "PAYMENT_PENDING"
    <3>1. PICK i \in IntentKey : IntentOf(i, b) /\ Open(i)
      BY <1>1, <2>1 DEF StatusEvidence
    <3>2. intents[i] # NoIntent /\ intents[i].booking = b
      BY <3>1 DEF IntentOf
    <3>3. IntentOf(i, b)'
      BY <3>2, IntentCases DEF IntentOf
    <3>4. ASSUME NEW c \in Client, api[c].intent = i, FinalizeRejected(c) \/ FinalizeConfirmed(c)
          PROVE  booking'[b].status # "PAYMENT_PENDING"
      <4>1. booking \in [Booking -> BookingRow]
        BY <1>1 DEF TypeOK
      <4>2. \/ booking' = [booking EXCEPT ![b].status = "MANUAL_REVIEW_REQUIRED"]
            \/ booking' = [booking EXCEPT ![b].status = "RECEIPT_ISSUED"]
        BY <3>2, <3>4 DEF FinalizeRejected, FinalizeConfirmed, SetBooking
      <4> QED
        BY <4>1, <4>2 DEF BookingRow
    <3>5. Open(i)'
      BY <1>4, <3>1, <3>4, IntentCases
    <3> QED
      BY <3>3, <3>5
  <2>2. CASE booking[b].status # "PAYMENT_PENDING"
    <3>1. PICK c \in Client, i \in IntentKey : CreateIntentWrite(c, i) /\ api[c].booking = b
      BY <1>4, <2>2, BookingCases DEF AgreedStatus
    <3>2. intents \in [IntentKey -> IntentRow \cup {NoIntent}]
      BY <1>1 DEF TypeOK
    <3>3. intents'[i].status = "CREATED" /\ intents'[i].booking = b
      BY <3>1, <3>2 DEF CreateIntentWrite
    <3> QED
      BY <3>3 DEF IntentOf, Open, OpenStatus, NoIntent
  <2> QED
    BY <2>1, <2>2
<1>5. ASSUME NEW b \in Booking, booking'[b].status = "RECEIPT_ISSUED"
      PROVE  \E i \in IntentKey : IntentOf(i, b)' /\ Paid(i)'
  <2>1. \E i \in IntentKey : IntentOf(i, b) /\ Paid(i)'
    <3>1. CASE booking[b].status = "RECEIPT_ISSUED"
      BY <1>1, <3>1, ReceiptCases DEF StatusEvidence
    <3>2. CASE booking[b].status # "RECEIPT_ISSUED"
      <4>1. PICK c \in Client : FinalizeConfirmed(c) /\ intents[api[c].intent].booking = b
        BY <1>5, <3>2, BookingCases DEF AgreedStatus
      <4>2. api[c].intent \in IntentKey /\ intents[api[c].intent] # NoIntent
        BY <4>1, RequestRows DEF FinalizeConfirmed
      <4> QED
        BY <4>1, <4>2, ReceiptCases DEF IntentOf
    <3> QED
      BY <3>1, <3>2
  <2> QED
    BY <2>1, IntentCases DEF IntentOf
<1> QED
  BY <1>2, <1>3, <1>4, <1>5 DEF StatusEvidence, AgreedStatus

(* Nothing is there at first. *)
LEMMA BookingInit == Init => BookingInv
<1> SUFFICES ASSUME Init
             PROVE  BookingInv
  OBVIOUS
<1>1. InventoryTypeOK
  BY InventoryTypeInit DEF Init
<1>2. TypeOK
  <2>1. /\ [status |-> "NONE", dep |-> None, pax |-> 0, rest |-> FALSE] \in BookingRow
        /\ "LOCKED" \in PaymentGateStatus /\ "NOT_CREATED" \in ReceiptStatus
    BY BoundsAssumption DEF BookingRow, PaymentGateStatus, ReceiptStatus
  <2> QED
    BY <1>1, <2>1, TurnsAssumption DEF Init, TypeOK
<1>3. AgreedTerms /\ IntentsAgreed /\ ReceiptsHaveIntents /\ RequestsGrounded
  BY DEF Init, AgreedTerms, IntentsAgreed, ReceiptsHaveIntents, Paid, RequestsGrounded, Idle
<1>4. SeatsCover
  BY DEF Init, SeatsCover, Idle
<1>5. StatusEvidence
  BY DEF Init, StatusEvidence
<1>6. ReceiptBacked
  BY DEF Init, ReceiptBacked, Paid, NoTxn
<1>7. ConsumedSeatIsPaid
  BY DEF Init, InventoryInit, ConsumedSeatIsPaid, NoHold
<1> QED
  BY <1>2, <1>3, <1>4, <1>5, <1>6, <1>7 DEF BookingInv

(* Every step keeps all of it. *)
LEMMA BookingStep == BookingInv /\ [Next]_vars => BookingInv'
<1> SUFFICES ASSUME BookingInv, [Next]_vars
             PROVE  BookingInv'
  OBVIOUS
<1>1. TypeOK'
  BY TypeStep
<1>2. AgreedTerms' /\ IntentsAgreed' /\ ReceiptsHaveIntents' /\ RequestsGrounded'
  BY NothingDangles
<1>3. SeatsCover' /\ StatusEvidence' /\ ReceiptBacked' /\ ConsumedSeatIsPaid'
  BY SeatsCoverStep, StatusEvidenceStep, ReceiptBackedStep, ConsumedSeatStep
<1> QED
  BY <1>1, <1>2, <1>3 DEF BookingInv
-----------------------------------------------------------------------------
(***************************************************************************)
(* Who may take a status back.                                             *)
(***************************************************************************)
(* Two paths of half the length join to one. *)
LEMMA PathsJoin ==
  ASSUME NEW r, NEW a, NEW b, NEW c, Allowed(r, a, b), Allowed(r, b, c)
  PROVE  Allowed(Doubled(r), a, c)
<1>1. r \subseteq Doubled(r)
  BY DEF Doubled
<1>2. ASSUME <<a, b>> \in r, <<b, c>> \in r
      PROVE  <<a, c>> \in Doubled(r)
  <2> DEFINE e == <<<<a, b>>, <<b, c>>>>
  <2>1. e \in r \X r /\ e[1] = <<a, b>> /\ e[2] = <<b, c>>
    BY <1>2
  <2>2. e[1][1] = a /\ e[1][2] = b /\ e[2][1] = b /\ e[2][2] = c
    BY <2>1
  <2>3. e \in {p \in r \X r : p[1][2] = p[2][1]}
    BY <2>1, <2>2
  <2>4. <<e[1][1], e[2][2]>> \in Doubled(r)
    BY <2>3 DEF Doubled
  <2> QED
    BY <2>2, <2>4
<1> QED
  BY <1>1, <1>2 DEF Allowed

(* Up to four edges of a table lead to a later status. *)
LEMMA PathIsLater ==
  ASSUME NEW table, NEW a, NEW b, NEW c, NEW d, NEW e,
         Allowed(table, a, b), Allowed(table, b, c), Allowed(table, c, d), Allowed(table, d, e)
  PROVE  a = e \/ <<a, e>> \in Later(table)
<1> DEFINE r == Doubled(table)
           s == Doubled(r)
           u == Doubled(s)
<1>1. Allowed(r, a, c) /\ Allowed(r, c, e)
  BY PathsJoin
<1> HIDE DEF r
<1>2. Allowed(s, a, e) /\ Allowed(s, e, e)
  BY <1>1, PathsJoin DEF Allowed
<1> HIDE DEF s
<1>3. Allowed(u, a, e) /\ Allowed(u, e, e)
  BY <1>2, PathsJoin DEF Allowed
<1> HIDE DEF u
<1>4. Allowed(Doubled(u), a, e)
  BY <1>3, PathsJoin
<1>5. Later(table) = Doubled(u)
  BY DEF Later, r, s, u
<1> QED
  BY <1>4, <1>5 DEF Allowed

Forward == (\A b \in Booking : BookingForward(b)) /\ (\A i \in IntentKey : IntentForward(i))
ForwardUnlessStale ==
  /\ \A b \in Booking : BookingForward(b) \/ StaleBookingWrite(b)
  /\ \A i \in IntentKey : IntentForward(i) \/ StaleIntentWrite(i)

(* The statuses a conversation writes. *)
LEMMA DraftPaths ==
  ASSUME NEW from \in {"DRAFT", "FIELDS_PARTIAL", "BOOKING_DRAFT_READY", "AGREEMENT_READY"}
  PROVE  /\ from # "AGREEMENT_READY" => <<from, "AGREEMENT_READY">> \in LaterBooking
         /\ <<from, "AGREEMENT_LOCKED">> \in LaterBooking
<1>1. /\ Allowed(bookingTransitions, "DRAFT", "FIELDS_PARTIAL")
      /\ Allowed(bookingTransitions, "FIELDS_PARTIAL", "BOOKING_DRAFT_READY")
      /\ Allowed(bookingTransitions, "BOOKING_DRAFT_READY", "AGREEMENT_READY")
      /\ Allowed(bookingTransitions, "AGREEMENT_READY", "AGREEMENT_LOCKED")
      /\ \A s : Allowed(bookingTransitions, s, s)
  BY DEF Allowed, bookingTransitions
<1>2. CASE from = "DRAFT"
  BY <1>1, <1>2, PathIsLater DEF LaterBooking
<1>3. CASE from = "FIELDS_PARTIAL"
  BY <1>1, <1>3, PathIsLater DEF LaterBooking
<1>4. CASE from = "BOOKING_DRAFT_READY"
  BY <1>1, <1>4, PathIsLater DEF LaterBooking
<1>5. CASE from = "AGREEMENT_READY"
  BY <1>1, <1>5, PathIsLater DEF LaterBooking
<1> QED
  BY <1>2, <1>3, <1>4, <1>5

(* A verdict on an open intent. *)
LEMMA VerdictPaths ==
  ASSUME NEW from \in OpenStatus, NEW to \in OpenStatus \cup {"CONFIRMED", "REJECTED"},
         to # "CREATED"
  PROVE  from = to \/ <<from, to>> \in LaterIntent
<1>1. /\ Allowed(paymentIntentTransitions, from, "PENDING")
      /\ Allowed(paymentIntentTransitions, "PENDING", to)
      /\ Allowed(paymentIntentTransitions, to, to)
  BY DEF Allowed, paymentIntentTransitions, OpenStatus
<1> QED
  BY <1>1, PathIsLater DEF LaterIntent

(* A conversation takes no booking back. *)
LEMMA TurnForward ==
  ASSUME TypeOK, StatusEvidence, NEW b \in Booking, NEW t \in Captured,
         \/ \E f \in Utterance, k \in HoldKey : TranscriptTurn(b, f, k, t)
         \/ ConfirmBooking(b, t)
  PROVE  \A a \in Booking : BookingForward(a)
<1>1. booking \in [Booking -> BookingRow]
  BY DEF TypeOK
<1>2. ASSUME NEW row \in BookingRow, Confirms(b, row, holds', t),
             \/ booking[b].status = "NONE"
             \/ booking[b].status \in {"DRAFT", "FIELDS_PARTIAL", "BOOKING_DRAFT_READY",
                                       "AGREEMENT_READY"}
      PROVE  \A a \in Booking : BookingForward(a)
  <2>1. booking' = [booking EXCEPT ![b] = [row EXCEPT !.status = "AGREEMENT_LOCKED"]]
    BY <1>2 DEF Confirms
  <2>2. booking'[b].status = "AGREEMENT_LOCKED" /\ \A a \in Booking \ {b} : booking'[a] = booking[a]
    BY <1>1, <2>1 DEF BookingRow
  <2>3. BookingForward(b)
    BY <1>2, <2>2, DraftPaths DEF BookingForward
  <2> QED
    BY <2>2, <2>3 DEF BookingForward
<1>3. ASSUME NEW f \in Utterance, NEW k \in HoldKey, TranscriptTurn(b, f, k, t)
      PROVE  \A a \in Booking : BookingForward(a)
  <2> DEFINE said == Upserted(booking[b], f, t)
             locked == agreement[b] # NoAgreement
             next == [said EXCEPT !.status = RecomputedStatus(said, holds', b, locked, t)]
  <2>1. /\ said \in BookingRow
        /\ said.status = IF booking[b].status = "NONE" THEN "FIELDS_PARTIAL" ELSE booking[b].status
    BY <1>1, UpsertedRow
  <2>2. /\ next \in BookingRow
        /\ \/ next.status = said.status
           \/ /\ next.status = "AGREEMENT_READY"
              /\ said.status \in {"DRAFT", "FIELDS_PARTIAL", "BOOKING_DRAFT_READY"}
           \/ next.status = "AGREEMENT_LOCKED" /\ locked /\ said.status = "AGREEMENT_READY"
    <3> HIDE DEF said, locked
    <3>1. RecomputedStatus(said, holds', b, locked, t) \in BookingStatus \cup {"NONE"}
      BY <2>1 DEF RecomputedStatus, BookingRow, BookingStatus, locked
    <3>2. next \in BookingRow /\ next.status = RecomputedStatus(said, holds', b, locked, t)
      BY <2>1, <3>1 DEF BookingRow
    <3> HIDE DEF next
    <3> QED
      BY <3>2 DEF RecomputedStatus, locked
  <2>3. \/ Confirms(b, next, holds', t)
        \/ booking' = [booking EXCEPT ![b] = next]
    BY <1>3 DEF TranscriptTurn
  <2> HIDE DEF said, next
  <2>4. locked => said.status # "AGREEMENT_READY"
    BY <2>1 DEF StatusEvidence
  <2>5. CASE Confirms(b, next, holds', t)
    <3>1. next.status = "AGREEMENT_READY"
      BY <2>5 DEF Confirms
    <3>2. said.status \in {"DRAFT", "FIELDS_PARTIAL", "BOOKING_DRAFT_READY", "AGREEMENT_READY"}
      BY <2>2, <3>1
    <3>3. \/ booking[b].status = "NONE"
          \/ booking[b].status = said.status
      BY <2>1
    <3> QED
      BY <1>2, <2>2, <2>5, <3>2, <3>3
  <2>6. CASE booking' = [booking EXCEPT ![b] = next]
    <3>1. booking'[b] = next /\ \A a \in Booking \ {b} : booking'[a] = booking[a]
      BY <1>1, <2>6
    <3>2. booking[b].status # "NONE" =>
            \/ next.status = booking[b].status
            \/ /\ next.status = "AGREEMENT_READY"
               /\ booking[b].status \in {"DRAFT", "FIELDS_PARTIAL", "BOOKING_DRAFT_READY"}
      BY <2>1, <2>2, <2>4
    <3>3. BookingForward(b)
      BY <3>1, <3>2, DraftPaths DEF BookingForward
    <3> QED
      BY <3>1, <3>3 DEF BookingForward
  <2> QED
    BY <2>3, <2>5, <2>6
<1>4. ASSUME ConfirmBooking(b, t)
      PROVE  \A a \in Booking : BookingForward(a)
  <2>1. Confirms(b, booking[b], holds', t) /\ booking[b] \in BookingRow
    BY <1>1, <1>4 DEF ConfirmBooking
  <2>2. booking[b].status = "AGREEMENT_READY"
    BY <2>1 DEF Confirms
  <2> QED
    BY <1>2, <2>1, <2>2
<1> QED
  BY <1>3, <1>4

(* A request that only reads, or is given up, takes nothing back. *)
LEMMA ReadForward ==
  ASSUME NEW c \in Client,
         \/ \E b \in Booking, t \in Captured : CreateIntentRead(c, b, t)
         \/ \E i \in IntentKey : DemoExpireRead(c, i)
         \/ \E i \in IntentKey, s \in Signature, t \in Captured : VerifyBegin(c, i, s, t)
         \/ \E v \in Verdict : FinalizeRead(c, v)
         \/ Abandon(c)
  PROVE  Forward
<1>1. UNCHANGED <<booking, intents>>
  BY DEF CreateIntentRead, DemoExpireRead, VerifyBegin, FinalizeRead, Abandon
<1> QED
  BY <1>1 DEF Forward, BookingForward, IntentForward

(* The insert of an intent: the booking moves along the table if it is     *)
(* still where the request read it.                                        *)
LEMMA CreateForward ==
  ASSUME BookingInv, NEW c \in Client, NEW i \in IntentKey, CreateIntentWrite(c, i)
  PROVE  ForwardUnlessStale
<1> DEFINE b == api[c].booking
<1>1. /\ b \in Booking /\ api[c].pc = "creating"
      /\ booking \in [Booking -> BookingRow] /\ intents \in [IntentKey -> IntentRow \cup {NoIntent}]
      /\ api \in [Client -> Request \cup {Idle}]
  BY RequestRows DEF CreateIntentWrite, BookingInv, TypeOK
<1>2. /\ intents[i] = NoIntent
      /\ intents' = [intents EXCEPT ![i] =
                       [status |-> "CREATED", booking |-> b, dep |-> api[c].dep,
                        expiresAt |-> api[c].expiresAt, createdAt |-> now]]
      /\ booking' = [booking EXCEPT ![b].status = "PAYMENT_PENDING"]
      /\ api'[c] = Idle
      /\ Allowed(bookingTransitions, api[c].bookingStatus, "PAYMENT_PENDING")
  BY <1>1 DEF CreateIntentWrite
<1> HIDE DEF b
<1>3. /\ booking'[b].status = "PAYMENT_PENDING"
      /\ \A a \in Booking \ {b} : booking'[a] = booking[a]
      /\ intents'[i].status = "CREATED"
      /\ \A j \in IntentKey \ {i} : intents'[j] = intents[j]
  BY <1>1, <1>2 DEF BookingRow
<1>4. \A j \in IntentKey : IntentForward(j)
  <2>1. /\ Allowed(paymentIntentTransitions, "NOT_CREATED", "CREATED")
        /\ Allowed(paymentIntentTransitions, "CREATED", "CREATED")
    BY DEF Allowed, paymentIntentTransitions
  <2>2. <<"NOT_CREATED", "CREATED">> \in LaterIntent
    BY <2>1, PathIsLater DEF LaterIntent
  <2> QED
    BY <1>2, <1>3, <2>2 DEF IntentForward, NoIntent
<1>5. CASE booking[b].status = api[c].bookingStatus
  <2>1. Allowed(bookingTransitions, "PAYMENT_PENDING", "PAYMENT_PENDING")
    BY DEF Allowed
  <2>2. \/ booking[b].status = "PAYMENT_PENDING"
        \/ <<booking[b].status, "PAYMENT_PENDING">> \in LaterBooking
    BY <1>2, <1>5, <2>1, PathIsLater DEF LaterBooking
  <2>3. \A a \in Booking : BookingForward(a)
    BY <1>3, <2>2 DEF BookingForward
  <2> QED
    BY <1>4, <2>3 DEF ForwardUnlessStale
<1>6. CASE booking[b].status # api[c].bookingStatus
  <2>1. StaleBookingWrite(b)
    BY <1>1, <1>2, <1>6 DEF StaleBookingWrite, Overtaken, b
  <2>2. \A a \in Booking \ {b} : BookingForward(a)
    BY <1>3 DEF BookingForward
  <2> QED
    BY <1>4, <2>1, <2>2 DEF ForwardUnlessStale
<1> QED
  BY <1>5, <1>6

(* A verdict: both rows move along their tables if the intent is still     *)
(* open and the booking still where the request read it.                   *)
LEMMA VerdictForward ==
  ASSUME BookingInv, NEW c \in Client,
         FinalizeRetryable(c) \/ FinalizeRejected(c) \/ FinalizeConfirmed(c)
  PROVE  ForwardUnlessStale
<1> DEFINE i == api[c].intent
           b == intents[i].booking
           seen == api[c].bookingStatus
<1>1. /\ api[c].pc = "finalizing"
      /\ i \in IntentKey /\ intents[i] \in IntentRow /\ b \in Booking /\ intents[i] # NoIntent
      /\ booking \in [Booking -> BookingRow] /\ intents \in [IntentKey -> IntentRow \cup {NoIntent}]
      /\ api \in [Client -> Request \cup {Idle}]
  BY RequestRows, SMTT(40)
     DEF FinalizeRetryable, FinalizeRejected, FinalizeConfirmed, BookingInv, TypeOK
<1>2. api'[c] = Idle
  BY <1>1 DEF FinalizeRetryable, FinalizeRejected, FinalizeConfirmed
<1>3. \E to \in {"PENDING", "FAILED", "REJECTED", "CONFIRMED"} :
        /\ intents' = [intents EXCEPT ![i].status = to]
        /\ \/ UNCHANGED booking
           \/ /\ booking' = [booking EXCEPT ![b].status = "MANUAL_REVIEW_REQUIRED"]
              /\ Allowed(bookingTransitions, seen, "MANUAL_REVIEW_REQUIRED")
           \/ /\ booking' = [booking EXCEPT ![b].status = "RECEIPT_ISSUED"]
              /\ PathAllowed(bookingTransitions, seen,
                             <<"PAYMENT_CONFIRMED", "BOOKING_CONFIRMED", "RECEIPT_ISSUED">>)
  <2>1. CASE FinalizeRetryable(c)
    BY <2>1, ZenonT(60) DEF FinalizeRetryable, SetIntent
  <2>2. CASE FinalizeRejected(c)
    BY <2>2 DEF FinalizeRejected, SetIntent, SetBooking
  <2>3. CASE FinalizeConfirmed(c)
    <3>1. /\ intents' = [intents EXCEPT ![i].status = "CONFIRMED"]
          /\ booking' = [booking EXCEPT ![b].status = "RECEIPT_ISSUED"]
          /\ PathAllowed(bookingTransitions, seen,
                         <<"PAYMENT_CONFIRMED", "BOOKING_CONFIRMED", "RECEIPT_ISSUED">>)
      BY <2>3 DEF FinalizeConfirmed, SetIntent, SetBooking
    <3> HIDE DEF i, b, seen
    <3> QED
      BY <3>1
  <2> QED
    BY <2>1, <2>2, <2>3, ZenonT(60)
<1> HIDE DEF i, b, seen
<1>4. PICK to \in {"PENDING", "FAILED", "REJECTED", "CONFIRMED"} :
        /\ intents' = [intents EXCEPT ![i].status = to]
        /\ \/ UNCHANGED booking
           \/ /\ booking' = [booking EXCEPT ![b].status = "MANUAL_REVIEW_REQUIRED"]
              /\ Allowed(bookingTransitions, seen, "MANUAL_REVIEW_REQUIRED")
           \/ /\ booking' = [booking EXCEPT ![b].status = "RECEIPT_ISSUED"]
              /\ PathAllowed(bookingTransitions, seen,
                             <<"PAYMENT_CONFIRMED", "BOOKING_CONFIRMED", "RECEIPT_ISSUED">>)
  BY <1>3
<1>5. /\ intents'[i].status = to
      /\ \A j \in IntentKey \ {i} : intents'[j] = intents[j]
      /\ \A a \in Booking \ {b} : booking'[a] = booking[a]
  BY <1>1, <1>4 DEF IntentRow
<1>6. /\ \A j \in IntentKey \ {i} : IntentForward(j)
      /\ \A a \in Booking \ {b} : BookingForward(a)
  BY <1>5 DEF IntentForward, BookingForward
<1>7. CASE Overtaken(c)
  <2>1. StaleIntentWrite(i) /\ StaleBookingWrite(b)
    BY <1>1, <1>2, <1>7 DEF StaleIntentWrite, StaleBookingWrite, i, b
  <2> QED
    BY <1>6, <2>1 DEF ForwardUnlessStale
<1>8. CASE ~Overtaken(c)
  <2>1. intents[i].status \in OpenStatus /\ booking[b].status = seen
    BY <1>1, <1>8 DEF Overtaken, Open, i, b, seen
  <2>2. IntentForward(i)
    BY <1>5, <2>1, VerdictPaths DEF IntentForward, OpenStatus
  <2>3. CASE UNCHANGED booking
    BY <1>6, <2>2, <2>3 DEF ForwardUnlessStale, BookingForward
  <2>4. CASE /\ booking' = [booking EXCEPT ![b].status = "MANUAL_REVIEW_REQUIRED"]
             /\ Allowed(bookingTransitions, seen, "MANUAL_REVIEW_REQUIRED")
    <3>1. \/ booking[b].status = "MANUAL_REVIEW_REQUIRED"
          \/ <<booking[b].status, "MANUAL_REVIEW_REQUIRED">> \in LaterBooking
      BY <2>1, <2>4, PathIsLater DEF Allowed, LaterBooking
    <3>2. BookingForward(b)
      BY <1>1, <2>4, <3>1 DEF BookingRow, BookingForward
    <3> QED
      BY <1>6, <2>2, <3>2 DEF ForwardUnlessStale
  <2>5. CASE /\ booking' = [booking EXCEPT ![b].status = "RECEIPT_ISSUED"]
             /\ PathAllowed(bookingTransitions, seen,
                            <<"PAYMENT_CONFIRMED", "BOOKING_CONFIRMED", "RECEIPT_ISSUED">>)
    <3>1. Allowed(bookingTransitions, booking[b].status, "PAYMENT_CONFIRMED")
      BY <2>1, <2>5 DEF PathAllowed
    <3>2. /\ Allowed(bookingTransitions, "PAYMENT_CONFIRMED", "BOOKING_CONFIRMED")
          /\ Allowed(bookingTransitions, "BOOKING_CONFIRMED", "RECEIPT_ISSUED")
          /\ Allowed(bookingTransitions, "RECEIPT_ISSUED", "RECEIPT_ISSUED")
      BY DEF Allowed, bookingTransitions
    <3>3. \/ booking[b].status = "RECEIPT_ISSUED"
          \/ <<booking[b].status, "RECEIPT_ISSUED">> \in LaterBooking
      BY <3>1, <3>2, PathIsLater DEF LaterBooking
    <3>4. BookingForward(b)
      BY <1>1, <2>5, <3>3 DEF BookingRow, BookingForward
    <3> QED
      BY <1>6, <2>2, <3>4 DEF ForwardUnlessStale
  <2> QED
    BY <1>4, <2>3, <2>4, <2>5
<1> QED
  BY <1>7, <1>8

(* The demo expiry changes no status. *)
LEMMA DemoForward ==
  ASSUME BookingInv, NEW c \in Client, DemoExpireWrite(c)
  PROVE  Forward
<1>1. /\ api[c].intent \in IntentKey /\ intents[api[c].intent] \in IntentRow
      /\ intents \in [IntentKey -> IntentRow \cup {NoIntent}]
      /\ UNCHANGED booking
      /\ intents' = [intents EXCEPT ![api[c].intent].expiresAt = api[c].at - 1]
  BY RequestRows DEF DemoExpireWrite, BookingInv, TypeOK
<1>2. \A i \in IntentKey : intents'[i].status = intents[i].status
  BY <1>1 DEF IntentRow
<1> QED
  BY <1>1, <1>2 DEF Forward, BookingForward, IntentForward

(* The tamper check moves the booking along the table. *)
LEMMA TamperForward ==
  ASSUME BookingInv, NEW i \in IntentKey, NEW deposit \in CandidateDeposit,
         VerifyReceiptTamper(i, deposit)
  PROVE  Forward
<1> DEFINE b == intents[i].booking
<1>1. /\ intents[i] # NoIntent /\ b \in Booking
      /\ booking \in [Booking -> BookingRow] /\ UNCHANGED intents
  BY RowFields DEF VerifyReceiptTamper, BookingInv, ReceiptsHaveIntents, Paid, IntentRow, TypeOK
<1>2. /\ booking' = [booking EXCEPT ![b].status = "MANUAL_REVIEW_REQUIRED"]
      /\ Allowed(bookingTransitions, booking[b].status, "MANUAL_REVIEW_REQUIRED")
  BY DEF VerifyReceiptTamper, SetBooking
<1> HIDE DEF b
<1>3. /\ booking'[b].status = "MANUAL_REVIEW_REQUIRED"
      /\ \A a \in Booking \ {b} : booking'[a] = booking[a]
  BY <1>1, <1>2 DEF BookingRow
<1>4. \/ booking[b].status = "MANUAL_REVIEW_REQUIRED"
      \/ <<booking[b].status, "MANUAL_REVIEW_REQUIRED">> \in LaterBooking
  BY <1>2, PathIsLater DEF Allowed, LaterBooking
<1> QED
  BY <1>1, <1>3, <1>4 DEF Forward, BookingForward, IntentForward

(* Every step, with any number of requests in flight. *)
LEMMA ForwardStep ==
  ASSUME BookingInv, [Next]_vars
  PROVE  ForwardUnlessStale
<1>1. ASSUME NEW b \in Booking, NEW t \in Captured,
             \/ \E f \in Utterance, k \in HoldKey : TranscriptTurn(b, f, k, t)
             \/ ConfirmBooking(b, t)
      PROVE  Forward
  <2>1. UNCHANGED intents
    BY <1>1 DEF TranscriptTurn, ConfirmBooking, paymentVars
  <2>2. \A a \in Booking : BookingForward(a)
    BY <1>1, TurnForward DEF BookingInv
  <2> QED
    BY <2>1, <2>2 DEF Forward, IntentForward
<1>2. ASSUME TimePasses \/ UNCHANGED vars
      PROVE  Forward
  <2>1. UNCHANGED <<booking, intents>>
    BY <1>2 DEF TimePasses, vars, paymentVars
  <2> QED
    BY <2>1 DEF Forward, BookingForward, IntentForward
<1>3. Forward => ForwardUnlessStale
  BY DEF Forward, ForwardUnlessStale
<1> QED
  BY <1>1, <1>2, <1>3, ReadForward, CreateForward, VerdictForward, DemoForward, TamperForward
     DEF Next
-----------------------------------------------------------------------------
(***************************************************************************)
(* The theorems.                                                           *)
(***************************************************************************)
(* The invariant holds, however many requests race for the same intent,    *)
(* signature or booking, and wherever they are abandoned.                  *)
THEOREM BookingInvariant == Spec => []BookingInv
  BY BookingInit, BookingStep, PTL DEF Spec

(* Every table and every request stays within its type. *)
THEOREM BookingTypeCorrect == Spec => []TypeOK
<1>1. BookingInv => TypeOK
  BY DEF BookingInv
<1> QED
  BY <1>1, BookingInvariant, PTL

(* The flow implements Inventory: turns, requests and payments use the     *)
(* hold table by its operations only.                                      *)
THEOREM FlowImplementsInventory == Spec => HoldsAsInventory
<1>1. Init => InventoryInit
  BY DEF Init
<1>2. BookingInv /\ [Next]_vars => [InventoryNext]_inventoryVars
  BY StepRefinesInventory DEF BookingInv
<1> QED
  BY <1>1, <1>2, BookingInvariant, PTL DEF Spec, HoldsAsInventory, InventorySpec

(* So no conversation and no payment ever sells a seat twice. *)
THEOREM FlowNeverOverbooks == Spec => []NoOverbooking
  BY FlowImplementsInventory, NeverOverbooked, PTL DEF HoldsAsInventory

(* A receipt rests on one confirmed transaction and on an agreement.       *)
THEOREM ReceiptsAreBacked == Spec => []ReceiptBacked
<1>1. BookingInv => ReceiptBacked
  BY DEF BookingInv
<1> QED
  BY <1>1, BookingInvariant, PTL

(* Seats are only consumed against a receipt of their booking. *)
THEOREM ConsumedSeatsArePaid == Spec => []ConsumedSeatIsPaid
<1>1. BookingInv => ConsumedSeatIsPaid
  BY DEF BookingInv
<1> QED
  BY <1>1, BookingInvariant, PTL

(* An intent that can be paid now has seats that last as long as it does.  *)
THEOREM LiveIntentsHaveSeats == Spec => []LiveIntentHasSeat
<1>1. BookingInv => LiveIntentHasSeat
  BY DEF BookingInv, SeatsCover, Covered, LiveIntentHasSeat, Open, OpenStatus, NoIntent
<1> QED
  BY <1>1, BookingInvariant, PTL

(* A booking's status is what its rows say. *)
THEOREM StatusesHaveEvidence == Spec => []StatusEvidence
<1>1. BookingInv => StatusEvidence
  BY DEF BookingInv
<1> QED
  BY <1>1, BookingInvariant, PTL

(* However many requests race, a status is only taken back by the write of *)
(* a request that was overtaken, and only on the rows it is about.         *)
THEOREM OnlyStaleRequestsTakeBack == Spec => OnlyStaleWritesTakeBack
<1>1. BookingInv /\ [Next]_vars => ForwardUnlessStale
  BY ForwardStep
<1>2. ForwardUnlessStale =>
        [/\ \A b \in Booking : BookingForward(b) \/ StaleBookingWrite(b)
         /\ \A i \in IntentKey : IntentForward(i) \/ StaleIntentWrite(i)]_vars
  BY DEF ForwardUnlessStale
<1> QED
  BY <1>1, <1>2, BookingInvariant, PTL DEF Spec, OnlyStaleWritesTakeBack
-----------------------------------------------------------------------------
(***************************************************************************)
(* What the scores, weights and thresholds of RiskPolicy amount to, for    *)
(* every booking, consent and moment.                                      *)
(***************************************************************************)
(* Terms that can be sold at this moment. *)
Sellable(b, at) ==
  /\ Ready(b, at)
  /\ b.departureAt > at
  /\ b.passengerCount > 0
  /\ DepositIsValid(b)

(* Only the missing consent may be outstanding: every reason but           *)
(* REFUND_POLICY_NOT_CONFIRMED blocks.                                     *)
LEMMA BlockingReasons ==
  ASSUME NEW b \in BookingForRisk, NEW consent \in Consent, NEW at \in Nat
  PROVE  ValidateBookingFields(b, consent, at) \ CONFIRMATION_REQUIRED_REASONS = {}
           <=> Sellable(b, at)
PROOF
<1> DEFINE Blocks(r) == r \in ValidateBookingFields(b, consent, at) \ CONFIRMATION_REQUIRED_REASONS
<1>1. ASSUME Sellable(b, at), NEW r \in RiskReasonCode, Blocks(r)  PROVE FALSE
  BY <1>1 DEF Sellable, Ready, ValidateBookingFields, IsMissing, DraftHold, HoldIsActive,
     DepositIsValid, CONFIRMATION_REQUIRED_REASONS, RiskReasonCode, BookingForRisk, Moment, Unset
<1>2. ASSUME \A r \in RiskReasonCode : ~Blocks(r)  PROVE Sellable(b, at)
  <2>1. /\ ~Blocks("MISSING_ROUTE") /\ ~Blocks("MISSING_DEPARTURE_TIME")
        /\ ~Blocks("MISSING_PASSENGER_COUNT") /\ ~Blocks("MISSING_PICKUP_POINT")
        /\ ~Blocks("MISSING_CONTACT") /\ ~Blocks("MISSING_PRICE")
        /\ ~Blocks("MISSING_DEPOSIT_AMOUNT") /\ ~Blocks("MISSING_REFUND_POLICY")
        /\ ~Blocks("INVENTORY_UNAVAILABLE")
    BY <1>2 DEF RiskReasonCode
  <2>2. /\ b.routeFrom /\ b.routeTo /\ b.departureAt > at /\ b.passengerCount >= 1
    BY <2>1 DEF ValidateBookingFields, IsMissing, CONFIRMATION_REQUIRED_REASONS, RiskReasonCode,
       BookingForRisk, Moment, Unset
  <2>3. /\ b.pickupPoint /\ b.contact /\ b.totalAmount # Unset
        /\ DepositIsValid(b) /\ b.refundPolicy
    BY <2>1 DEF ValidateBookingFields, IsMissing, CONFIRMATION_REQUIRED_REASONS, RiskReasonCode
  <2>4. DraftHold(b, at) # Unset
    BY <2>1 DEF ValidateBookingFields, IsMissing, CONFIRMATION_REQUIRED_REASONS, RiskReasonCode
  <2> QED
    BY <2>2, <2>3, <2>4 DEF Sellable, Ready, DraftHold, HoldIsActive, DepositIsValid,
       BookingForRisk, Moment, Unset
<1> QED
  BY <1>1, <1>2 DEF ValidateBookingFields

(* A booking whose terms can be sold scores full marks. *)
LEMMA SellableIsComplete ==
  ASSUME NEW b \in BookingForRisk, NEW at \in Nat, Sellable(b, at)
  PROVE  CompletenessScore(b, at) = 100
PROOF
  BY DEF Sellable, Ready, DepositIsValid, CompletenessScore, Points, BookingForRisk, Moment, Unset

(* With the terms sellable, the readiness score is decided by the lock     *)
(* and the explicit confirmation: the refund policy's 15 points are never  *)
(* the ones wanting (100 - 15 >= 80).                                      *)
LEMMA ReadinessOfSellable ==
  ASSUME NEW b \in BookingForRisk, NEW consent \in Consent, NEW at \in Nat, Sellable(b, at),
         consent.agreementLocked, consent.explicitConfirmation
  PROVE  PaymentReadiness(b, consent, at) >= paymentReadinessMinimum
PROOF
  BY DEF Sellable, PaymentReadiness, Points, Consent, paymentReadinessMinimum

(* The payment gate of a booking without critical blockers is UNLOCKED     *)
(* exactly when its terms can be sold, are locked in an agreement and were *)
(* explicitly confirmed.  The scores and thresholds of risk-v1 decide      *)
(* nothing beyond that, and a refund policy nobody confirmed does not keep *)
(* the gate shut.                                                          *)
THEOREM GateUnlockedExactly ==
  ASSUME NEW b \in BookingForRisk, NEW consent \in Consent, NEW at \in Nat
  PROVE  PaymentGate(b, consent, {}, at) = "UNLOCKED"
           <=> /\ Sellable(b, at)
               /\ consent.agreementLocked
               /\ consent.explicitConfirmation
PROOF
<1>1. DisputeRisk({}) = 0
  BY DEF DisputeRisk, Points
<1>2. CASE ~Sellable(b, at)
  BY <1>2, BlockingReasons DEF PaymentGate
<1>3. CASE Sellable(b, at)
  <2>1. ValidateBookingFields(b, consent, at) \ CONFIRMATION_REQUIRED_REASONS = {}
    BY <1>3, BlockingReasons
  <2>2. ~(DisputeRisk({}) > disputeRiskMaximum)
    BY <1>1 DEF disputeRiskMaximum
  <2>3. ~(CompletenessScore(b, at) < completenessMinimum)
    BY <1>3, SellableIsComplete DEF completenessMinimum
  <2>4. HoldIsActive(b, at)
    BY <1>3 DEF Sellable, Ready
  <2>5. ASSUME consent.agreementLocked, consent.explicitConfirmation
        PROVE  ~(PaymentReadiness(b, consent, at) < paymentReadinessMinimum)
    <3>1. PaymentReadiness(b, consent, at) \in Int
      BY DEF PaymentReadiness, Points
    <3> QED
      BY <1>3, <2>5, <3>1, ReadinessOfSellable DEF paymentReadinessMinimum
  <2>6. PaymentGate(b, consent, {}, at)
          = IF \/ ~consent.agreementLocked \/ ~consent.explicitConfirmation
               \/ PaymentReadiness(b, consent, at) < paymentReadinessMinimum
            THEN "READY_FOR_CONFIRMATION" ELSE "UNLOCKED"
    BY <2>1, <2>2, <2>3, <2>4 DEF PaymentGate
  <2> QED
    BY <1>3, <2>5, <2>6
<1> QED
  BY <1>2, <1>3
=============================================================================
