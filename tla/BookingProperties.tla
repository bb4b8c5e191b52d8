------------------------- MODULE BookingProperties -------------------------
(***************************************************************************)
(* What BookingFlow is checked against.                                    *)
(***************************************************************************)
EXTENDS BookingFlow

(* The statuses a table leads to, in any number of edges (none is longer   *)
(* than 16).                                                               *)
Doubled(r) ==
  r \cup {<<e[1][1], e[2][2]>> : e \in {p \in r \X r : p[1][2] = p[2][1]}}
Later(table) == Doubled(Doubled(Doubled(Doubled(table))))
LaterBooking == Later(bookingTransitions)
LaterIntent == Later(paymentIntentTransitions)

Paid(i) == receipts[i] # "NOT_CREATED"
-----------------------------------------------------------------------------
(* Type invariant of the whole flow. *)
TypeOK ==
  /\ InventoryTypeOK
  /\ booking \in [Booking -> BookingRow]
  /\ agreement \in [Booking -> AgreementRow \cup {NoAgreement}]
  /\ gate \in [Booking -> PaymentGateStatus]
  /\ intents \in [IntentKey -> IntentRow \cup {NoIntent}]
  /\ txns \in [Signature -> TxnRow \cup {NoTxn}]
  /\ receipts \in [IntentKey -> ReceiptStatus]
  /\ api \in [Client -> Request \cup {Idle}]
  /\ turns \in 0 .. MaxTurns

(* DATA-MODEL section 6, rules 2 and 3: a receipt rests on one confirmed   *)
(* transaction, a signature backs one receipt, and there is an agreement   *)
(* behind it - whatever requests for the same intent race.                 *)
ReceiptBacked ==
  \A i \in IntentKey :
    LET confirming == {s \in Signature : txns[s] = [verdict |-> "CONFIRMED", intent |-> i]}
    IN  /\ Paid(i) <=> confirming # {}
        /\ \A s, u \in confirming : s = u
        /\ Paid(i) => agreement[intents[i].booking] # NoAgreement

(* Seats leave the market for good only against a receipt of the booking   *)
(* that holds them.                                                        *)
ConsumedSeatIsPaid ==
  \A k \in HoldKey :
    holds[k].status = "CONSUMED" =>
      \E i \in IntentKey : Paid(i) /\ intents[i].booking = holds[k].booking

(* A payment intent that can still be paid at the wall clock has seats     *)
(* behind it that last at least as long: the expiry taken from the hold    *)
(* survives the await, other bookings' sweeps and later turns.             *)
LiveIntentHasSeat ==
  \A i \in IntentKey :
    (Open(i) /\ intents[i].expiresAt > now) =>
      \E k \in HoldKey :
        /\ holds[k].status \in {"ACTIVE", "CONSUMED"}
        /\ holds[k].booking = intents[i].booking
        /\ holds[k].expiresAt >= intents[i].expiresAt

(* A booking's status is what its rows say: locked terms have an agreement *)
(* whose hold was its own, a pending payment has an intent, an issued      *)
(* receipt exists.                                                         *)
StatusEvidence ==
  \A b \in Booking :
    /\ (agreement[b] # NoAgreement) <=>
         booking[b].status \in {"AGREEMENT_LOCKED", "PAYMENT_PENDING",
                                "RECEIPT_ISSUED", "MANUAL_REVIEW_REQUIRED"}
    /\ agreement[b] # NoAgreement => holds[agreement[b].hold].booking = b
    /\ booking[b].status = "PAYMENT_PENDING" =>
         \E i \in IntentKey : IntentOf(i, b) /\ Open(i)
    /\ booking[b].status = "RECEIPT_ISSUED" => \E i \in IntentKey : IntentOf(i, b) /\ Paid(i)

(* No step takes back a booking or an intent. *)
BookingForward(b) ==
  \/ booking[b].status \in {"NONE", booking'[b].status}
  \/ <<booking[b].status, booking'[b].status>> \in LaterBooking
IntentForward(i) ==
  \/ intents'[i].status = intents[i].status
  \/ <<intents[i].status, intents'[i].status>> \in LaterIntent

(* A request in flight has been overtaken: what it has read of the rows it *)
(* is about to write is there no more.                                     *)
Overtaken(c) ==
  \/ /\ api[c].pc = "creating"
     /\ booking[api[c].booking].status # api[c].bookingStatus
  \/ /\ api[c].pc = "finalizing"
     /\ \/ ~Open(api[c].intent)
        \/ booking[intents[api[c].intent].booking].status # api[c].bookingStatus

(* Statuses move along the tables, also when an API step jumps several     *)
(* edges: no turn, retry or demo call takes a booking or intent back.      *)
StatusesMoveForward ==
  [][/\ \A b \in Booking : BookingForward(b)
     /\ \A i \in IntentKey : IntentForward(i)]_vars

(* An overtaken request writes the booking, the intent it is about. *)
StaleBookingWrite(b) ==
  \E c \in Client :
    /\ Overtaken(c) /\ api'[c] = Idle
    /\ \/ api[c].pc = "creating" /\ b = api[c].booking
       \/ api[c].pc = "finalizing" /\ b = intents[api[c].intent].booking
StaleIntentWrite(i) ==
  \E c \in Client :
    /\ Overtaken(c) /\ api'[c] = Idle
    /\ api[c].pc = "finalizing" /\ api[c].intent = i

(* With any number of requests in flight a status is only ever taken back  *)
(* by the write of a request that was overtaken between its reading and    *)
(* its write, and only on the rows that request is about: no turn, no      *)
(* tamper check, no demo expiry and no request whose reading still holds   *)
(* does it.                                                                *)
OnlyStaleWritesTakeBack ==
  [][/\ \A b \in Booking : BookingForward(b) \/ StaleBookingWrite(b)
     /\ \A i \in IntentKey : IntentForward(i) \/ StaleIntentWrite(i)]_vars

(* The flow uses the hold table only as Inventory says. *)
HoldsAsInventory == InventorySpec
-----------------------------------------------------------------------------
(***************************************************************************)
(* What the documents say and the code does not do.                        *)
(***************************************************************************)
(* README line 145: a material change invalidates the confirmation, so an  *)
(* intent that is open is for the terms its customer agreed to.            *)
OpenPaymentMatchesAgreement ==
  \A i \in IntentKey :
    Open(i) =>
      LET b == intents[i].booking
      IN  booking[b].dep = agreement[b].dep /\ booking[b].pax = agreement[b].pax

(* BOOKING-CONTRACT lines 378 and 397: money is not taken for seats that   *)
(* are not held; a payment after expiry does not confirm the booking.      *)
PaidSeatHeld ==
  \A i \in IntentKey :
    Paid(i) => \E k \in HoldKey : /\ holds[k].status = "CONSUMED"
                                  /\ holds[k].booking = intents[i].booking

(* STATE-MACHINES line 229: never from CONFIRMED back to PENDING.          *)
ConfirmedIntentNeverReverts ==
  [][\A i \in IntentKey :
       intents[i].status = "CONFIRMED" => intents'[i].status = "CONFIRMED"]_vars
=============================================================================
