--------------------------- MODULE StateMachines ---------------------------
(***************************************************************************)
(* The status tables of packages/domain/src/state-machines.  Every command *)
(* of the API that writes a status asks one of these tables first, with    *)
(* the status it has read; a refusal is a 409 that aborts its transaction. *)
(***************************************************************************)
EXTENDS Naturals

BookingStatus ==
  {"DRAFT", "FIELDS_PARTIAL", "BOOKING_DRAFT_READY", "AGREEMENT_READY",
   "AGREEMENT_LOCKED", "PAYMENT_PENDING", "PAYMENT_CONFIRMED",
   "BOOKING_CONFIRMED", "RECEIPT_ISSUED", "CANCELLED",
   "MANUAL_REVIEW_REQUIRED", "EXPIRED"}

IntentStatus ==
  {"NOT_CREATED", "CREATED", "PENDING", "CONFIRMED", "FAILED", "EXPIRED",
   "REJECTED", "MANUAL_REVIEW_REQUIRED", "CANCELLED"}

ReceiptStatus ==
  {"NOT_CREATED", "ISSUED", "VERIFIED_MATCH", "MISMATCH", "MANUAL_REVIEW"}

CallStatus == {"CREATED", "ACTIVE", "ENDED", "FAILED", "CANCELLED"}

(***************************************************************************)
(* A table is the set of its edges; a status without an edge is terminal.  *)
(***************************************************************************)
callTransitions ==
  ({"CREATED"} \X {"ACTIVE", "CANCELLED", "FAILED"})
    \cup ({"ACTIVE"} \X {"ENDED", "FAILED"})

bookingTransitions ==
  {<<"DRAFT", "FIELDS_PARTIAL">>,
   <<"FIELDS_PARTIAL", "BOOKING_DRAFT_READY">>,
   <<"BOOKING_DRAFT_READY", "AGREEMENT_READY">>,
   <<"AGREEMENT_READY", "AGREEMENT_LOCKED">>,
   <<"AGREEMENT_LOCKED", "PAYMENT_PENDING">>,
   <<"PAYMENT_PENDING", "PAYMENT_CONFIRMED">>,
   <<"PAYMENT_CONFIRMED", "BOOKING_CONFIRMED">>,
   <<"BOOKING_CONFIRMED", "RECEIPT_ISSUED">>}
    \cup ({"DRAFT", "FIELDS_PARTIAL", "BOOKING_DRAFT_READY", "AGREEMENT_READY"}
            \X {"CANCELLED"})
    \cup ({"AGREEMENT_READY", "AGREEMENT_LOCKED", "PAYMENT_PENDING"}
            \X {"EXPIRED"})
    \cup ({"AGREEMENT_LOCKED", "PAYMENT_PENDING", "PAYMENT_CONFIRMED",
           "BOOKING_CONFIRMED", "RECEIPT_ISSUED"}
            \X {"MANUAL_REVIEW_REQUIRED"})

paymentIntentTransitions ==
  {<<"NOT_CREATED", "CREATED">>}
    \cup ({"CREATED"}
            \X {"PENDING", "EXPIRED", "CANCELLED", "MANUAL_REVIEW_REQUIRED"})
    \cup ({"PENDING"}
            \X {"CONFIRMED", "REJECTED", "MANUAL_REVIEW_REQUIRED", "FAILED",
                "EXPIRED", "CANCELLED"})
    \cup ({"FAILED"} \X {"PENDING", "MANUAL_REVIEW_REQUIRED"})

receiptTransitions ==
  {<<"NOT_CREATED", "ISSUED">>, <<"VERIFIED_MATCH", "MISMATCH">>}
    \cup ({"ISSUED"} \X {"VERIFIED_MATCH", "MISMATCH", "MANUAL_REVIEW"})

(* Writing the status a row already has is always allowed. *)
Allowed(table, from, to) == from = to \/ <<from, to>> \in table

(***************************************************************************)
(* transitionBookingThrough: the targets are tried in turn from the status *)
(* the caller has read; one refused target throws and nothing is kept.     *)
(***************************************************************************)
PathAllowed(table, from, path) ==
  \A n \in DOMAIN path :
    Allowed(table, IF n = 1 THEN from ELSE path[n - 1], path[n])

=============================================================================
