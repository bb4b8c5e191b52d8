------------------------------ MODULE WebPage ------------------------------
(***************************************************************************)
(* The state of the operator's page and its reducer                        *)
(* (apps/web/src/features/simulation/hooks).  A page is a record; every    *)
(* operator below is what one action of the reducer makes of it.           *)
(*                                                                         *)
(* A call has at most one booking, one open intent and one receipt, so     *)
(* their ids are named by their call.  What is only shown - labels,        *)
(* subtitles, scores, masked fields - is left out.                         *)
(***************************************************************************)
EXTENDS Naturals, Sequences

CONSTANTS Call, None

Turn == {"customer", "agent"}
BookingStage == {"AGREEMENT_READY", "AGREEMENT_LOCKED", "PAYMENT_PENDING",
                 "RECEIPT_ISSUED", "MANUAL_REVIEW_REQUIRED"}
PageGate == {"LOCKED", "READY_FOR_CONFIRMATION", "UNLOCKED", "MANUAL_REVIEW_REQUIRED"}
SyncStatus == {"IDLE", "PENDING", "COMPLETE", "TIMED_OUT"}
ClosedCall == {"ENDED", "CANCELLED", "FAILED"}

\* What the API answers about a call: its row, its turns, the booking's
\* status (None before there is one) and the gate of the latest assessment.
ServerRow == [status : {"CREATED", "ACTIVE", "ENDED"}, turns : SUBSET Turn,
              stage : BookingStage \cup {None}, gate : PageGate]

ASSUME NoneAssumption == None \notin Call \cup BookingStage /\ None \notin ServerRow

\* What an event of the call's stream carries; bookingId is that of the envelope.
EventName == {"call.created", "call.ended", "transcript.turn.created",
              "transcript.analysis.updated", "risk.payment_gate.updated", "booking.updated",
              "agreement.locked", "payment.intent.created", "payment.confirmed",
              "payment.failed", "receipt.verified"}
Event == [event : EventName, bookingId : Call \cup {None},
          data : Turn \cup BookingStage \cup PageGate \cup {"CREATED", "ENDED", None}]

Ids == Call \cup {None}
PageRow == [callId : Ids, callStatus : {"CREATED", "ACTIVE", "ENDED", None},
            bookingId : Ids, paymentIntentId : Ids, receiptId : Ids,
            booking : [of : Ids, status : BookingStage] \cup {None},
            paymentIntent : Ids, paymentStatus : BookingStage \cup {None},
            receipt : Ids, paymentGate : PageGate,
            transcript : SUBSET (Call \X Turn),
            postCallTranscriptSync : SyncStatus,
            lastSequence : Nat, needsRecovery : BOOLEAN,
            showPaymentDrawer : BOOLEAN, paymentActionPending : BOOLEAN,
            error : BOOLEAN]

InitialPage ==
    [callId |-> None, callStatus |-> None, bookingId |-> None,
     paymentIntentId |-> None, receiptId |-> None, booking |-> None,
     paymentIntent |-> None, paymentStatus |-> None, receipt |-> None,
     paymentGate |-> "LOCKED", transcript |-> {},
     postCallTranscriptSync |-> "IDLE", lastSequence |-> 0,
     needsRecovery |-> FALSE, showPaymentDrawer |-> FALSE,
     paymentActionPending |-> FALSE, error |-> FALSE]

-----------------------------------------------------------------------------
(* The calls of the user.                                                  *)

\* START and CALL_CREATED, as connectLiveCall dispatches them together.
Connected(c) == [InitialPage EXCEPT !.callId = c, !.callStatus = "CREATED"]

\* RESUME, with what the session storage kept.
Resumed(snapshot) ==
    [InitialPage EXCEPT !.callId = snapshot.callId, !.bookingId = snapshot.bookingId,
                        !.paymentIntentId = snapshot.paymentIntentId]

Failed(p) == [p EXCEPT !.error = TRUE, !.paymentActionPending = FALSE]

-----------------------------------------------------------------------------
(* Read models of the API.                                                 *)

\* Mutant of CallSynced: the call's booking is taken for granted.
CallSyncedWithBooking(p, c, row) ==
    [p EXCEPT !.callStatus = row.status, !.bookingId = c]

CallSynced(p, c, row) ==
    [p EXCEPT !.callStatus = row.status,
              !.bookingId = IF row.hasBooking THEN c ELSE @]

HasCustomerAndAgentTurns(turns) == turns = Turn

\* The transcript is complete: a pending synchronisation is over.
Completed(p) ==
    IF p.postCallTranscriptSync = "PENDING"
       /\ HasCustomerAndAgentTurns({t[2] : t \in p.transcript})
    THEN [p EXCEPT !.postCallTranscriptSync = "COMPLETE"] ELSE p

TranscriptSynced(p, c, row) ==
    Completed([p EXCEPT !.transcript = {<<c, t>> : t \in row.turns}])

RiskSynced(p, row) == [p EXCEPT !.paymentGate = row.gate]

BookingSynced(p, b, row) ==
    [p EXCEPT !.booking = [of |-> b, status |-> row.stage], !.bookingId = b]

\* What GET /v1/payments/:bookingId/status says of the intent.
PaymentStatusOf(row) == row.stage

PaymentStatusSynced(p, b, row) ==
    [p EXCEPT !.paymentStatus = PaymentStatusOf(row), !.paymentIntentId = b,
              !.showPaymentDrawer = @ /\ row.stage # "RECEIPT_ISSUED"]

ReceiptSynced(p, b) == [p EXCEPT !.receipt = b, !.receiptId = b]

RecoveryComplete(p) == [p EXCEPT !.needsRecovery = FALSE]

-----------------------------------------------------------------------------
(* Answers to the page's own commands.                                     *)

\* BookingUpdated, AgreementLocked and BOOKING_CONFIRMED keep the id that is there.
WithStatus(p, status) ==
    [p EXCEPT !.booking = [of |-> IF @ = None THEN None ELSE @.of, status |-> status]]

BookingConfirmed(p) == [WithStatus(p, "AGREEMENT_LOCKED") EXCEPT !.paymentGate = "UNLOCKED"]

PaymentIntentCreated(p, b) ==
    [p EXCEPT !.paymentIntent = b, !.paymentIntentId = b, !.showPaymentDrawer = TRUE]

PaymentActionStarted(p) == [p EXCEPT !.paymentActionPending = TRUE]

PaymentStillPending(p) ==
    [p EXCEPT !.paymentActionPending = FALSE, !.showPaymentDrawer = TRUE, !.error = FALSE]

PaymentVerified(p, b) ==
    [p EXCEPT !.paymentActionPending = FALSE, !.showPaymentDrawer = FALSE, !.receiptId = b]

\* PAYMENT_REJECTED and the event payment.failed: the page asks for a manual review.
ToManualReview(p) ==
    [p EXCEPT !.paymentActionPending = FALSE, !.showPaymentDrawer = FALSE,
              !.paymentGate = "MANUAL_REVIEW_REQUIRED",
              !.booking = IF @ = None THEN None
                          ELSE [@ EXCEPT !.status = "MANUAL_REVIEW_REQUIRED"]]

PaymentRejected(p) == [ToManualReview(p) EXCEPT !.error = TRUE]

-----------------------------------------------------------------------------
(* Events of the stream.                                                   *)

\* rememberEvent: a sequence number that is not the next one is a gap.
Remembered(p, e, sequence) ==
    [p EXCEPT !.bookingId = IF e.bookingId # None THEN e.bookingId ELSE @,
              !.lastSequence = IF sequence > @ THEN sequence ELSE @,
              !.needsRecovery = @ \/ (p.lastSequence # 0 /\ sequence > p.lastSequence + 1)]

Applied(p, c, e) ==
    CASE e.event \in {"call.created", "call.ended"} -> [p EXCEPT !.callStatus = e.data]
      [] e.event = "transcript.turn.created" ->
            Completed([p EXCEPT !.transcript = @ \cup {<<c, e.data>>}])
      [] e.event = "risk.payment_gate.updated" -> [p EXCEPT !.paymentGate = e.data]
      [] e.event = "booking.updated" -> WithStatus(p, e.data)
      [] e.event = "agreement.locked" -> BookingConfirmed(p)
      [] e.event = "payment.intent.created" -> [p EXCEPT !.paymentIntentId = e.bookingId]
      [] e.event = "payment.confirmed" -> [p EXCEPT !.showPaymentDrawer = FALSE]
      [] e.event = "payment.failed" -> ToManualReview(p)
      [] e.event = "receipt.verified" -> [p EXCEPT !.receiptId = e.bookingId]
      [] OTHER -> p

ApplyServerEvent(p, c, e, sequence) == Applied(Remembered(p, e, sequence), c, e)

\* A batch of the call's events, given by their sequence numbers, in one dispatch.
ApplyServerEvents(p, c, stream, batch) ==
    LET after[n \in 0..Len(batch)] ==
          IF n = 0 THEN p ELSE ApplyServerEvent(after[n - 1], c, stream[batch[n]], batch[n])
    IN  after[Len(batch)]

-----------------------------------------------------------------------------
(* Session storage.                                                        *)

\* What a reload resumes from; None when nothing is stored.
Snapshot == [callId : Call, bookingId : Ids, paymentIntentId : Ids]

ShouldPersist(p) ==
    p.callId # None /\ p.receiptId = None /\ p.paymentGate # "MANUAL_REVIEW_REQUIRED"

\* Mutant of Persisted: a finished call's pointer stays.
PersistedForGood(p, stored) ==
    IF ShouldPersist(p)
    THEN [callId |-> p.callId, bookingId |-> p.bookingId, paymentIntentId |-> p.paymentIntentId]
    ELSE stored

\* The effect of useServerSessionRecovery after a render.
Persisted(p, stored) ==
    IF ShouldPersist(p)
    THEN [callId |-> p.callId, bookingId |-> p.bookingId, paymentIntentId |-> p.paymentIntentId]
    ELSE IF p.callId # None THEN None ELSE stored

=============================================================================
