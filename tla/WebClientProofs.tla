-------------------------- MODULE WebClientProofs --------------------------
(***************************************************************************)
(* Theorems about the page of WebClient, for any calls and any bounds: its *)
(* state keeps its type; every id it holds, sends or stores names a call   *)
(* or a booking that the API has; at rest it shows what the API holds      *)
(* about its call, and a reload resumes that call as long as it is open;   *)
(* and a page that waits for the provider's history has something under    *)
(* way that ends the waiting. WebInv is the inductive invariant of the     *)
(* first two, FollowInv, on top of it, that of the next two, and           *)
(* AttendInv, on top of both, that of the last.                            *)
(***************************************************************************)
EXTENDS WebProperties, SequenceTheorems, WellFoundedInduction, TLAPS

(***************************************************************************)
(* Types over R, the calls that the API has, and B, those of them with a   *)
(* booking.                                                                *)
(***************************************************************************)
Rows == {c \in Call : server[c] # None}
Bookings == {c \in Call : server[c] # None /\ server[c].stage # None}

OrNone(S) == S \cup {None}

HintsOf(B) == [bookingId : OrNone(B), paymentIntentId : OrNone(B), receiptId : OrNone(B)]

PagesOf(R, B) ==
    [callId : OrNone(R), callStatus : {"CREATED", "ACTIVE", "ENDED", None},
     bookingId : OrNone(B), paymentIntentId : OrNone(B), receiptId : OrNone(B),
     booking : [of : OrNone(B), status : BookingStage] \cup {None},
     paymentIntent : OrNone(B), paymentStatus : BookingStage \cup {None},
     receipt : OrNone(B), paymentGate : PageGate,
     transcript : SUBSET (Call \X Turn),
     postCallTranscriptSync : SyncStatus,
     lastSequence : Nat, needsRecovery : BOOLEAN,
     showPaymentDrawer : BOOLEAN, paymentActionPending : BOOLEAN,
     error : BOOLEAN]

StoredOf(R, B) == [callId : R, bookingId : OrNone(B), paymentIntentId : OrNone(B)] \cup {None}

(* What an event carries depends on its name. *)
EventsOf(B) ==
    {e \in [event : EventName, bookingId : OrNone(B),
            data : Turn \cup BookingStage \cup PageGate \cup {"CREATED", "ENDED", None}] :
       /\ e.event \in {"call.created", "call.ended"} => e.data \in {"CREATED", "ENDED"}
       /\ e.event = "transcript.turn.created" => e.data \in Turn
       /\ e.event = "risk.payment_gate.updated" => e.data \in PageGate
       /\ e.event = "booking.updated" => e.data \in BookingStage}

(* An answer of the API to the GET of a run. *)
AnswerFits(run, B) ==
    CASE Get[run.get] = "call" ->
            /\ run.answer.status \in {"CREATED", "ACTIVE", "ENDED"}
            /\ run.answer.hasBooking \in BOOLEAN
            /\ run.answer.hasBooking => run.callId \in B
      [] Get[run.get] = "transcript" -> run.answer.turns \in SUBSET Turn
      [] Get[run.get] = "risk" -> run.answer.gate \in PageGate
      [] Get[run.get] \in {"booking", "payment"} -> run.answer.stage \in BookingStage
      [] OTHER -> TRUE

RunsOf(R, B) == [callId : OrNone(R), hints : HintsOf(B), get : 1 .. Len(Get),
                 answer : ApiAnswer \cup {None},
                 hasBooking : BOOLEAN, complete : BOOLEAN, state : HintsOf(B),
                 heard : BOOLEAN]

(* A run of the recovery asks about what the API has, and only for what it *)
(* wants.                                                                  *)
RunFits(run, R, B) ==
    /\ run \in RunsOf(R, B)
    /\ Wanted(run, run.get)
    /\ run.hasBooking => run.callId \in B
    /\ run.answer # None => run.callId \in R /\ AnswerFits(run, B)

QueuedFits(q, R, B) == q # None => q \in [callId : OrNone(R), hints : HintsOf(B)]

CoFits(co, R, B) ==
    /\ co.active # None => RunFits(co.active, R, B)
    /\ QueuedFits(co.queued, R, B)
    /\ co.queued # None => co.active # None

Requests(B) ==
    {r \in [Command -> [state : {"idle", "sent", "lost"} \cup Outcome, booking : OrNone(B)]] :
       \A k \in Command : r[k].state # "idle" => r[k].booking \in B}

LateOf(R, B) == [command : Command, booking : B] \cup [command : {"end"}, booking : R]

ChainsOf(R) == {s \in [state : {"off", "timer", "adrift", "waiting"},
                       callId : OrNone(R), attempts : Nat] :
                  /\ s.attempts < SyncAttempts
                  /\ s.state # "off" => s.callId \in R}
SyncsOf(R) == [1 .. MaxChains -> ChainsOf(R)]
-----------------------------------------------------------------------------
(***************************************************************************)
(* Numbers and recursive functions over 0 .. N.                            *)
(***************************************************************************)
(* A set of numbers that is not empty has a least one. *)
LEMMA LeastNumber ==
  ASSUME NEW S \in SUBSET Nat, S # {}
  PROVE  \E n \in S : \A m \in S : n <= m
<1>1. PICK n \in S : \A m \in S : ~(<<m, n>> \in OpToRel(<, Nat))
  BY NatLessThanWellFounded, WFMin
<1>2. ASSUME NEW m \in S
      PROVE  n <= m
  <2>1. m \in Nat /\ n \in Nat
    OBVIOUS
  <2>2. ~(m < n)
    BY <1>1, <2>1 DEF OpToRel
  <2> QED
    BY <2>1, <2>2
<1> QED
  BY <1>2

(* f is the recursion over 0 .. N from base. *)
IsRecursion(f, N, base, step) ==
  f = [n \in 0 .. N |-> IF n = 0 THEN base ELSE step[<<f[n - 1], n>>]]

(* A recursion has a value, whatever its step does. *)
LEMMA RecursionHasValue ==
  ASSUME NEW N \in Nat, NEW base, NEW step
  PROVE  \E f : IsRecursion(f, N, base, step)
<1> DEFINE Fits(f, k) ==
             f = [n \in 0 .. k |-> IF n = 0 THEN base ELSE step[<<f[n - 1], n>>]]
           Missing == {k \in 0 .. N : ~ \E f : Fits(f, k)}
<1>1. ASSUME Missing # {} PROVE FALSE
  <2>1. Missing \in SUBSET Nat
    OBVIOUS
  <2> HIDE DEF Missing
  <2>2. PICK k \in Missing : \A l \in Missing : k <= l
    BY <1>1, <2>1, LeastNumber
  <2>3. k \in 0 .. N /\ ~ \E f : Fits(f, k)
    BY <2>2 DEF Missing
  <2>4. CASE k = 0
    <3> DEFINE f == [n \in 0 .. 0 |-> base]
    <3>1. f = [n \in 0 .. 0 |-> IF n = 0 THEN base ELSE step[<<f[n - 1], n>>]]
      OBVIOUS
    <3> HIDE DEF f
    <3>2. Fits(f, 0)
      BY <3>1
    <3> QED
      BY <2>3, <2>4, <3>2
  <2>5. CASE k # 0
    <3>1. k - 1 \in 0 .. N /\ ~(k <= k - 1)
      BY <2>3, <2>5
    <3>2. k - 1 \notin Missing
      BY <2>2, <3>1
    <3>3. PICK h : Fits(h, k - 1)
      BY <3>1, <3>2 DEF Missing
    <3> DEFINE f == [n \in 0 .. k |-> IF n = 0 THEN base ELSE step[<<h[n - 1], n>>]]
    <3>4. \A n \in 0 .. k - 1 : f[n] = h[n]
      <4>1. \A n \in 0 .. k - 1 : n \in 0 .. k
        BY <2>3
      <4>2. \A n \in 0 .. k - 1 : h[n] = IF n = 0 THEN base ELSE step[<<h[n - 1], n>>]
        BY <3>3
      <4> HIDE DEF Fits
      <4> QED
        BY <4>1, <4>2
    <3>5. \A n \in 0 .. k : n # 0 => n - 1 \in 0 .. k - 1
      BY <2>3
    <3>6. f = [n \in 0 .. k |-> IF n = 0 THEN base ELSE step[<<f[n - 1], n>>]]
      BY <3>4, <3>5
    <3> HIDE DEF f
    <3>7. Fits(f, k)
      BY <3>6
    <3> QED
      BY <2>3, <3>7
  <2> QED
    BY <2>4, <2>5
<1>2. N \in 0 .. N /\ N \notin Missing
  <2> HIDE DEF Missing
  <2> QED
    BY <1>1
<1>3. \E f : Fits(f, N)
  BY <1>2
<1> QED
  BY <1>3 DEF IsRecursion

(* What holds at the start and is kept by every step holds at every n. *)
LEMMA RecursionKeeps ==
  ASSUME NEW N \in Nat, NEW Good, 0 \in Good,
         \A n \in 1 .. N : n - 1 \in Good => n \in Good
  PROVE  \A n \in 0 .. N : n \in Good
<1> DEFINE Bad == {n \in 0 .. N : n \notin Good}
<1>1. ASSUME Bad # {} PROVE FALSE
  <2>1. Bad \in SUBSET Nat
    OBVIOUS
  <2>2. PICK n \in Bad : \A m \in Bad : n <= m
    BY <1>1, <2>1, LeastNumber
  <2>3. n \in 1 .. N /\ n - 1 \in 0 .. N /\ ~(n <= n - 1)
    OBVIOUS
  <2>4. n - 1 \notin Bad
    BY <2>2, <2>3
  <2> QED
    BY <2>3, <2>4
<1> QED
  BY <1>1
-----------------------------------------------------------------------------
(***************************************************************************)
(* What the reducer makes of a page keeps the page's type.                 *)
(***************************************************************************)
(* An empty page, one that has connected a call, and one that resumes a    *)
(* stored one.                                                             *)
LEMMA FreshPages ==
  ASSUME NEW R, NEW B
  PROVE  /\ InitialPage \in PagesOf(R, B)
         /\ \A c \in R : Connected(c) \in PagesOf(R, B)
         /\ \A s \in StoredOf(R, B) : s # None => Resumed(s) \in PagesOf(R, B)
<1>1. InitialPage \in PagesOf(R, B)
  BY DEF InitialPage, PagesOf, OrNone, PageGate, SyncStatus
<1>2. ASSUME NEW c \in R
      PROVE  Connected(c) \in PagesOf(R, B)
  BY <1>1 DEF Connected, PagesOf, OrNone
<1>3. ASSUME NEW s \in StoredOf(R, B), s # None
      PROVE  Resumed(s) \in PagesOf(R, B)
  BY <1>1, <1>3 DEF Resumed, PagesOf, StoredOf, OrNone
<1> QED
  BY <1>1, <1>2, <1>3

(* A reading of the API. *)
LEMMA SyncedPages ==
  ASSUME NEW R \in SUBSET Call, NEW B, NEW p \in PagesOf(R, B)
  PROVE  /\ Completed(p) \in PagesOf(R, B)
         /\ \A c \in Call : \A a :
               /\ a.status \in {"CREATED", "ACTIVE", "ENDED"} /\ (a.hasBooking => c \in B)
                     => CallSynced(p, c, a) \in PagesOf(R, B)
               /\ a.turns \in SUBSET Turn => TranscriptSynced(p, c, a) \in PagesOf(R, B)
         /\ \A a : a.gate \in PageGate => RiskSynced(p, a) \in PagesOf(R, B)
         /\ \A b \in B : \A a : a.stage \in BookingStage
                                 => /\ BookingSynced(p, b, a) \in PagesOf(R, B)
                                    /\ PaymentStatusSynced(p, b, a) \in PagesOf(R, B)
         /\ \A b \in B : ReceiptSynced(p, b) \in PagesOf(R, B)
         /\ RecoveryComplete(p) \in PagesOf(R, B)
<1>1. ASSUME NEW q \in PagesOf(R, B)
      PROVE  Completed(q) \in PagesOf(R, B)
  BY <1>1 DEF Completed, PagesOf, SyncStatus
<1>2. ASSUME NEW c \in Call, NEW a, a.status \in {"CREATED", "ACTIVE", "ENDED"},
             a.hasBooking => c \in B
      PROVE  CallSynced(p, c, a) \in PagesOf(R, B)
  <2> DEFINE b == IF a.hasBooking THEN c ELSE p.bookingId
  <2>1. b \in OrNone(B)
    BY <1>2 DEF PagesOf, OrNone
  <2>2. CallSynced(p, c, a) = [p EXCEPT !.callStatus = a.status, !.bookingId = b]
    BY DEF CallSynced
  <2> HIDE DEF b
  <2>3. [p EXCEPT !.callStatus = a.status, !.bookingId = b] \in PagesOf(R, B)
    BY <1>2, <2>1 DEF PagesOf
  <2> QED
    BY <2>2, <2>3
<1>3. ASSUME NEW c \in Call, NEW a, a.turns \in SUBSET Turn
      PROVE  TranscriptSynced(p, c, a) \in PagesOf(R, B)
  <2>1. [p EXCEPT !.transcript = {<<c, t>> : t \in a.turns}] \in PagesOf(R, B)
    BY <1>3 DEF PagesOf
  <2> QED
    BY <1>1, <2>1 DEF TranscriptSynced
<1>4. ASSUME NEW a, a.gate \in PageGate
      PROVE  RiskSynced(p, a) \in PagesOf(R, B)
  BY <1>4 DEF RiskSynced, PagesOf
<1>5. ASSUME NEW b \in B, NEW a, a.stage \in BookingStage
      PROVE  /\ BookingSynced(p, b, a) \in PagesOf(R, B)
             /\ PaymentStatusSynced(p, b, a) \in PagesOf(R, B)
  <2> DEFINE shown == p.showPaymentDrawer /\ a.stage # "RECEIPT_ISSUED"
             booking == [of |-> b, status |-> a.stage]
  <2>1. /\ shown \in BOOLEAN /\ b \in OrNone(B)
        /\ booking \in [of : OrNone(B), status : BookingStage] \cup {None}
    BY <1>5 DEF OrNone
  <2>2. /\ BookingSynced(p, b, a) = [p EXCEPT !.booking = booking, !.bookingId = b]
        /\ PaymentStatusSynced(p, b, a)
             = [p EXCEPT !.paymentStatus = a.stage, !.paymentIntentId = b,
                         !.showPaymentDrawer = shown]
    BY DEF BookingSynced, PaymentStatusSynced, PaymentStatusOf
  <2> HIDE DEF shown, booking
  <2>3. [p EXCEPT !.booking = booking, !.bookingId = b] \in PagesOf(R, B)
    BY <2>1 DEF PagesOf
  <2>4. [p EXCEPT !.paymentStatus = a.stage, !.paymentIntentId = b,
                  !.showPaymentDrawer = shown] \in PagesOf(R, B)
    BY <1>5, <2>1 DEF PagesOf
  <2> QED
    BY <2>2, <2>3, <2>4
<1>6. ASSUME NEW b \in B
      PROVE  ReceiptSynced(p, b) \in PagesOf(R, B)
  <2>1. b \in OrNone(B)
    BY <1>6 DEF OrNone
  <2> QED
    BY <2>1 DEF ReceiptSynced, PagesOf
<1>7. RecoveryComplete(p) \in PagesOf(R, B)
  BY DEF RecoveryComplete, PagesOf
<1> QED
  BY <1>1, <1>2, <1>3, <1>4, <1>5, <1>6, <1>7

(* A reply to a command, or what the page does when it sends one. *)
LEMMA RepliedPages ==
  ASSUME NEW R, NEW B, NEW p \in PagesOf(R, B)
  PROVE  /\ \A status \in BookingStage : WithStatus(p, status) \in PagesOf(R, B)
         /\ BookingConfirmed(p) \in PagesOf(R, B)
         /\ \A b \in B : /\ PaymentIntentCreated(p, b) \in PagesOf(R, B)
                        /\ PaymentVerified(p, b) \in PagesOf(R, B)
         /\ PaymentActionStarted(p) \in PagesOf(R, B)
         /\ PaymentStillPending(p) \in PagesOf(R, B)
         /\ ToManualReview(p) \in PagesOf(R, B)
         /\ PaymentRejected(p) \in PagesOf(R, B)
         /\ Failed(p) \in PagesOf(R, B)
<1>1. ASSUME NEW status \in BookingStage
      PROVE  WithStatus(p, status) \in PagesOf(R, B)
  BY <1>1 DEF WithStatus, PagesOf, OrNone
<1>2. BookingConfirmed(p) \in PagesOf(R, B)
  <2>1. WithStatus(p, "AGREEMENT_LOCKED") \in PagesOf(R, B)
    BY <1>1 DEF BookingStage
  <2> QED
    BY <2>1 DEF BookingConfirmed, PagesOf, PageGate
<1>3. ASSUME NEW b \in B
      PROVE  /\ PaymentIntentCreated(p, b) \in PagesOf(R, B)
             /\ PaymentVerified(p, b) \in PagesOf(R, B)
  <2>1. b \in OrNone(B)
    BY DEF OrNone
  <2>2. PaymentIntentCreated(p, b) \in PagesOf(R, B)
    BY <2>1 DEF PaymentIntentCreated, PagesOf
  <2>3. PaymentVerified(p, b) \in PagesOf(R, B)
    BY <2>1 DEF PaymentVerified, PagesOf
  <2> QED
    BY <2>2, <2>3
<1>4. /\ PaymentActionStarted(p) \in PagesOf(R, B)
      /\ PaymentStillPending(p) \in PagesOf(R, B)
      /\ Failed(p) \in PagesOf(R, B)
  BY DEF PaymentActionStarted, PaymentStillPending, Failed, PagesOf
<1>5. ToManualReview(p) \in PagesOf(R, B)
  <2> DEFINE booking == IF p.booking = None THEN None
                        ELSE [p.booking EXCEPT !.status = "MANUAL_REVIEW_REQUIRED"]
  <2>1. /\ booking \in [of : OrNone(B), status : BookingStage] \cup {None}
        /\ "MANUAL_REVIEW_REQUIRED" \in PageGate
    BY DEF PagesOf, PageGate, BookingStage
  <2>2. ToManualReview(p)
          = [p EXCEPT !.paymentActionPending = FALSE, !.showPaymentDrawer = FALSE,
                      !.paymentGate = "MANUAL_REVIEW_REQUIRED", !.booking = booking]
    BY DEF ToManualReview
  <2> HIDE DEF booking
  <2> QED
    BY <2>1, <2>2, ZenonT(60) DEF PagesOf
<1>6. PaymentRejected(p) \in PagesOf(R, B)
  BY <1>5 DEF PaymentRejected, PagesOf
<1> QED
  BY <1>1, <1>2, <1>3, <1>4, <1>5, <1>6

(* An event of the stream. *)
LEMMA AppliedPages ==
  ASSUME NEW R \in SUBSET Call, NEW B, NEW p \in PagesOf(R, B), NEW c \in R,
         NEW e \in EventsOf(B), NEW n \in Nat
  PROVE  ApplyServerEvent(p, c, e, n) \in PagesOf(R, B)
<1> DEFINE q == Remembered(p, e, n)
<1>1. q \in PagesOf(R, B)
  <2> DEFINE id == IF e.bookingId # None THEN e.bookingId ELSE p.bookingId
             last == IF n > p.lastSequence THEN n ELSE p.lastSequence
             gap == p.needsRecovery \/ (p.lastSequence # 0 /\ n > p.lastSequence + 1)
  <2>1. id \in OrNone(B) /\ last \in Nat /\ gap \in BOOLEAN
    BY DEF PagesOf, EventsOf
  <2>2. q = [p EXCEPT !.bookingId = id, !.lastSequence = last, !.needsRecovery = gap]
    BY DEF Remembered
  <2> HIDE DEF id, last, gap, q
  <2> QED
    BY <2>1, <2>2 DEF PagesOf
<1> HIDE DEF q
<1>2. e.bookingId \in OrNone(B)
  BY DEF EventsOf
<1>3. CASE e.event \in {"call.created", "call.ended"}
  <2>1. e.data \in {"CREATED", "ENDED"}
    BY <1>3 DEF EventsOf
  <2>2. [q EXCEPT !.callStatus = e.data] \in PagesOf(R, B)
    BY <1>1, <2>1 DEF PagesOf
  <2> QED
    BY <1>3, <2>2 DEF ApplyServerEvent, Applied, q
<1>4. CASE e.event = "transcript.turn.created"
  <2>1. e.data \in Turn
    BY <1>4 DEF EventsOf
  <2>2. [q EXCEPT !.transcript = @ \cup {<<c, e.data>>}] \in PagesOf(R, B)
    BY <1>1, <2>1 DEF PagesOf
  <2>3. Completed([q EXCEPT !.transcript = @ \cup {<<c, e.data>>}]) \in PagesOf(R, B)
    BY <2>2, SyncedPages
  <2> QED
    BY <1>4, <2>3 DEF ApplyServerEvent, Applied, q
<1>5. CASE e.event = "risk.payment_gate.updated"
  <2>1. e.data \in PageGate
    BY <1>5 DEF EventsOf
  <2>2. [q EXCEPT !.paymentGate = e.data] \in PagesOf(R, B)
    BY <1>1, <2>1 DEF PagesOf
  <2> QED
    BY <1>5, <2>2 DEF ApplyServerEvent, Applied, q
<1>6. CASE e.event = "booking.updated"
  <2>1. e.data \in BookingStage
    BY <1>6 DEF EventsOf
  <2>2. WithStatus(q, e.data) \in PagesOf(R, B)
    BY <1>1, <2>1, RepliedPages
  <2> QED
    BY <1>6, <2>2 DEF ApplyServerEvent, Applied, q
<1>7. CASE e.event \in {"agreement.locked", "payment.failed"}
  BY <1>1, <1>7, RepliedPages DEF ApplyServerEvent, Applied, q
<1>8. CASE e.event \in {"payment.intent.created", "payment.confirmed", "receipt.verified"}
  <2>1. [q EXCEPT !.paymentIntentId = e.bookingId] \in PagesOf(R, B)
    BY <1>1, <1>2 DEF PagesOf
  <2>2. [q EXCEPT !.showPaymentDrawer = FALSE] \in PagesOf(R, B)
    BY <1>1 DEF PagesOf
  <2>3. [q EXCEPT !.receiptId = e.bookingId] \in PagesOf(R, B)
    BY <1>1, <1>2 DEF PagesOf
  <2> QED
    BY <1>8, <2>1, <2>2, <2>3 DEF ApplyServerEvent, Applied, q
<1>9. CASE e.event \notin {"call.created", "call.ended", "transcript.turn.created",
                          "risk.payment_gate.updated", "booking.updated",
                          "agreement.locked", "payment.intent.created",
                          "payment.confirmed", "payment.failed", "receipt.verified"}
  BY <1>1, <1>9 DEF ApplyServerEvent, Applied, q
<1> QED
  BY <1>3, <1>4, <1>5, <1>6, <1>7, <1>8, <1>9

(* f are the pages from p on, an event of the batch at a time. *)
Follows(f, p, c, S, seen) ==
  /\ f[0] = p
  /\ \A n \in 1 .. Len(seen) : f[n] = ApplyServerEvent(f[n - 1], c, S[seen[n]], seen[n])

(* A batch makes of the page what the last of its events does. *)
BatchEnds(p, c, events, seen, R, B) ==
  \E f : /\ Follows(f, p, c, events, seen)
         /\ \A n \in 0 .. Len(seen) : f[n] \in PagesOf(R, B)
         /\ ApplyServerEvents(p, c, events, seen) = f[Len(seen)]

(* Every batch does. *)
LEMMA BatchValue ==
  ASSUME NEW R \in SUBSET Call, NEW B, NEW p \in PagesOf(R, B), NEW c \in R,
         NEW events \in Seq(EventsOf(B)), NEW seen \in Seq(1 .. Len(events))
  PROVE  BatchEnds(p, c, events, seen, R, B)
<1> DEFINE N == Len(seen)
           Pages == PagesOf(R, B)
           Fits(f) == f = [n \in 0 .. N |->
                             IF n = 0 THEN p
                             ELSE ApplyServerEvent(f[n - 1], c, events[seen[n]], seen[n])]
           step == [x \in Pages \X (1 .. N) |->
                      ApplyServerEvent(x[1], c, events[seen[x[2]]], seen[x[2]])]
<1>1. N \in Nat
  OBVIOUS
<1>2. ASSUME NEW n \in 1 .. N, NEW q \in Pages
      PROVE  ApplyServerEvent(q, c, events[seen[n]], seen[n]) \in Pages
  <2>1. seen[n] \in 1 .. Len(events)
    OBVIOUS
  <2>2. events[seen[n]] \in EventsOf(B) /\ seen[n] \in Nat
    BY <2>1
  <2> HIDE DEF N
  <2> QED
    BY <2>2, AppliedPages
<1>3. \A n \in 1 .. N : n \in 0 .. N /\ n # 0 /\ n - 1 \in 0 .. N
  BY <1>1
<1> HIDE DEF N, Pages
<1>4. ASSUME NEW f, Fits(f)
      PROVE  \A n \in 0 .. N : f[n] \in Pages
  <2> DEFINE Good == {n \in 0 .. N : f[n] \in Pages}
  <2>1. 0 \in Good
    BY <1>1, <1>4 DEF Pages
  <2>2. \A n \in 1 .. N : n - 1 \in Good => n \in Good
    BY <1>2, <1>3, <1>4
  <2> HIDE DEF Good
  <2>3. \A n \in 0 .. N : n \in Good
    BY <1>1, <2>1, <2>2, RecursionKeeps
  <2> QED
    BY <2>3 DEF Good
<1>5. \E f : Fits(f)
  <2> HIDE DEF step
  <2>1. PICK f : f = [n \in 0 .. N |-> IF n = 0 THEN p ELSE step[<<f[n - 1], n>>]]
    <3>1. \E f : IsRecursion(f, N, p, step)
      BY <1>1, RecursionHasValue
    <3> QED
      BY <3>1 DEF IsRecursion
  <2>2. ASSUME NEW n \in 1 .. N, f[n - 1] \in Pages
        PROVE  step[<<f[n - 1], n>>]
                 = ApplyServerEvent(f[n - 1], c, events[seen[n]], seen[n])
    BY <2>2 DEF step
  <2>3. \A n \in 0 .. N : f[n] = IF n = 0 THEN p ELSE step[<<f[n - 1], n>>]
    BY <2>1
  <2> DEFINE Good == {n \in 0 .. N : f[n] \in Pages}
  <2>4. 0 \in Good
    <3>1. 0 \in 0 .. N /\ p \in Pages
      BY <1>1 DEF Pages
    <3> HIDE DEF Fits
    <3> QED
      BY <2>3, <3>1
  <2>5. \A n \in 1 .. N : n - 1 \in Good => n \in Good
    BY <1>2, <1>3, <2>2, <2>3
  <2> HIDE DEF Good
  <2>6. \A n \in 0 .. N : n \in Good
    BY <1>1, <2>4, <2>5, RecursionKeeps
  <2>7. \A n \in 1 .. N : f[n] = ApplyServerEvent(f[n - 1], c, events[seen[n]], seen[n])
    <3>1. \A n \in 0 .. N : f[n] \in Pages
      BY <2>6 DEF Good
    <3> QED
      BY <1>3, <2>2, <2>3, <3>1
  <2>8. \A n \in 0 .. N : n # 0 => n \in 1 .. N
    BY <1>1
  <2>9. f = [n \in 0 .. N |-> f[n]]
    BY <2>1
  <2>10. \A n \in 0 .. N :
           f[n] = IF n = 0 THEN p
                  ELSE ApplyServerEvent(f[n - 1], c, events[seen[n]], seen[n])
    BY <2>3, <2>7, <2>8
  <2> QED
    BY <2>9, <2>10
<1>6. Fits(CHOOSE f : Fits(f))
  <2> HIDE DEF Fits
  <2> QED
    BY <1>5
<1>7. N \in 0 .. N
  BY <1>1
<1> DEFINE after == CHOOSE f : Fits(f)
<1>8. \A n \in 0 .. N : after[n] \in Pages
  BY <1>4, <1>6
<1>9. ApplyServerEvents(p, c, events, seen) = after[N]
  BY DEF ApplyServerEvents, N
<1> HIDE DEF after
<1>10. Follows(after, p, c, events, seen)
  <2>1. after = [n \in 0 .. N |->
                   IF n = 0 THEN p
                   ELSE ApplyServerEvent(after[n - 1], c, events[seen[n]], seen[n])]
    BY <1>6 DEF after
  <2>2. after[0] = p
    BY <1>1, <2>1
  <2>3. \A n \in 1 .. N : after[n] = ApplyServerEvent(after[n - 1], c, events[seen[n]], seen[n])
    BY <1>3, <2>1
  <2> QED
    BY <2>2, <2>3 DEF Follows, N
<1> QED
  BY <1>8, <1>9, <1>10 DEF N, Pages, BatchEnds

(* So a batch keeps the type. *)
LEMMA BatchedPages ==
  ASSUME NEW R \in SUBSET Call, NEW B, NEW p \in PagesOf(R, B), NEW c \in R,
         NEW events \in Seq(EventsOf(B)), NEW seen \in Seq(1 .. Len(events))
  PROVE  ApplyServerEvents(p, c, events, seen) \in PagesOf(R, B)
<1>1. BatchEnds(p, c, events, seen, R, B)
  BY BatchValue
<1>2. Len(seen) \in 0 .. Len(seen)
  OBVIOUS
<1> QED
  BY <1>1, <1>2 DEF BatchEnds
-----------------------------------------------------------------------------
(***************************************************************************)
(* The recovery, the requests and the storage keep their types.            *)
(***************************************************************************)
(* The reads of a run, by number. *)
LEMMA GetNames ==
  /\ Len(Get) = 7 /\ Get[1] = "call" /\ Get[2] = "transcript" /\ Get[3] = "risk"
  /\ Get[4] = "booking" /\ Get[5] = "payment" /\ Get[6] = "receipt" /\ Get[7] = "twin"
  BY DEF Get

(* Hints that a later request adds to those of the run that waits. *)
LEMMA MergedFits ==
  ASSUME NEW B, NEW old \in HintsOf(B), NEW new \in HintsOf(B)
  PROVE  Merged(old, new) \in HintsOf(B)
  BY DEF Merged, HintsOf

(* A run that has just begun. *)
LEMMA RunBegins ==
  ASSUME NEW R, NEW B, NEW p \in PagesOf(R, B), NEW c \in OrNone(R), NEW hints \in HintsOf(B)
  PROVE  RunFits(Run(p, c, hints), R, B)
<1> DEFINE run == Run(p, c, hints)
<1>1. run \in RunsOf(R, B)
  BY GetNames DEF Run, RunsOf, PagesOf, HintsOf
<1>2. run.get = 1 /\ run.hasBooking = FALSE /\ run.answer = None
  BY DEF Run
<1>3. Wanted(run, 1)
  BY GetNames DEF Wanted
<1> QED
  BY <1>1, <1>2, <1>3 DEF RunFits

(* Who asks for a recovery joins the run that is active, and queues his    *)
(* hints behind it.                                                        *)
LEMMA RequestFits ==
  ASSUME NEW R \in SUBSET Call, NEW B \in SUBSET Call, NEW p \in PagesOf(R, B),
         NEW c \in OrNone(R), NEW hints \in HintsOf(B),
         NEW by \in {"page", "sync", "nobody"}, NEW co, CoFits(co, R, B)
  PROVE  CoFits(Request(co, p, c, hints, by), R, B)
<1> DEFINE run == IF co.active = None THEN Run(p, c, hints) ELSE co.active
           heard == run.heard \/ by = "page"
           joined == [run EXCEPT !.heard = heard]
           later == [callId |-> c,
                     hints |-> IF co.queued = None THEN hints ELSE Merged(co.queued.hints, hints)]
<1>1. RunFits(run, R, B)
  BY RunBegins DEF CoFits
<1>2. /\ Request(co, p, c, hints, by).active = joined
      /\ Request(co, p, c, hints, by).queued = IF co.active = None THEN co.queued ELSE later
  BY DEF Request
<1>3. later \in [callId : OrNone(R), hints : HintsOf(B)]
  BY MergedFits DEF CoFits, QueuedFits
<1> HIDE DEF run, later
<1>4. heard \in BOOLEAN
  BY <1>1 DEF RunFits, RunsOf
<1> HIDE DEF heard
<1>5. joined \in RunsOf(R, B)
  BY <1>1, <1>4 DEF RunFits, RunsOf
<1>6. /\ joined.get = run.get /\ joined.hasBooking = run.hasBooking
      /\ joined.callId = run.callId /\ joined.answer = run.answer
      /\ joined.hints = run.hints /\ joined.state = run.state
  BY <1>1 DEF RunFits, RunsOf
<1> HIDE DEF joined
<1>7. RunFits(joined, R, B)
  BY <1>1, <1>5, <1>6 DEF RunFits, Wanted, AnswerFits, BookingOf, ReceiptOf, AsksForPayment
<1>8. joined # None
  <2>1. R \subseteq Call /\ B \subseteq Call
    OBVIOUS
  <2>2. joined \in RunRow
    BY <1>5, <2>1 DEF RunsOf, RunRow, HintsOf, IdHints, OrNone, Ids
  <2> QED
    BY <2>2, NoRunAssumption
<1> QED
  BY <1>2, <1>3, <1>7, <1>8 DEF CoFits, QueuedFits

(* The effects of a dispatch. *)
LEMMA DispatchFits ==
  ASSUME NEW R \in SUBSET Call, NEW B \in SUBSET Call,
         page \in PagesOf(R, B), storage \in StoredOf(R, B), 
         NEW p \in PagesOf(R, B), NEW co, CoFits(co, R, B), NEW r \in Requests(B),
         Dispatch(p, co, r)
  PROVE  /\ page' \in PagesOf(R, B) /\ storage' \in StoredOf(R, B)
         /\ CoFits([active |-> active', queued |-> queued'], R, B)
         /\ req' \in Requests(B)
<1>1. page' = p /\ storage' = Persisted(p, storage)
      /\ active' = GapAsks(co, p).active /\ queued' = GapAsks(co, p).queued
      /\ req' = IntentAsked(r, p)
  BY DEF Dispatch
<1>2. Persisted(p, storage) \in StoredOf(R, B)
  BY DEF Persisted, ShouldPersist, StoredOf, PagesOf, OrNone
<1>3. CoFits(GapAsks(co, p), R, B)
  <2>1. NoHints \in HintsOf(B) /\ p.callId \in OrNone(R)
    BY DEF NoHints, HintsOf, OrNone, PagesOf
  <2>2. CoFits(Request(co, p, p.callId, NoHints, "page"), R, B)
    BY <2>1, RequestFits
  <2> QED
    BY <2>2 DEF GapAsks
<1>4. IntentAsked(r, p) \in Requests(B)
  <2>1. CASE p.bookingId # None
    <3>1. p.bookingId \in B
      BY <2>1 DEF PagesOf, OrNone
    <3>2. [r EXCEPT !["create"] = [state |-> "sent", booking |-> p.bookingId]] \in Requests(B)
      BY <3>1 DEF Requests, OrNone, Command
    <3> QED
      BY <3>2 DEF IntentAsked
  <2>2. CASE p.bookingId = None
    BY <2>2 DEF IntentAsked
  <2> QED
    BY <2>1, <2>2
<1> QED
  BY <1>1, <1>2, <1>3, <1>4 DEF CoFits
-----------------------------------------------------------------------------
(***************************************************************************)
(* The invariant: every part of the state has its type over the calls and  *)
(* bookings that the API has, and the page reads what the stream holds.    *)
(***************************************************************************)
ServerFits ==
  /\ server \in [Call -> ServerRow \cup {None}]
  /\ stream \in [Call -> Seq(EventsOf(Bookings))]

ReadsFit ==
  /\ sse \in [callId : OrNone(Rows), next : Nat \ {0}, up : BOOLEAN]
  /\ sse.callId = None => batch = <<>>
  /\ sse.callId # None => /\ sse.next <= Len(stream[sse.callId]) + 1
                          /\ batch \in Seq(1 .. sse.next - 1)

PageFits == page \in PagesOf(Rows, Bookings) /\ storage \in StoredOf(Rows, Bookings)

AsksFit ==
  /\ CoFits(Co, Rows, Bookings)
  /\ sync \in SyncsOf(Rows)

SendsFit ==
  /\ req \in Requests(Bookings)
  /\ late \in SUBSET LateOf(Rows, Bookings)

WebInv == ServerFits /\ ReadsFit /\ PageFits /\ AsksFit /\ SendsFit

(* The calls and bookings of the API are calls. *)
LEMMA RowsAreCalls == Rows \in SUBSET Call /\ Bookings \in SUBSET Call
  BY DEF Rows, Bookings

(* A type over fewer calls and bookings is one over more. *)
LEMMA TypesGrow ==
  ASSUME NEW R, NEW B, NEW R2, NEW B2, R \subseteq R2, B \subseteq B2
  PROVE  /\ PagesOf(R, B) \subseteq PagesOf(R2, B2)
         /\ StoredOf(R, B) \subseteq StoredOf(R2, B2)
         /\ EventsOf(B) \subseteq EventsOf(B2)
         /\ \A co : CoFits(co, R, B) => CoFits(co, R2, B2)
         /\ Requests(B) \subseteq Requests(B2)
         /\ LateOf(R, B) \subseteq LateOf(R2, B2)
         /\ SyncsOf(R) \subseteq SyncsOf(R2)
<1>1. OrNone(R) \subseteq OrNone(R2) /\ OrNone(B) \subseteq OrNone(B2)
  BY DEF OrNone
<1>2. HintsOf(B) \subseteq HintsOf(B2)
  BY <1>1 DEF HintsOf
<1>3. PagesOf(R, B) \subseteq PagesOf(R2, B2)
  BY <1>1 DEF PagesOf
<1>4. StoredOf(R, B) \subseteq StoredOf(R2, B2)
  BY <1>1 DEF StoredOf
<1>5. EventsOf(B) \subseteq EventsOf(B2)
  BY <1>1 DEF EventsOf
<1>6. ASSUME NEW co, CoFits(co, R, B)
      PROVE  CoFits(co, R2, B2)
  <2>1. RunsOf(R, B) \subseteq RunsOf(R2, B2)
    BY <1>1, <1>2 DEF RunsOf
  <2>2. ASSUME NEW run, RunFits(run, R, B)
        PROVE  RunFits(run, R2, B2)
    BY <2>1, <2>2 DEF RunFits, AnswerFits
  <2>3. ASSUME NEW q, QueuedFits(q, R, B)
        PROVE  QueuedFits(q, R2, B2)
    BY <1>1, <1>2, <2>3 DEF QueuedFits
  <2> QED
    BY <1>6, <2>2, <2>3 DEF CoFits
<1>7. Requests(B) \subseteq Requests(B2)
  BY <1>1 DEF Requests
<1>8. LateOf(R, B) \subseteq LateOf(R2, B2)
  BY DEF LateOf
<1>9. SyncsOf(R) \subseteq SyncsOf(R2)
  <2>1. ChainsOf(R) \subseteq ChainsOf(R2)
    BY <1>1 DEF ChainsOf
  <2> QED
    BY <2>1 DEF SyncsOf
<1> QED
  BY <1>3, <1>4, <1>5, <1>6, <1>7, <1>8, <1>9

(* The invariant gives the type invariant. *)
LEMMA WebInvTypes == WebInv => WebTypeOK
<1> SUFFICES ASSUME WebInv PROVE WebTypeOK
  OBVIOUS
<1>1. OrNone(Rows) \subseteq Ids /\ OrNone(Bookings) \subseteq Ids
  BY RowsAreCalls DEF OrNone, Ids
<1>2. server \in [Call -> ServerRow \cup {None}]
  BY DEF WebInv, ServerFits
<1>3. \A c \in Call : \A n \in DOMAIN stream[c] : stream[c][n] \in Event
  <2>1. EventsOf(Bookings) \subseteq Event
    BY <1>1 DEF EventsOf, Event, Ids
  <2> SUFFICES ASSUME NEW c \in Call, NEW n \in DOMAIN stream[c]
               PROVE  stream[c][n] \in EventsOf(Bookings)
    BY <2>1
  <2>2. stream[c] \in Seq(EventsOf(Bookings))
    BY DEF WebInv, ServerFits
  <2> QED
    BY <2>2
<1>4. page \in PageRow
  BY <1>1 DEF WebInv, PageFits, PagesOf, PageRow
<1>5. storage \in Snapshot \cup {None}
  BY <1>1, RowsAreCalls DEF WebInv, PageFits, StoredOf, Snapshot
<1>6. active \in RunRow \cup {None} /\ (queued # None => active # None)
  <2>1. active # None => active \in RunsOf(Rows, Bookings)
    BY DEF WebInv, AsksFit, CoFits, RunFits, Co
  <2>2. RunsOf(Rows, Bookings) \subseteq RunRow
    BY <1>1 DEF RunsOf, RunRow, HintsOf, IdHints
  <2> QED
    BY <2>1, <2>2 DEF WebInv, AsksFit, CoFits, Co
<1>7. \A n \in DOMAIN batch : batch[n] < sse.next
  <2>1. CASE sse.callId = None
    BY <2>1 DEF WebInv, ReadsFit
  <2>2. CASE sse.callId # None
    <3>1. batch \in Seq(1 .. sse.next - 1) /\ sse.next \in Nat
      BY <2>2 DEF WebInv, ReadsFit
    <3>2. \A n \in DOMAIN batch : batch[n] \in 1 .. sse.next - 1
      BY <3>1
    <3> QED
      BY <3>1, <3>2
  <2> QED
    BY <2>1, <2>2
<1>8. \A n \in DOMAIN sync : sync[n].attempts < SyncAttempts
  BY DEF WebInv, AsksFit, SyncsOf, ChainsOf
<1> QED
  BY <1>2, <1>3, <1>4, <1>5, <1>6, <1>7, <1>8 DEF WebTypeOK
-----------------------------------------------------------------------------
(***************************************************************************)
(* The commits of the API.                                                 *)
(***************************************************************************)
(* What the API has only grows: no call and no booking is forgotten and no *)
(* stream becomes shorter.                                                 *)
Grows ==
  /\ Rows \subseteq Rows' /\ Bookings \subseteq Bookings'
  /\ \A d \in Call : stream'[d] \in Seq(EventsOf(Bookings')) /\ Len(stream[d]) <= Len(stream'[d])

(* The events of each commit, of a call with a booking or without one. *)
LEMMA CommittedEvents ==
  ASSUME NEW B, NEW c \in B
  PROVE  /\ CreatedEvents \in Seq(EventsOf(B)) /\ DraftEvents(c) \in Seq(EventsOf(B))
         /\ LockEvents(c) \in Seq(EventsOf(B)) /\ IntentEvents(c) \in Seq(EventsOf(B))
         /\ PaidEvents(c) \in Seq(EventsOf(B))
         /\ <<Ev("payment.failed", c, None)>> \in Seq(EventsOf(B))
<1>1. \A e \in EventsOf(B) : <<e>> \in Seq(EventsOf(B))
  OBVIOUS
<1>2. ASSUME NEW d \in {c, None}
      PROVE  /\ \A t \in Turn : Ev("transcript.turn.created", d, t) \in EventsOf(B)
             /\ \A s \in BookingStage : Ev("booking.updated", d, s) \in EventsOf(B)
             /\ \A g \in PageGate : Ev("risk.payment_gate.updated", d, g) \in EventsOf(B)
  BY DEF EventsOf, OrNone, Ev, EventName
<1>3. ASSUME NEW name \in {"transcript.analysis.updated", "agreement.locked",
                           "payment.intent.created", "payment.confirmed",
                           "receipt.verified", "payment.failed"}
      PROVE  Ev(name, c, None) \in EventsOf(B)
  BY DEF EventsOf, OrNone, Ev, EventName
<1>4. CallEv("call.created", "CREATED") \in EventsOf(B)
  BY DEF EventsOf, OrNone, CallEv, EventName
<1>5. /\ "customer" \in Turn /\ "AGREEMENT_READY" \in BookingStage
      /\ "READY_FOR_CONFIRMATION" \in PageGate /\ "UNLOCKED" \in PageGate
  BY DEF Turn, BookingStage, PageGate
<1>6. CreatedEvents \in Seq(EventsOf(B))
  BY <1>1, <1>4 DEF CreatedEvents
<1>7. DraftEvents(c) \in Seq(EventsOf(B))
  <2> DEFINE e1 == Ev("transcript.turn.created", c, "customer")
             e2 == Ev("booking.updated", c, "AGREEMENT_READY")
             e3 == Ev("risk.payment_gate.updated", c, "READY_FOR_CONFIRMATION")
             e4 == Ev("transcript.analysis.updated", c, None)
  <2>1. e1 \in EventsOf(B) /\ e2 \in EventsOf(B) /\ e3 \in EventsOf(B) /\ e4 \in EventsOf(B)
    BY <1>2, <1>3, <1>5
  <2>2. DraftEvents(c) = <<e1, e2, e3, e4>>
    BY DEF DraftEvents
  <2> HIDE DEF e1, e2, e3, e4
  <2> QED
    BY <2>1, <2>2
<1>8. LockEvents(c) \in Seq(EventsOf(B))
  <2> DEFINE e1 == Ev("agreement.locked", c, None)
             e2 == Ev("risk.payment_gate.updated", c, "UNLOCKED")
  <2>1. e1 \in EventsOf(B) /\ e2 \in EventsOf(B)
    BY <1>2, <1>3, <1>5
  <2>2. LockEvents(c) = <<e1, e2>>
    BY DEF LockEvents
  <2> HIDE DEF e1, e2
  <2> QED
    BY <2>1, <2>2
<1>9. PaidEvents(c) \in Seq(EventsOf(B))
  <2> DEFINE e1 == Ev("payment.confirmed", c, None)
             e2 == Ev("receipt.verified", c, None)
  <2>1. e1 \in EventsOf(B) /\ e2 \in EventsOf(B)
    BY <1>3
  <2>2. PaidEvents(c) = <<e1, e2>>
    BY DEF PaidEvents
  <2> HIDE DEF e1, e2
  <2> QED
    BY <2>1, <2>2
<1>10. /\ IntentEvents(c) \in Seq(EventsOf(B))
       /\ <<Ev("payment.failed", c, None)>> \in Seq(EventsOf(B))
  BY <1>1, <1>3 DEF IntentEvents
<1> QED
  BY <1>6, <1>7, <1>8, <1>9, <1>10

(* A commit writes a call's row and appends to its stream. *)
LEMMA CommitFits ==
  ASSUME ServerFits, NEW c \in Rows, NEW row \in ServerRow,
         server[c].stage # None => row.stage # None,
         NEW events, Commit(c, row, events),
         \A B : (row.stage # None => c \in B) => events \in Seq(EventsOf(B))
  PROVE  ServerFits' /\ Grows
<1>1. c \in Call /\ row # None
  BY NoneAssumption DEF Rows
<1>2. /\ server' = [server EXCEPT ![c] = row]
      /\ stream' = [stream EXCEPT ![c] = @ \o events]
  BY DEF Commit
<1>3. server' \in [Call -> ServerRow \cup {None}]
  BY <1>2 DEF ServerFits
<1>4. \A d \in Call : server'[d] = IF d = c THEN row ELSE server[d]
  BY <1>2 DEF ServerFits
<1>5. Rows \subseteq Rows' /\ Bookings \subseteq Bookings'
  BY <1>1, <1>4 DEF Rows, Bookings
<1>6. row.stage # None => c \in Bookings'
  BY <1>1, <1>4 DEF Bookings
<1>7. events \in Seq(EventsOf(Bookings'))
  BY <1>6
<1>8. EventsOf(Bookings) \subseteq EventsOf(Bookings')
  BY <1>5, TypesGrow
<1>9. ASSUME NEW d \in Call
      PROVE  stream'[d] \in Seq(EventsOf(Bookings')) /\ Len(stream[d]) <= Len(stream'[d])
  <2>1. stream[d] \in Seq(EventsOf(Bookings))
    BY DEF ServerFits
  <2>2. stream[d] \in Seq(EventsOf(Bookings'))
    BY <1>8, <2>1
  <2>3. stream'[d] = IF d = c THEN stream[d] \o events ELSE stream[d]
    BY <1>2 DEF ServerFits
  <2>4. /\ stream[d] \o events \in Seq(EventsOf(Bookings'))
        /\ Len(stream[d] \o events) = Len(stream[d]) + Len(events)
        /\ Len(stream[d]) \in Nat /\ Len(events) \in Nat
    BY <1>7, <2>2, ConcatProperties, LenProperties
  <2> QED
    BY <2>2, <2>3, <2>4
<1>10. stream' \in [Call -> Seq(EventsOf(Bookings'))]
  <2>1. stream' = [d \in Call |-> stream'[d]]
    BY <1>2 DEF ServerFits
  <2> QED
    BY <1>9, <2>1
<1> QED
  BY <1>3, <1>5, <1>9, <1>10 DEF ServerFits, Grows

(* What the page keeps and sends fits what the API has, however that grows. *)
LEMMA PageStays ==
  ASSUME WebInv, Grows, sse' = sse, batch' = batch
  PROVE  /\ ReadsFit'
         /\ page \in PagesOf(Rows', Bookings') /\ storage \in StoredOf(Rows', Bookings')
         /\ CoFits(Co, Rows', Bookings') /\ sync \in SyncsOf(Rows')
         /\ req \in Requests(Bookings') /\ late \in SUBSET LateOf(Rows', Bookings')
<1>1. Rows \subseteq Rows' /\ Bookings \subseteq Bookings'
  BY DEF Grows
<1>2. /\ page \in PagesOf(Rows', Bookings') /\ storage \in StoredOf(Rows', Bookings')
      /\ CoFits(Co, Rows', Bookings') /\ sync \in SyncsOf(Rows')
      /\ req \in Requests(Bookings') /\ late \in SUBSET LateOf(Rows', Bookings')
  BY <1>1, TypesGrow DEF WebInv, PageFits, AsksFit, SendsFit
<1>3. sse' \in [callId : OrNone(Rows'), next : Nat \ {0}, up : BOOLEAN]
  BY <1>1 DEF WebInv, ReadsFit, OrNone
<1>4. sse'.callId = None => batch' = <<>>
  BY DEF WebInv, ReadsFit
<1>5. ASSUME sse'.callId # None
      PROVE  sse'.next <= Len(stream'[sse'.callId]) + 1 /\ batch' \in Seq(1 .. sse'.next - 1)
  <2> DEFINE d == sse.callId
  <2>1. d \in Call /\ sse.next \in Nat /\ sse.next <= Len(stream[d]) + 1
        /\ batch \in Seq(1 .. sse.next - 1)
    BY <1>5, RowsAreCalls DEF WebInv, ReadsFit, OrNone
  <2>2. Len(stream[d]) \in Nat /\ Len(stream'[d]) \in Nat /\ Len(stream[d]) <= Len(stream'[d])
    BY <2>1 DEF WebInv, ServerFits, Grows
  <2> HIDE DEF d
  <2>3. sse.next <= Len(stream'[d]) + 1
    BY <2>1, <2>2
  <2> QED
    BY <2>1, <2>3 DEF d
<1> QED
  BY <1>2, <1>3, <1>4, <1>5 DEF ReadsFit
-----------------------------------------------------------------------------
(***************************************************************************)
(* The start.                                                              *)
(***************************************************************************)
(* The events of a call that has come to a stage. *)
LEMMA StartedEvents ==
  ASSUME NEW c, NEW B, NEW stage \in Started, stage # None => c \in B
  PROVE  EventsAt(stage, c) \in Seq(EventsOf(B))
<1>1. /\ <<>> \in Seq(EventsOf(B)) /\ CreatedEvents \in Seq(EventsOf(B))
      /\ GreetingEvents \in Seq(EventsOf(B))
  <2>1. /\ CallEv("call.created", "CREATED") \in EventsOf(B)
        /\ CallEv("transcript.turn.created", "agent") \in EventsOf(B)
    BY DEF CallEv, EventsOf, OrNone, EventName, Turn
  <2>2. \A e \in EventsOf(B) : <<e>> \in Seq(EventsOf(B))
    OBVIOUS
  <2> QED
    BY <2>1, <2>2 DEF CreatedEvents, GreetingEvents
<1>2. stage # None => /\ DraftEvents(c) \in Seq(EventsOf(B))
                      /\ LockEvents(c) \in Seq(EventsOf(B))
                      /\ IntentEvents(c) \in Seq(EventsOf(B))
  BY CommittedEvents
<1> DEFINE draft == IF stage = None THEN GreetingEvents ELSE DraftEvents(c)
           lock == IF stage \in {None, "AGREEMENT_READY"} THEN <<>> ELSE LockEvents(c)
           intent == IF stage = "PAYMENT_PENDING" THEN IntentEvents(c) ELSE <<>>
<1>3. None # "PAYMENT_PENDING"
  BY NoneAssumption DEF BookingStage
<1>4. /\ draft \in Seq(EventsOf(B)) /\ lock \in Seq(EventsOf(B))
      /\ intent \in Seq(EventsOf(B))
  BY <1>1, <1>2, <1>3
<1>5. EventsAt(stage, c) = CreatedEvents \o draft \o lock \o intent
  BY DEF EventsAt
<1> HIDE DEF draft, lock, intent
<1> QED
  BY <1>1, <1>4, <1>5, ConcatProperties

(* The page that has followed it so far. *)
LEMMA SettledPage ==
  ASSUME NEW c \in Call, NEW B, NEW stage \in Started, stage # None => c \in B
  PROVE  /\ RowAt(stage) \in ServerRow /\ RowAt(stage).stage = stage
         /\ Settled(c, stage) \in PagesOf({c}, B) /\ Settled(c, stage).callId = c
         /\ Settled(c, stage).booking # None => Settled(c, stage).bookingId = c
<1> DEFINE row == RowAt(stage)
           seen == [Connected(c) EXCEPT !.lastSequence = Len(EventsAt(stage, c))]
           called == CallSynced(seen, c, Answer("call", row))
           read == RiskSynced(TranscriptSynced(called, c, row), row)
           booked == BookingSynced(read, c, row)
           opened == PaymentIntentCreated(booked, c)
           paid == PaymentStatusSynced(opened, c, row)
<1>1. /\ row \in ServerRow /\ row.stage = stage
      /\ row.status \in {"CREATED", "ACTIVE", "ENDED"} /\ row.turns \in SUBSET Turn
      /\ row.gate \in PageGate /\ row.stage \in BookingStage \cup {None}
  BY StartedAssumption DEF RowAt, ServerRow, Turn, PageGate, BookingStage
<1>2. Len(EventsAt(stage, c)) \in Nat
  BY StartedEvents, LenProperties
<1>3. Connected(c) \in PagesOf({c}, B)
  BY FreshPages
<1>4. seen \in PagesOf({c}, B)
  BY <1>2, <1>3 DEF PagesOf
<1>5. /\ Answer("call", row).status = row.status
      /\ Answer("call", row).hasBooking = (stage # None)
  BY <1>1 DEF Answer
<1>6. {c} \in SUBSET Call
  OBVIOUS
<1> HIDE DEF seen, row
<1>7. called \in PagesOf({c}, B)
  BY <1>1, <1>4, <1>5, <1>6, SyncedPages
<1> HIDE DEF called
<1>8. TranscriptSynced(called, c, row) \in PagesOf({c}, B)
  BY <1>1, <1>6, <1>7, SyncedPages
<1>9. read \in PagesOf({c}, B)
  BY <1>1, <1>6, <1>8, SyncedPages
<1> HIDE DEF read
<1>10. ASSUME stage # None
       PROVE  booked \in PagesOf({c}, B) /\ opened \in PagesOf({c}, B) /\ paid \in PagesOf({c}, B)
  <2>1. c \in B /\ row.stage \in BookingStage
    BY <1>1, <1>10
  <2>2. booked \in PagesOf({c}, B)
    BY <1>6, <1>9, <2>1, SyncedPages
  <2> HIDE DEF booked
  <2>3. opened \in PagesOf({c}, B)
    BY <2>1, <2>2, RepliedPages
  <2> HIDE DEF opened
  <2>4. paid \in PagesOf({c}, B)
    BY <1>6, <2>1, <2>3, SyncedPages
  <2> QED
    BY <2>2, <2>3, <2>4
<1>11. None # "PAYMENT_PENDING"
  BY NoneAssumption DEF BookingStage
<1>12. Settled(c, stage) = IF stage = "PAYMENT_PENDING" THEN paid
                           ELSE IF stage # None THEN booked ELSE read
  BY DEF Settled, row, seen, called, read
<1>13. Settled(c, stage) \in PagesOf({c}, B)
  BY <1>9, <1>10, <1>11, <1>12
<1>14. /\ Settled(c, stage).callId = c
       /\ Settled(c, stage).booking # None => Settled(c, stage).bookingId = c
  <2>1. seen.callId = c /\ seen.booking = None
    BY <1>3 DEF Connected, InitialPage, seen
  <2>2. called.callId = c /\ called.booking = None
    BY <1>4, <2>1 DEF called, CallSynced, PagesOf
  <2>3. read.callId = c /\ read.booking = None
    <3>1. /\ TranscriptSynced(called, c, row).callId = c
          /\ TranscriptSynced(called, c, row).booking = None
      BY <1>7, <2>2 DEF TranscriptSynced, Completed, PagesOf
    <3> QED
      BY <1>8, <3>1 DEF read, RiskSynced, PagesOf
  <2>4. booked.callId = c /\ booked.bookingId = c
    BY <1>9, <2>3 DEF BookingSynced, PagesOf
  <2>5. stage # None => paid.callId = c /\ paid.bookingId = c
    <3>1. stage # None => opened.callId = c /\ opened.bookingId = c
      BY <1>10, <2>4 DEF PaymentIntentCreated, PagesOf
    <3> HIDE DEF opened, booked
    <3> QED
      BY <1>10, <3>1 DEF PaymentStatusSynced, PagesOf
  <2> HIDE DEF booked, paid, opened
  <2> QED
    BY <1>11, <1>12, <2>3, <2>4, <2>5
<1> QED
  BY <1>1, <1>13, <1>14 DEF row

(* What the page stores and asks for first. *)
LEMMA FirstAsks ==
  ASSUME NEW R, NEW B, NEW p \in PagesOf(R, B)
  PROVE  /\ Persisted(p, None) \in StoredOf(R, B)
         /\ [k \in Command |-> IF k = "create" /\ WantsIntent(p) /\ p.bookingId # None
                               THEN [state |-> "sent", booking |-> p.bookingId] ELSE Idle]
              \in Requests(B)
         /\ SyncOff \in ChainsOf(R)
<1>1. Persisted(p, None) \in StoredOf(R, B)
  BY DEF Persisted, ShouldPersist, StoredOf, PagesOf, OrNone
<1>2. SyncOff \in ChainsOf(R)
  BY SyncAttemptsAssumption DEF SyncOff, ChainsOf, OrNone
<1>3. p.bookingId # None => p.bookingId \in B
  BY DEF PagesOf, OrNone
<1>4. Idle \in [state : {"idle", "sent", "lost"} \cup Outcome, booking : OrNone(B)]
      /\ Idle.state = "idle"
  BY DEF Idle, OrNone
<1> DEFINE sent == [state |-> "sent", booking |-> p.bookingId]
<1>5. p.bookingId # None =>
        /\ sent \in [state : {"idle", "sent", "lost"} \cup Outcome, booking : OrNone(B)]
        /\ sent.booking \in B
  BY <1>3 DEF OrNone
<1> HIDE DEF sent
<1>6. [k \in Command |-> IF k = "create" /\ WantsIntent(p) /\ p.bookingId # None
                         THEN sent ELSE Idle] \in Requests(B)
  BY <1>4, <1>5 DEF Requests
<1> QED
  BY <1>1, <1>2, <1>6 DEF sent

(* The invariant holds at the start. *)
LEMMA WebInitFits == WebInit => WebInv
<1> SUFFICES ASSUME WebInit PROVE WebInv
  OBVIOUS
<1>1. /\ storage = Persisted(page, None) /\ batch = <<>> /\ late = {}
      /\ active = None /\ queued = None
      /\ sync = [n \in 1 .. MaxChains |-> SyncOff]
      /\ req = [k \in Command |-> IF k = "create" /\ WantsIntent(page)
                                  THEN [state |-> "sent", booking |-> page.bookingId] ELSE Idle]
  BY DEF WebInit
<1>2. /\ ServerFits /\ ReadsFit /\ page \in PagesOf(Rows, Bookings)
      /\ WantsIntent(page) => page.bookingId # None
  <2>1. CASE \E c \in Call, stage \in Started :
               /\ server = [d \in Call |-> IF d = c THEN RowAt(stage) ELSE None]
               /\ stream = [d \in Call |-> IF d = c THEN EventsAt(stage, c) ELSE <<>>]
               /\ page = Settled(c, stage)
               /\ sse = [callId |-> c, next |-> Len(stream[c]) + 1, up |-> TRUE]
    <3>1. PICK c \in Call, stage \in Started :
               /\ server = [d \in Call |-> IF d = c THEN RowAt(stage) ELSE None]
               /\ stream = [d \in Call |-> IF d = c THEN EventsAt(stage, c) ELSE <<>>]
               /\ page = Settled(c, stage)
               /\ sse = [callId |-> c, next |-> Len(stream[c]) + 1, up |-> TRUE]
      BY <2>1
    <3>2. RowAt(stage) \in ServerRow /\ RowAt(stage).stage = stage /\ RowAt(stage) # None
      BY StartedAssumption, NoneAssumption
         DEF RowAt, ServerRow, Turn, PageGate, BookingStage
    <3>3. /\ Rows = {c} /\ Bookings = IF stage = None THEN {} ELSE {c}
          /\ server \in [Call -> ServerRow \cup {None}]
      BY <3>1, <3>2 DEF Rows, Bookings
    <3>4. stage # None => c \in Bookings
      BY <3>3
    <3>5. EventsAt(stage, c) \in Seq(EventsOf(Bookings))
      BY <3>4, StartedEvents
    <3>6. ServerFits
      <4>1. <<>> \in Seq(EventsOf(Bookings))
        OBVIOUS
      <4>2. stream \in [Call -> Seq(EventsOf(Bookings))]
        BY <3>1, <3>5, <4>1
      <4> QED
        BY <3>3, <4>2 DEF ServerFits
    <3>7. page \in PagesOf(Rows, Bookings) /\ (page.booking # None => page.bookingId = c)
      BY <3>1, <3>3, <3>4, SettledPage
    <3>8. ReadsFit
      <4>1. sse.callId = c /\ sse.next = Len(stream[c]) + 1 /\ sse.up = TRUE
        BY <3>1
      <4>2. Len(stream[c]) \in Nat /\ c \in Rows /\ c # None
        BY <3>1, <3>3, <3>5, LenProperties, NoneAssumption
      <4>3. sse \in [callId : OrNone(Rows), next : Nat \ {0}, up : BOOLEAN]
        BY <3>1, <4>2 DEF OrNone
      <4>4. batch \in Seq(1 .. sse.next - 1)
        BY <1>1
      <4> QED
        BY <4>1, <4>2, <4>3, <4>4 DEF ReadsFit
    <3> QED
      BY <3>6, <3>7, <3>8, NoneAssumption DEF WantsIntent
  <2>2. CASE /\ server = [c \in Call |-> None] /\ stream = [c \in Call |-> <<>>]
             /\ page = InitialPage /\ sse = NoStream
    <3>1. ServerFits
      BY <2>2 DEF ServerFits
    <3>2. ReadsFit
      BY <1>1, <2>2 DEF ReadsFit, NoStream, OrNone
    <3>3. page \in PagesOf(Rows, Bookings) /\ page.booking = None
      BY <2>2, FreshPages DEF InitialPage
    <3> QED
      BY <3>1, <3>2, <3>3 DEF WantsIntent
  <2> QED
    BY <2>1, <2>2 DEF WebInit
<1>3. req = [k \in Command |-> IF k = "create" /\ WantsIntent(page) /\ page.bookingId # None
                               THEN [state |-> "sent", booking |-> page.bookingId] ELSE Idle]
  BY <1>1, <1>2
<1>4. /\ storage \in StoredOf(Rows, Bookings) /\ req \in Requests(Bookings)
      /\ sync \in SyncsOf(Rows)
  BY <1>1, <1>2, <1>3, FirstAsks DEF SyncsOf
<1>5. CoFits(Co, Rows, Bookings)
  BY <1>1 DEF CoFits, Co, QueuedFits
<1> QED
  BY <1>1, <1>2, <1>4, <1>5 DEF WebInv, PageFits, AsksFit, SendsFit
-----------------------------------------------------------------------------
(***************************************************************************)
(* The steps of the API.                                                   *)
(***************************************************************************)
(* The API commits on its own. *)
LEMMA ApiStepFits ==
  ASSUME WebInv, NEW c \in Call,
         CustomerTurn(c) \/ AgentTurn(c) \/ Locked(c) \/ Ended(c)
  PROVE  ServerFits' /\ Grows
<1>1. /\ ServerFits /\ server[c] # None /\ c \in Rows /\ server[c] \in ServerRow
  BY DEF WebInv, ServerFits, Rows, CustomerTurn, AgentTurn, Locked, Ended
<1>2. /\ "AGREEMENT_READY" # None /\ "AGREEMENT_LOCKED" # None
      /\ {"AGREEMENT_READY", "AGREEMENT_LOCKED"} \subseteq BookingStage
      /\ "customer" \in Turn /\ "agent" \in Turn
      /\ {"READY_FOR_CONFIRMATION", "UNLOCKED"} \subseteq PageGate
  BY NoneAssumption DEF BookingStage, Turn, PageGate
<1>3. CASE CustomerTurn(c)
  <2> DEFINE row == [status |-> "ACTIVE", turns |-> server[c].turns \cup {"customer"},
                     stage |-> "AGREEMENT_READY", gate |-> "READY_FOR_CONFIRMATION"]
  <2>1. Commit(c, row, DraftEvents(c))
    BY <1>3 DEF CustomerTurn
  <2>2. row \in ServerRow /\ row.stage # None
    BY <1>1, <1>2 DEF ServerRow
  <2> HIDE DEF row
  <2>3. \A B : (row.stage # None => c \in B) => DraftEvents(c) \in Seq(EventsOf(B))
    BY <2>2, CommittedEvents
  <2> QED
    BY <1>1, <2>1, <2>2, <2>3, CommitFits
<1>4. CASE AgentTurn(c)
  <2> DEFINE row == [server[c] EXCEPT !.turns = @ \cup {"agent"}]
             e == Ev("transcript.turn.created", IF server[c].stage = None THEN None ELSE c,
                     "agent")
  <2>1. Commit(c, row, <<e>>)
    BY <1>4 DEF AgentTurn
  <2>2. row \in ServerRow /\ row.stage = server[c].stage
    BY <1>1, <1>2 DEF ServerRow
  <2> HIDE DEF row
  <2>3. ASSUME NEW B, row.stage # None => c \in B
        PROVE  <<e>> \in Seq(EventsOf(B))
    <3>1. e \in EventsOf(B)
      BY <1>2, <2>2, <2>3 DEF EventsOf, OrNone, Ev, EventName
    <3> HIDE DEF e
    <3> QED
      BY <3>1
  <2> HIDE DEF e
  <2> QED
    BY <1>1, <2>1, <2>2, <2>3, CommitFits
<1>5. CASE Locked(c)
  <2> DEFINE row == [server[c] EXCEPT !.stage = "AGREEMENT_LOCKED", !.gate = "UNLOCKED"]
  <2>1. Commit(c, row, LockEvents(c))
    BY <1>5 DEF Locked
  <2>2. row \in ServerRow /\ row.stage # None
    BY <1>1, <1>2 DEF ServerRow
  <2> HIDE DEF row
  <2>3. \A B : (row.stage # None => c \in B) => LockEvents(c) \in Seq(EventsOf(B))
    BY <2>2, CommittedEvents
  <2> QED
    BY <1>1, <2>1, <2>2, <2>3, CommitFits
<1>6. CASE Ended(c)
  <2> DEFINE row == [server[c] EXCEPT !.status = "ENDED"]
             e == CallEv("call.ended", "ENDED")
  <2>1. Commit(c, row, <<e>>)
    BY <1>6 DEF Ended
  <2>2. row \in ServerRow /\ row.stage = server[c].stage
    BY <1>1 DEF ServerRow
  <2> HIDE DEF row
  <2>3. \A B : e \in EventsOf(B)
    BY DEF EventsOf, OrNone, CallEv, EventName
  <2> HIDE DEF e
  <2>4. \A B : (row.stage # None => c \in B) => <<e>> \in Seq(EventsOf(B))
    BY <2>3
  <2> QED
    BY <1>1, <2>1, <2>2, <2>4, CommitFits
<1> QED
  BY <1>3, <1>4, <1>5, <1>6

(* Nothing is committed. *)
ApiStays == server' = server /\ stream' = stream

(* The API then keeps its rows and bookings, and they fit as before. *)
LEMMA ServerStays ==
  ASSUME ServerFits, ApiStays
  PROVE  ServerFits' /\ Grows /\ Rows' = Rows /\ Bookings' = Bookings
<1>1. server' = server /\ stream' = stream
  BY DEF ApiStays
<1>2. Rows' = Rows /\ Bookings' = Bookings
  BY <1>1 DEF Rows, Bookings
<1>3. \A d \in Call : stream[d] \in Seq(EventsOf(Bookings)) /\ Len(stream[d]) \in Nat
  BY DEF ServerFits
<1> QED
  BY <1>1, <1>2, <1>3 DEF ServerFits, Grows

(* The API executes a request of the page. *)
LEMMA ExecutesFits ==
  ASSUME WebInv, NEW k \in Command, NEW b \in Bookings, NEW state \in Outcome,
         Executes(k, b, state)
  PROVE  ServerFits' /\ Grows
<1>1. /\ ServerFits /\ b \in Call /\ b \in Rows /\ server[b] \in ServerRow
      /\ server[b].stage # None
  BY DEF WebInv, ServerFits, Rows, Bookings
<1>2. /\ {"PAYMENT_PENDING", "RECEIPT_ISSUED", "MANUAL_REVIEW_REQUIRED"} \subseteq BookingStage
      /\ None \notin BookingStage
  BY NoneAssumption DEF BookingStage
<1>3. Locked(b) \/ Opened(b) \/ Confirmed(b) \/ Rejected(b) \/ ApiStays
  BY DEF Executes, ApiStays, serverVars
<1>4. CASE Locked(b)
  BY <1>1, <1>4, ApiStepFits
<1>5. CASE Opened(b)
  <2> DEFINE row == [server[b] EXCEPT !.stage = "PAYMENT_PENDING"]
  <2>1. Commit(b, row, IntentEvents(b))
    BY <1>5 DEF Opened
  <2>2. row \in ServerRow /\ row.stage # None
    BY <1>1, <1>2 DEF ServerRow
  <2> HIDE DEF row
  <2>3. \A B : (row.stage # None => b \in B) => IntentEvents(b) \in Seq(EventsOf(B))
    BY <2>2, CommittedEvents
  <2> QED
    BY <1>1, <2>1, <2>2, <2>3, CommitFits
<1>6. CASE Confirmed(b)
  <2> DEFINE row == [server[b] EXCEPT !.stage = "RECEIPT_ISSUED"]
  <2>1. Commit(b, row, PaidEvents(b))
    BY <1>6 DEF Confirmed
  <2>2. row \in ServerRow /\ row.stage # None
    BY <1>1, <1>2 DEF ServerRow
  <2> HIDE DEF row
  <2>3. \A B : (row.stage # None => b \in B) => PaidEvents(b) \in Seq(EventsOf(B))
    BY <2>2, CommittedEvents
  <2> QED
    BY <1>1, <2>1, <2>2, <2>3, CommitFits
<1>7. CASE Rejected(b)
  <2> DEFINE row == [server[b] EXCEPT !.stage = "MANUAL_REVIEW_REQUIRED"]
             told == <<Ev("payment.failed", b, None)>>
  <2>1. Commit(b, row, told)
    BY <1>7 DEF Rejected
  <2>2. row \in ServerRow /\ row.stage # None
    BY <1>1, <1>2 DEF ServerRow
  <2> HIDE DEF row
  <2>3. \A B : (row.stage # None => b \in B) => told \in Seq(EventsOf(B))
    BY <2>2, CommittedEvents
  <2> HIDE DEF told
  <2> QED
    BY <1>1, <2>1, <2>2, <2>3, CommitFits
<1>8. CASE ApiStays
  BY <1>1, <1>8, ServerStays
<1> QED
  BY <1>3, <1>4, <1>5, <1>6, <1>7, <1>8

(* Steps of the API leave the page's side as it was. *)
LEMMA ApiSteps ==
  ASSUME WebInv
  PROVE  /\ \A c \in Call : ApiStep(c) => WebInv'
         /\ \A k \in Command : ApiExecutes(k) => WebInv'
         /\ ApiExecutesLate => WebInv'
<1>1. ASSUME ServerFits', Grows, UNCHANGED <<page, storage, sse, batch, active, queued, sync>>,
             req' \in Requests(Bookings'), late' \in SUBSET LateOf(Rows', Bookings')
      PROVE  WebInv'
  <2>1. Co' = Co /\ sse' = sse /\ batch' = batch
    BY <1>1 DEF Co
  <2>2. /\ ReadsFit'
        /\ page \in PagesOf(Rows', Bookings') /\ storage \in StoredOf(Rows', Bookings')
        /\ CoFits(Co, Rows', Bookings') /\ sync \in SyncsOf(Rows')
    BY <1>1, <2>1, PageStays
  <2>3. PageFits' /\ AsksFit' /\ SendsFit'
    BY <1>1, <2>1, <2>2 DEF PageFits, AsksFit, SendsFit
  <2> QED
    BY <1>1, <2>2, <2>3 DEF WebInv
<1>2. ASSUME Grows, sse' = sse, batch' = batch
      PROVE  req \in Requests(Bookings') /\ late \in SUBSET LateOf(Rows', Bookings')
  BY <1>2, PageStays
<1>3. ASSUME NEW c \in Call, ApiStep(c)
      PROVE  WebInv'
  <2>1. ServerFits' /\ Grows
    BY <1>3, ApiStepFits DEF ApiStep
  <2>2. UNCHANGED <<page, storage, sse, batch, active, queued, sync, req, late>>
    BY <1>3 DEF ApiStep, Unseen
  <2> QED
    BY <1>1, <1>2, <2>1, <2>2
<1>4. ASSUME NEW k \in Command, ApiExecutes(k)
      PROVE  WebInv'
  <2>1. PICK state \in Outcome : /\ Executes(k, req[k].booking, state)
                                 /\ req' = [req EXCEPT ![k].state = state]
    BY <1>4 DEF ApiExecutes
  <2>2. req \in Requests(Bookings) /\ req[k].state = "sent" /\ "sent" # "idle"
    BY <1>4 DEF ApiExecutes, WebInv, SendsFit
  <2>3. req[k].booking \in Bookings
    BY <2>2 DEF Requests
  <2>4. ServerFits' /\ Grows
    BY <2>1, <2>3, ExecutesFits
  <2>5. UNCHANGED <<page, storage, sse, batch, active, queued, sync, late>>
    BY <1>4 DEF ApiExecutes
  <2>6. req \in Requests(Bookings') /\ late \in SUBSET LateOf(Rows', Bookings')
    BY <1>2, <2>4, <2>5
  <2>7. req' \in Requests(Bookings')
    BY <2>1, <2>2, <2>6 DEF Requests
  <2> QED
    BY <1>1, <2>4, <2>5, <2>6, <2>7
<1>5. ASSUME ApiExecutesLate
      PROVE  WebInv'
  <2>1. PICK r \in late :
          /\ late' = late \ {r}
          /\ IF r.command = "end"
             THEN \/ Ended(r.booking)
                  \/ server[r.booking].status = "ENDED" /\ ApiStays
             ELSE \E state \in Outcome : Executes(r.command, r.booking, state)
          /\ UNCHANGED <<page, storage, sse, batch, active, queued, sync, req>>
    BY <1>5 DEF ApiExecutesLate, ApiStays, serverVars
  <2>2. r \in LateOf(Rows, Bookings)
    BY DEF WebInv, SendsFit
  <2>3. ServerFits' /\ Grows
    <3>1. CASE r.command = "end"
      <4>1. r.booking \in Call
        BY <2>2, RowsAreCalls DEF LateOf
      <4>2. Ended(r.booking) \/ ApiStays
        BY <2>1, <3>1
      <4>3. ServerFits
        BY DEF WebInv
      <4> QED
        BY <4>1, <4>2, <4>3, ApiStepFits, ServerStays
    <3>2. CASE r.command # "end"
      <4>1. r.command \in Command /\ r.booking \in Bookings
        BY <2>2, <3>2 DEF LateOf
      <4>2. PICK state \in Outcome : Executes(r.command, r.booking, state)
        BY <2>1, <3>2
      <4> QED
        BY <4>1, <4>2, ExecutesFits
    <3> QED
      BY <3>1, <3>2
  <2>4. req \in Requests(Bookings') /\ late \in SUBSET LateOf(Rows', Bookings')
    BY <1>2, <2>1, <2>3
  <2>5. late' \in SUBSET LateOf(Rows', Bookings')
    BY <2>1, <2>4
  <2> QED
    BY <1>1, <2>1, <2>3, <2>4, <2>5
<1> QED
  BY <1>3, <1>4, <1>5
-----------------------------------------------------------------------------
(***************************************************************************)
(* The steps of the page.                                                  *)
(***************************************************************************)
(* A dispatch while the API commits nothing. *)
LEMMA Dispatched ==
  ASSUME WebInv, ApiStays, NEW p \in PagesOf(Rows, Bookings),
         NEW co, CoFits(co, Rows, Bookings), NEW r \in Requests(Bookings), Dispatch(p, co, r)
  PROVE  /\ ServerFits' /\ PageFits' /\ CoFits(Co, Rows, Bookings)'
         /\ (req \in Requests(Bookings))'
<1>1. Rows' = Rows /\ Bookings' = Bookings /\ ServerFits'
  BY ServerStays DEF WebInv
<1>2. page \in PagesOf(Rows, Bookings) /\ storage \in StoredOf(Rows, Bookings)
  BY DEF WebInv, PageFits
<1>3. Rows \in SUBSET Call /\ Bookings \in SUBSET Call
  BY RowsAreCalls
<1>4. /\ page' \in PagesOf(Rows, Bookings) /\ storage' \in StoredOf(Rows, Bookings)
      /\ CoFits([active |-> active', queued |-> queued'], Rows, Bookings)
      /\ req' \in Requests(Bookings)
  BY <1>2, <1>3, DispatchFits
<1> QED
  BY <1>1, <1>4 DEF PageFits, Co

(* What is read and sent stays while the API commits nothing. *)
LEMMA ElseStays ==
  ASSUME WebInv, ApiStays
  PROVE  /\ ServerFits' /\ Rows' = Rows /\ Bookings' = Bookings
         /\ UNCHANGED <<sse, batch>> => ReadsFit'
         /\ UNCHANGED <<page, storage>> => PageFits'
         /\ UNCHANGED <<active, queued>> => CoFits(Co, Rows, Bookings)'
         /\ sync' \in SyncsOf(Rows) => (sync \in SyncsOf(Rows))'
         /\ UNCHANGED sync => (sync \in SyncsOf(Rows))'
         /\ UNCHANGED req => (req \in Requests(Bookings))'
         /\ UNCHANGED late => (late \in SUBSET LateOf(Rows, Bookings))'
<1>1. server' = server /\ stream' = stream /\ Rows' = Rows /\ Bookings' = Bookings /\ ServerFits'
  BY ServerStays DEF WebInv, ApiStays
<1>2. UNCHANGED <<sse, batch>> => ReadsFit'
  BY <1>1 DEF WebInv, ReadsFit
<1>3. UNCHANGED <<page, storage>> => PageFits'
  BY <1>1 DEF WebInv, PageFits
<1>4. UNCHANGED <<active, queued>> => CoFits(Co, Rows, Bookings)'
  <2>1. UNCHANGED <<active, queued>> => Co' = Co
    BY DEF Co
  <2> QED
    BY <1>1, <2>1 DEF WebInv, AsksFit
<1> QED
  BY <1>1, <1>2, <1>3, <1>4 DEF WebInv, AsksFit, SendsFit

(* The parts make the whole. *)
LEMMA Whole ==
  ASSUME ServerFits, ReadsFit, PageFits, CoFits(Co, Rows, Bookings), sync \in SyncsOf(Rows),
         req \in Requests(Bookings), late \in SUBSET LateOf(Rows, Bookings)
  PROVE  WebInv
  BY DEF WebInv, AsksFit, SendsFit

(* The chains of attempts after a dispatch. *)
LEMMA SyncFits ==
  ASSUME NEW R, NEW s \in SyncsOf(R)
  PROVE  Cancelled(s) \in SyncsOf(R) /\ \A p : SyncAfter(p, s) \in SyncsOf(R)
<1>1. SyncOff \in ChainsOf(R)
  BY SyncAttemptsAssumption DEF SyncOff, ChainsOf, OrNone
<1>2. DOMAIN s = 1 .. MaxChains /\ \A n \in 1 .. MaxChains : s[n] \in ChainsOf(R)
  BY DEF SyncsOf
<1>3. Cancelled(s) \in SyncsOf(R)
  BY <1>1, <1>2 DEF Cancelled, SyncsOf
<1> QED
  BY <1>3 DEF SyncAfter

(* The chains after a run that some of them waited for. *)
LEMMA SettledFits ==
  ASSUME NEW R, sync \in SyncsOf(R), NEW complete, NEW last
  PROVE  [n \in DOMAIN sync |-> SyncSettled(complete, last, n)] \in SyncsOf(R)
<1>1. SyncOff \in ChainsOf(R)
  BY SyncAttemptsAssumption DEF SyncOff, ChainsOf, OrNone
<1>2. DOMAIN sync = 1 .. MaxChains /\ \A n \in 1 .. MaxChains : sync[n] \in ChainsOf(R)
  BY DEF SyncsOf
<1>3. ASSUME NEW n \in 1 .. MaxChains
      PROVE  SyncSettled(complete, last, n) \in ChainsOf(R)
  <2> DEFINE chain == sync[n]
             more == chain.attempts + 1
             state == IF n = last THEN "timer" ELSE "adrift"
  <2>1. chain \in ChainsOf(R)
    BY <1>2
  <2>2. CASE n \in Retrying(complete)
    <3>1. chain.state = "waiting" /\ ~(chain.attempts + 1 >= SyncAttempts)
      BY <2>2 DEF Retrying, Waiting, GivesUp
    <3> HIDE DEF chain
    <3>2. more \in Nat /\ more < SyncAttempts /\ chain.callId \in R
      BY <2>1, <3>1, SyncAttemptsAssumption DEF ChainsOf
    <3>3. state \in {"timer", "adrift"}
      OBVIOUS
    <3> HIDE DEF more, state
    <3>4. [chain EXCEPT !.state = state, !.attempts = more] \in ChainsOf(R)
      BY <2>1, <3>2, <3>3 DEF ChainsOf
    <3> QED
      BY <2>2, <3>4 DEF SyncSettled, chain, more, state
  <2>3. CASE n \notin Retrying(complete)
    <3>1. chain.state = "timer" => [chain EXCEPT !.state = "adrift"] \in ChainsOf(R)
      BY <2>1 DEF ChainsOf
    <3> QED
      BY <1>1, <2>1, <2>3, <3>1 DEF SyncSettled
  <2> QED
    BY <2>2, <2>3
<1> QED
  BY <1>2, <1>3 DEF SyncsOf

(* The booking and the receipt that a run asks for are bookings. *)
LEMMA RunSubjects ==
  ASSUME NEW R \in SUBSET Call, NEW B \in SUBSET Call, NEW run, RunFits(run, R, B)
  PROVE  /\ BookingOf(run) # None => BookingOf(run) \in B
         /\ ReceiptOf(run) # None => ReceiptOf(run) \in B
         /\ Get[run.get] = "booking" => BookingOf(run) \in B
         /\ Get[run.get] = "payment" => BookingOf(run) \in B
         /\ Get[run.get] = "receipt" => ReceiptOf(run) \in B
<1>1. /\ run.hints \in HintsOf(B) /\ run.state \in HintsOf(B)
      /\ run.hasBooking => run.callId \in B
      /\ run.hasBooking \in BOOLEAN
  BY DEF RunFits, RunsOf
<1>2. /\ run.hints.bookingId \in OrNone(B) /\ run.state.bookingId \in OrNone(B)
      /\ run.hints.receiptId \in OrNone(B) /\ run.state.receiptId \in OrNone(B)
  BY <1>1 DEF HintsOf
<1>3. BookingOf(run) \in OrNone(B) /\ ReceiptOf(run) \in OrNone(B)
  BY <1>1, <1>2 DEF BookingOf, ReceiptOf, OrNone
<1>4. /\ Get[run.get] = "booking" => BookingOf(run) # None
      /\ Get[run.get] = "payment" => BookingOf(run) # None
      /\ Get[run.get] = "receipt" => ReceiptOf(run) # None
  BY DEF RunFits, Wanted
<1> QED
  BY <1>3, <1>4 DEF OrNone

(* The API answers. *)
LEMMA ApiAnswersFits == WebInv /\ ApiAnswers => WebInv'
<1> SUFFICES ASSUME WebInv, ApiAnswers PROVE WebInv'
  OBVIOUS
<1> DEFINE asked == Subject(active)
           row == server[asked]
           answer == Answer(Get[active.get], row)
           answered == [active EXCEPT !.answer = answer]
<1>1. /\ active # None /\ active.callId # None /\ active' = answered
      /\ ApiStays /\ UNCHANGED <<page, storage, sse, batch, queued, sync, req, late>>
  BY DEF ApiAnswers, ApiStays
<1>2. /\ RunFits(active, Rows, Bookings) /\ QueuedFits(queued, Rows, Bookings)
      /\ ServerFits
  BY <1>1 DEF WebInv, AsksFit, CoFits, Co
<1>3. Rows \in SUBSET Call /\ Bookings \in SUBSET Rows /\ Bookings \in SUBSET Call
  BY DEF Rows, Bookings
<1>4. active.callId \in Rows /\ active.get \in 1 .. Len(Get)
  BY <1>1, <1>2 DEF RunFits, RunsOf, OrNone
<1>5. /\ Get[active.get] \in {"booking", "payment"} => asked \in Bookings
      /\ Get[active.get] = "receipt" => asked \in Bookings
      /\ Get[active.get] \notin {"booking", "payment", "receipt"} => asked = active.callId
  BY <1>2, <1>3, RunSubjects DEF Subject
<1>6. asked \in Rows
  BY <1>3, <1>4, <1>5
<1> HIDE DEF asked
<1>7. row \in ServerRow /\ (row.stage # None => asked \in Bookings)
      /\ (asked \in Bookings => row.stage # None)
  <2>1. asked \in Call /\ server[asked] # None
    BY <1>6 DEF Rows
  <2>2. server[asked] \in ServerRow
    BY <1>2, <2>1 DEF ServerFits
  <2>3. asked \in Bookings <=> server[asked].stage # None
    BY <2>1 DEF Bookings
  <2> QED
    BY <2>2, <2>3
<1> HIDE DEF row
<1>8. answer \in ApiAnswer
  BY <1>5, <1>7 DEF Answer, ApiAnswer, ServerRow
<1>9. /\ Get[active.get] = "call" => /\ answer.status \in {"CREATED", "ACTIVE", "ENDED"}
                                     /\ answer.hasBooking \in BOOLEAN
                                     /\ answer.hasBooking => active.callId \in Bookings
      /\ Get[active.get] = "transcript" => answer.turns \in SUBSET Turn
      /\ Get[active.get] = "risk" => answer.gate \in PageGate
      /\ Get[active.get] \in {"booking", "payment"} => answer.stage \in BookingStage
  BY <1>5, <1>7 DEF Answer, ServerRow
<1> HIDE DEF answer
<1>10. /\ answered \in RunsOf(Rows, Bookings) /\ answered.get = active.get
       /\ answered.hints = active.hints /\ answered.state = active.state
       /\ answered.callId = active.callId /\ answered.hasBooking = active.hasBooking
       /\ answered.answer = answer
  BY <1>2, <1>8 DEF RunFits, RunsOf
<1> HIDE DEF answered
<1>11. Wanted(answered, answered.get) /\ (answered.hasBooking => answered.callId \in Bookings)
  BY <1>2, <1>10 DEF RunFits, Wanted, BookingOf, ReceiptOf, AsksForPayment
<1>12. AnswerFits(answered, Bookings)
  BY <1>9, <1>10 DEF AnswerFits
<1>13. RunFits(answered, Rows, Bookings)
  BY <1>4, <1>10, <1>11, <1>12 DEF RunFits
<1>14. answered # None
  <2>1. RunsOf(Rows, Bookings) \subseteq RunRow
    BY <1>3 DEF RunsOf, RunRow, HintsOf, IdHints, OrNone, Ids
  <2> QED
    BY <1>10, <2>1, NoRunAssumption
<1>15. CoFits(Co, Rows, Bookings)'
  BY <1>1, <1>2, <1>13, <1>14, ElseStays DEF CoFits, Co
<1> QED
  BY <1>1, <1>15, ElseStays DEF WebInv, AsksFit, SendsFit

(* The next GET is the nearest that the run wants. *)
LEMMA NextIsNearest ==
  ASSUME NEW run, run.get \in 1 .. Len(Get), Get[run.get] # "twin"
  PROVE  /\ NextGet(run) \in run.get + 1 .. Len(Get) /\ Wanted(run, NextGet(run))
         /\ \A m \in run.get + 1 .. NextGet(run) - 1 : ~Wanted(run, m)
<1> DEFINE Good(n) == Wanted(run, n) /\ \A m \in run.get + 1 .. n - 1 : ~Wanted(run, m)
           Some == {n \in run.get + 1 .. 7 : Wanted(run, n)}
<1>1. run.get \in 1 .. 6
  BY GetNames
<1>2. Some \in SUBSET Nat
  BY <1>1
<1>3. 7 \in Some
  BY <1>1, GetNames DEF Wanted
<1>4. PICK n \in Some : \A m \in Some : n <= m
  BY <1>2, <1>3, LeastNumber
<1>5. \A m \in run.get + 1 .. n - 1 : m \in run.get + 1 .. 7 /\ ~(n <= m)
  BY <1>1, <1>4
<1>6. n \in run.get + 1 .. 7 /\ Good(n)
  BY <1>4, <1>5
<1> HIDE DEF Good, Some
<1>7. \E k \in run.get + 1 .. Len(Get) : Good(k)
  BY <1>6, GetNames
<1>8. NextGet(run) = CHOOSE k \in run.get + 1 .. Len(Get) : Good(k)
  BY DEF NextGet, Good
<1>9. NextGet(run) \in run.get + 1 .. Len(Get) /\ Good(NextGet(run))
  BY <1>7, <1>8
<1> QED
  BY <1>9 DEF Good

(* What an answer makes of the page. *)
LEMMA SyncedFits ==
  ASSUME NEW R \in SUBSET Call, NEW B \in SUBSET Call, NEW p \in PagesOf(R, B),
         NEW run, RunFits(run, R, B), run.answer # None
  PROVE  Synced(p, run) \in PagesOf(R, B)
<1>1. AnswerFits(run, B) /\ run.callId \in Call
  BY DEF RunFits, RunsOf
<1>2. /\ Get[run.get] = "booking" => BookingOf(run) \in B
      /\ Get[run.get] = "payment" => BookingOf(run) \in B
      /\ Get[run.get] = "receipt" => ReceiptOf(run) \in B
  BY RunSubjects
<1>3. CASE Get[run.get] = "call"
  BY <1>1, <1>3, SyncedPages DEF Synced, AnswerFits
<1>4. CASE Get[run.get] = "transcript"
  BY <1>1, <1>4, SyncedPages DEF Synced, AnswerFits
<1>5. CASE Get[run.get] = "risk"
  BY <1>1, <1>5, SyncedPages DEF Synced, AnswerFits
<1>6. CASE Get[run.get] = "booking"
  BY <1>1, <1>2, <1>6, SyncedPages DEF Synced, AnswerFits
<1>7. CASE Get[run.get] = "payment"
  BY <1>1, <1>2, <1>7, SyncedPages DEF Synced, AnswerFits
<1>8. CASE Get[run.get] = "receipt"
  BY <1>2, <1>8, SyncedPages DEF Synced
<1>9. CASE Get[run.get] \notin {"call", "transcript", "risk", "booking", "payment", "receipt"}
  BY <1>9, SyncedPages DEF Synced
<1> QED
  BY <1>3, <1>4, <1>5, <1>6, <1>7, <1>8, <1>9

(* An answer arrives. *)
LEMMA AnswerArrivesFits == WebInv /\ AnswerArrives => WebInv'
<1> SUFFICES ASSUME WebInv, AnswerArrives PROVE WebInv'
  OBVIOUS
<1> DEFINE has == IF Get[active.get] = "call" THEN active.answer.hasBooking ELSE active.hasBooking
           whole == IF Get[active.get] = "transcript"
                    THEN HasCustomerAndAgentTurns(active.answer.turns) ELSE active.complete
           now == [active EXCEPT !.hasBooking = has, !.complete = whole]
           next == NextGet(now)
           sent == [now EXCEPT !.get = next, !.answer = None]
           p == Synced(page, active)
           co == [Co EXCEPT !.active = sent]
<1>1. /\ active # None /\ active.answer # None /\ Get[active.get] # "twin"
      /\ ApiStays /\ UNCHANGED <<sse, batch, late>>
  BY DEF AnswerArrives, ApiStays
<1>2. Dispatch(p, co, req) /\ sync' = SyncAfter(p, sync)
  BY DEF AnswerArrives
<1>3. /\ RunFits(active, Rows, Bookings) /\ QueuedFits(queued, Rows, Bookings)
      /\ page \in PagesOf(Rows, Bookings) /\ req \in Requests(Bookings)
      /\ sync \in SyncsOf(Rows)
  BY <1>1 DEF WebInv, AsksFit, CoFits, Co, PageFits, SendsFit
<1>4. Rows \in SUBSET Call /\ Bookings \in SUBSET Call
  BY RowsAreCalls
<1>5. /\ active \in RunsOf(Rows, Bookings) /\ active.callId \in Rows
      /\ AnswerFits(active, Bookings) /\ active.get \in 1 .. Len(Get)
  BY <1>1, <1>3 DEF RunFits, RunsOf
<1>6. /\ has \in BOOLEAN /\ (has => active.callId \in Bookings) /\ whole \in BOOLEAN
  BY <1>3, <1>5 DEF RunFits, RunsOf, AnswerFits, HasCustomerAndAgentTurns
<1> HIDE DEF has, whole
<1>7. /\ now \in RunsOf(Rows, Bookings) /\ now.get = active.get /\ now.hasBooking = has
      /\ now.callId = active.callId
  BY <1>5, <1>6 DEF RunsOf
<1> HIDE DEF now
<1>8. next \in 1 .. Len(Get) /\ Wanted(now, next)
  <2>1. next \in now.get + 1 .. Len(Get) /\ Wanted(now, next)
    BY <1>1, <1>5, <1>7, NextIsNearest
  <2> HIDE DEF next
  <2> QED
    BY <1>5, <1>7, <2>1, GetNames
<1> HIDE DEF next
<1>9. /\ sent \in RunsOf(Rows, Bookings) /\ sent.get = next /\ sent.hasBooking = now.hasBooking
      /\ sent.callId = now.callId /\ sent.answer = None
      /\ sent.hints = now.hints /\ sent.state = now.state
  BY <1>7, <1>8 DEF RunsOf
<1> HIDE DEF sent
<1>10. Wanted(sent, sent.get)
  BY <1>8, <1>9 DEF Wanted, BookingOf, ReceiptOf, AsksForPayment
<1>11. RunFits(sent, Rows, Bookings)
  BY <1>6, <1>7, <1>9, <1>10 DEF RunFits
<1>12. sent # None
  <2>1. RunsOf(Rows, Bookings) \subseteq RunRow
    BY <1>4 DEF RunsOf, RunRow, HintsOf, IdHints, OrNone, Ids
  <2> QED
    BY <1>9, <2>1, NoRunAssumption
<1>13. CoFits(co, Rows, Bookings)
  BY <1>3, <1>11, <1>12 DEF CoFits, Co
<1> HIDE DEF co
<1>14. p \in PagesOf(Rows, Bookings)
  BY <1>1, <1>3, <1>4, SyncedFits
<1> HIDE DEF p
<1>15. /\ ServerFits' /\ PageFits' /\ CoFits(Co, Rows, Bookings)'
       /\ (req \in Requests(Bookings))'
  BY <1>1, <1>2, <1>3, <1>13, <1>14, Dispatched
<1>16. sync' \in SyncsOf(Rows)
  BY <1>2, <1>3, SyncFits
<1>17. ReadsFit' /\ (sync \in SyncsOf(Rows))' /\ (late \in SUBSET LateOf(Rows, Bookings))'
  BY <1>1, <1>16, ElseStays
<1> QED
  BY <1>15, <1>17 DEF WebInv, AsksFit, SendsFit

(* A run is over. *)
LEMMA RunOverFits ==
  ASSUME WebInv, ApiStays, active # None,
         NEW p \in PagesOf(Rows, Bookings), NEW complete \in BOOLEAN, RunOver(p, complete)
  PROVE  /\ ServerFits' /\ PageFits' /\ AsksFit' /\ (req \in Requests(Bookings))'
<1> DEFINE given == IF GivingUp(complete) # {}
                    THEN [p EXCEPT !.postCallTranscriptSync = "TIMED_OUT"] ELSE p
           next == IF queued = None THEN None ELSE Run(given, queued.callId, queued.hints)
           co == [active |-> next, queued |-> None]
           settled(last) == [n \in DOMAIN sync |-> SyncSettled(complete, last, n)]
<1>1. Dispatch(given, co, req) /\ \E last : sync' = SyncAfter(given, settled(last))
  BY DEF RunOver
<1>2. /\ QueuedFits(queued, Rows, Bookings) /\ req \in Requests(Bookings)
      /\ sync \in SyncsOf(Rows)
  BY DEF WebInv, AsksFit, CoFits, Co, SendsFit
<1>3. given \in PagesOf(Rows, Bookings)
  BY DEF PagesOf, SyncStatus
<1>4. \A last : settled(last) \in SyncsOf(Rows)
  BY <1>2, SettledFits
<1> HIDE DEF given, settled
<1>5. next # None => RunFits(next, Rows, Bookings)
  BY <1>2, <1>3, RunBegins DEF QueuedFits
<1> HIDE DEF next
<1>6. CoFits(co, Rows, Bookings)
  BY <1>5 DEF CoFits, QueuedFits
<1> HIDE DEF co
<1>7. /\ ServerFits' /\ PageFits' /\ CoFits(Co, Rows, Bookings)'
      /\ (req \in Requests(Bookings))'
  BY <1>1, <1>2, <1>3, <1>6, Dispatched
<1>8. sync' \in SyncsOf(Rows)
  BY <1>1, <1>4, SyncFits
<1>9. (sync \in SyncsOf(Rows))'
  BY <1>8, ElseStays
<1> QED
  BY <1>7, <1>9 DEF AsksFit

(* The last answer, and a read that fails. *)
LEMMA RecoveryOverFits ==
  ASSUME WebInv, RecoveryEnds \/ RecoveryFails
  PROVE  WebInv'
<1>1. /\ ApiStays /\ UNCHANGED <<sse, batch, late>> /\ active # None
      /\ \/ RunOver(page, FALSE)
         \/ RunOver(RecoveryComplete(page), active.complete)
         \/ RunOver(Failed(page), FALSE)
  BY DEF RecoveryEnds, RecoveryFails, ApiStays
<1>2. page \in PagesOf(Rows, Bookings)
  BY DEF WebInv, PageFits
<1>3. Rows \in SUBSET Call
  BY RowsAreCalls
<1>4. /\ RecoveryComplete(page) \in PagesOf(Rows, Bookings)
      /\ Failed(page) \in PagesOf(Rows, Bookings)
  BY <1>2, <1>3, SyncedPages, RepliedPages
<1>5. active.complete \in BOOLEAN
  BY <1>1 DEF WebInv, AsksFit, CoFits, Co, RunFits, RunsOf
<1>6. ServerFits' /\ PageFits' /\ AsksFit' /\ (req \in Requests(Bookings))'
  <2>1. CASE RunOver(page, FALSE)
    BY <1>1, <1>2, <2>1, RunOverFits
  <2>2. CASE RunOver(RecoveryComplete(page), active.complete)
    BY <1>1, <1>4, <1>5, <2>2, RunOverFits
  <2>3. CASE RunOver(Failed(page), FALSE)
    BY <1>1, <1>4, <2>3, RunOverFits
  <2> QED
    BY <1>1, <2>1, <2>2, <2>3
<1>7. ReadsFit' /\ (late \in SUBSET LateOf(Rows, Bookings))'
  BY <1>1, ElseStays
<1> QED
  BY <1>6, <1>7 DEF WebInv, SendsFit

(* What is read: the events before the next one, and their batch. *)
LEMMA ReadFacts ==
  ASSUME WebInv, sse.callId # None
  PROVE  /\ sse.callId \in Rows /\ sse.callId \in Call /\ sse.next \in Nat \ {0}
         /\ sse.up \in BOOLEAN
         /\ stream[sse.callId] \in Seq(EventsOf(Bookings))
         /\ Len(stream[sse.callId]) \in Nat /\ sse.next <= Len(stream[sse.callId]) + 1
         /\ batch \in Seq(1 .. sse.next - 1)
<1>1. sse.callId \in Rows /\ sse.callId \in Call
  BY RowsAreCalls DEF WebInv, ReadsFit, OrNone
<1>2. stream[sse.callId] \in Seq(EventsOf(Bookings))
  BY <1>1 DEF WebInv, ServerFits
<1> QED
  BY <1>1, <1>2, LenProperties DEF WebInv, ReadsFit

(* A batch of numbers below n is one of numbers below what is larger. *)
LEMMA BatchWithin ==
  ASSUME NEW n \in Nat, NEW m \in Nat, n <= m, NEW seen \in Seq(1 .. n)
  PROVE  seen \in Seq(1 .. m)
<1>1. 1 .. n \subseteq 1 .. m
  OBVIOUS
<1> QED
  BY <1>1

(* A batch is dispatched. *)
LEMMA BatchFits ==
  ASSUME WebInv, sse.callId # None, NEW seen \in Seq(1 .. Len(stream[sse.callId]))
  PROVE  ApplyServerEvents(page, sse.callId, stream[sse.callId], seen) \in PagesOf(Rows, Bookings)
<1>1. /\ page \in PagesOf(Rows, Bookings) /\ sse.callId \in Rows
      /\ stream[sse.callId] \in Seq(EventsOf(Bookings)) /\ Rows \in SUBSET Call
  BY ReadFacts, RowsAreCalls DEF WebInv, PageFits
<1> QED
  BY <1>1, BatchedPages

(* The stream moves on, or breaks. *)
LEMMA StreamSteps ==
  ASSUME WebInv, Skip \/ Drop \/ Reconnect
  PROVE  WebInv'
<1>1. /\ ApiStays /\ UNCHANGED <<batch, sync, late>>
      /\ ServerFits'
  BY ElseStays DEF Skip, Drop, Reconnect, ApiStays, WebInv
<1>2. Rows' = Rows /\ Bookings' = Bookings /\ stream' = stream
  BY <1>1, ElseStays DEF ApiStays
<1>3. sse \in [callId : OrNone(Rows), next : Nat \ {0}, up : BOOLEAN]
  BY DEF WebInv, ReadsFit
<1>4. ReadsFit'
  <2>1. CASE Skip
    <3>1. /\ sse.callId # None /\ sse.next < Len(stream[sse.callId])
          /\ sse' = [sse EXCEPT !.next = @ + 1]
      BY <2>1 DEF Skip, Awaits
    <3>2. /\ sse.next \in Nat \ {0} /\ Len(stream[sse.callId]) \in Nat
          /\ batch \in Seq(1 .. sse.next - 1)
      BY <3>1, ReadFacts
    <3>3. /\ sse'.callId = sse.callId /\ sse'.next = sse.next + 1
          /\ sse' \in [callId : OrNone(Rows), next : Nat \ {0}, up : BOOLEAN]
      <4>1. sse.next + 1 \in Nat \ {0}
        BY <3>2
      <4> DEFINE more == sse.next + 1
      <4> HIDE DEF more
      <4>2. sse' = [sse EXCEPT !.next = more]
        BY <3>1 DEF more
      <4>3. more \in Nat \ {0}
        BY <4>1 DEF more
      <4>4. sse'.callId = sse.callId /\ sse'.next = more
            /\ sse' \in [callId : OrNone(Rows), next : Nat \ {0}, up : BOOLEAN]
        BY <1>3, <4>2, <4>3
      <4> QED
        BY <4>4 DEF more
    <3>4. batch \in Seq(1 .. sse.next)
      BY <3>2, BatchWithin
    <3>5. sse.next + 1 - 1 = sse.next /\ sse.next + 1 <= Len(stream[sse.callId]) + 1
      BY <3>1, <3>2
    <3> QED
      <4>1. batch' = batch /\ sse'.next - 1 = sse.next
        BY <1>1, <3>2, <3>3
      <4>2. batch' \in Seq(1 .. sse'.next - 1)
        BY <3>4, <4>1
      <4>3. sse'.callId # None /\ sse'.next <= Len(stream'[sse'.callId]) + 1
        BY <1>2, <3>1, <3>3, <3>5
      <4>4. sse' \in [callId : OrNone(Rows'), next : Nat \ {0}, up : BOOLEAN]
        BY <1>2, <3>3
      <4> QED
        BY <4>2, <4>3, <4>4 DEF ReadsFit
  <2>2. CASE Drop \/ Reconnect
    <3>1. /\ sse'.callId = sse.callId /\ sse'.next = sse.next
          /\ sse' \in [callId : OrNone(Rows), next : Nat \ {0}, up : BOOLEAN]
      BY <1>3, <2>2 DEF Drop, Reconnect
    <3> QED
      BY <1>1, <1>2, <3>1 DEF WebInv, ReadsFit
  <2> QED
    BY <2>1, <2>2
<1>5. PageFits' /\ CoFits(Co, Rows, Bookings)' /\ (req \in Requests(Bookings))'
  <2>1. CASE Skip \/ Drop
    <3>1. UNCHANGED <<page, storage, active, queued, req>>
      BY <2>1 DEF Skip, Drop
    <3> QED
      BY <1>1, <3>1, ElseStays
  <2>2. CASE Reconnect
    <3> DEFINE co == Request(Co, page, sse.callId, NoHints, "page")
    <3>1. /\ sse.callId # None /\ Dispatch(page, co, req)
          /\ page \in PagesOf(Rows, Bookings) /\ req \in Requests(Bookings)
          /\ CoFits(Co, Rows, Bookings)
      BY <2>2 DEF Reconnect, WebInv, PageFits, AsksFit, SendsFit
    <3>2. /\ sse.callId \in OrNone(Rows) /\ NoHints \in HintsOf(Bookings)
          /\ Rows \in SUBSET Call /\ Bookings \in SUBSET Call
      BY <1>3, RowsAreCalls DEF NoHints, HintsOf, OrNone
    <3>3. CoFits(co, Rows, Bookings)
      BY <3>1, <3>2, RequestFits
    <3> HIDE DEF co
    <3> QED
      BY <1>1, <3>1, <3>3, Dispatched
  <2> QED
    BY <2>1, <2>2
<1>6. (sync \in SyncsOf(Rows))' /\ (late \in SUBSET LateOf(Rows, Bookings))'
  BY <1>1, ElseStays
<1> QED
  BY <1>1, <1>4, <1>5, <1>6, Whole DEF WebInv, AsksFit, SendsFit

(* The hints of an event are bookings. *)
LEMMA EventHints ==
  ASSUME NEW B, NEW e \in EventsOf(B)
  PROVE  Hints(e) \in HintsOf(B)
  BY DEF Hints, HintsOf, EventsOf, OrNone

(* An event is received. *)
LEMMA ReceiveFits == WebInv /\ Receive => WebInv'
<1> SUFFICES ASSUME WebInv, Receive PROVE WebInv'
  OBVIOUS
<1> DEFINE d == sse.callId
           last == sse.next
           e == stream[d][last]
           filled == Append(batch, last)
           p == ApplyServerEvents(page, d, stream[d], filled)
           co == Request(Co, page, d, Hints(e), "page")
<1>1. /\ d # None /\ last <= Len(stream[d])
      /\ sse' = [sse EXCEPT !.next = @ + 1]
      /\ ApiStays /\ UNCHANGED late
  BY DEF Receive, Awaits, ApiStays
<1>2. IF e.event \notin RecoveryEvent
      THEN batch' = filled /\ UNCHANGED <<page, storage, active, queued, req, sync>>
      ELSE batch' = <<>> /\ Dispatch(p, co, req) /\ sync' = SyncAfter(p, sync)
  BY DEF Receive
<1>3. /\ d \in Rows /\ d \in Call /\ last \in Nat \ {0} /\ Len(stream[d]) \in Nat
      /\ stream[d] \in Seq(EventsOf(Bookings)) /\ batch \in Seq(1 .. last - 1)
  BY <1>1, ReadFacts
<1>4. Rows' = Rows /\ Bookings' = Bookings /\ stream' = stream /\ ServerFits'
      /\ (late \in SUBSET LateOf(Rows, Bookings))'
  BY <1>1, ElseStays DEF ApiStays
<1>5. e \in EventsOf(Bookings)
  <2>1. last \in 1 .. Len(stream[d])
    BY <1>1, <1>3
  <2> HIDE DEF last, d
  <2> QED
    BY <1>3, <2>1
<1>6. filled \in Seq(1 .. last) /\ filled \in Seq(1 .. Len(stream[d]))
  <2>1. last - 1 \in Nat /\ last - 1 <= last /\ last \in 1 .. last /\ last \in Nat
    BY <1>3
  <2>2. batch \in Seq(1 .. last)
    BY <1>3, <2>1, BatchWithin
  <2>3. filled \in Seq(1 .. last)
    BY <2>1, <2>2
  <2> HIDE DEF filled
  <2> QED
    BY <1>1, <1>3, <2>1, <2>3, BatchWithin
<1> HIDE DEF filled
<1>7. sse \in [callId : OrNone(Rows), next : Nat \ {0}, up : BOOLEAN]
  BY DEF WebInv, ReadsFit
<1>8. ReadsFit'
  <2> DEFINE more == last + 1
  <2>1. more \in Nat \ {0} /\ more - 1 = last /\ more <= Len(stream[d]) + 1
    BY <1>1, <1>3
  <2>2. sse' = [sse EXCEPT !.next = more]
    BY <1>1
  <2> HIDE DEF more
  <2>3. /\ sse'.callId = d /\ sse'.next = more
        /\ sse' \in [callId : OrNone(Rows), next : Nat \ {0}, up : BOOLEAN]
    BY <1>7, <2>1, <2>2
  <2>4. batch' \in Seq(1 .. last)
    <3>1. batch' = filled \/ batch' = <<>>
      BY <1>2
    <3>2. <<>> \in Seq(1 .. last)
      OBVIOUS
    <3> HIDE DEF last
    <3>3. filled \in Seq(1 .. last)
      BY <1>6
    <3> QED
      BY <3>1, <3>2, <3>3
  <2>5. batch' \in Seq(1 .. sse'.next - 1)
    BY <2>1, <2>3, <2>4
  <2>6. sse'.callId # None /\ sse'.next <= Len(stream'[sse'.callId]) + 1
    BY <1>1, <1>4, <2>1, <2>3
  <2>7. sse' \in [callId : OrNone(Rows'), next : Nat \ {0}, up : BOOLEAN]
    BY <1>4, <2>3
  <2> QED
    BY <2>5, <2>6, <2>7 DEF ReadsFit
<1>9. PageFits' /\ AsksFit' /\ (req \in Requests(Bookings))'
  <2>1. CASE e.event \notin RecoveryEvent
    <3>1. UNCHANGED <<page, storage, active, queued, req, sync>>
      BY <1>2, <2>1
    <3> QED
      BY <1>1, <3>1, ElseStays DEF AsksFit
  <2>2. CASE e.event \in RecoveryEvent
    <3>1. Dispatch(p, co, req) /\ sync' = SyncAfter(p, sync)
      BY <1>2, <2>2
    <3>2. p \in PagesOf(Rows, Bookings)
      BY <1>1, <1>6, BatchFits
    <3>3. CoFits(co, Rows, Bookings)
      <4>1. Hints(e) \in HintsOf(Bookings)
        BY <1>5, EventHints
      <4>2. page \in PagesOf(Rows, Bookings) /\ CoFits(Co, Rows, Bookings) /\ d \in OrNone(Rows)
        BY <1>3 DEF WebInv, PageFits, AsksFit, OrNone
      <4> HIDE DEF d, e
      <4> QED
        BY <4>1, <4>2, RowsAreCalls, RequestFits
    <3>4. req \in Requests(Bookings) /\ sync \in SyncsOf(Rows)
      BY DEF WebInv, AsksFit, SendsFit
    <3> HIDE DEF p, co
    <3>5. /\ PageFits' /\ CoFits(Co, Rows, Bookings)' /\ (req \in Requests(Bookings))'
      BY <1>1, <3>1, <3>2, <3>3, <3>4, Dispatched
    <3>6. sync' \in SyncsOf(Rows)
      BY <3>1, <3>4, SyncFits
    <3>7. (sync \in SyncsOf(Rows))'
      BY <1>4, <3>6
    <3> QED
      BY <3>5, <3>7 DEF AsksFit
  <2> QED
    BY <2>1, <2>2
<1> QED
  BY <1>4, <1>8, <1>9 DEF WebInv, SendsFit

(* The timer flushes the batch. *)
LEMMA FlushFits == WebInv /\ Flush => WebInv'
<1> SUFFICES ASSUME WebInv, Flush PROVE WebInv'
  OBVIOUS
<1> DEFINE d == sse.callId
           p == ApplyServerEvents(page, d, stream[d], batch)
<1>1. /\ batch # <<>> /\ batch' = <<>> /\ Dispatch(p, Co, req) /\ sync' = SyncAfter(p, sync)
      /\ ApiStays /\ UNCHANGED <<sse, late>>
  BY DEF Flush, ApiStays
<1>2. d # None
  BY <1>1 DEF WebInv, ReadsFit
<1>3. /\ sse.next \in Nat \ {0} /\ Len(stream[d]) \in Nat /\ sse.next <= Len(stream[d]) + 1
      /\ batch \in Seq(1 .. sse.next - 1)
  BY <1>2, ReadFacts
<1>4. batch \in Seq(1 .. Len(stream[d]))
  <2>1. sse.next - 1 \in Nat /\ sse.next - 1 <= Len(stream[d])
    BY <1>3
  <2> QED
    BY <1>3, <2>1, BatchWithin
<1>5. p \in PagesOf(Rows, Bookings)
  BY <1>2, <1>4, BatchFits
<1>6. /\ CoFits(Co, Rows, Bookings) /\ req \in Requests(Bookings) /\ sync \in SyncsOf(Rows)
  BY DEF WebInv, AsksFit, SendsFit
<1> HIDE DEF p
<1>7. /\ ServerFits' /\ PageFits' /\ CoFits(Co, Rows, Bookings)'
      /\ (req \in Requests(Bookings))'
  BY <1>1, <1>5, <1>6, Dispatched
<1>8. sync' \in SyncsOf(Rows)
  BY <1>1, <1>6, SyncFits
<1>9. (sync \in SyncsOf(Rows))' /\ (late \in SUBSET LateOf(Rows, Bookings))'
  BY <1>1, <1>8, ElseStays
<1>10. ReadsFit'
  <2>1. Rows' = Rows /\ stream' = stream
    BY <1>1, ElseStays DEF ApiStays
  <2>2. batch' \in Seq(1 .. sse'.next - 1)
    BY <1>1
  <2> QED
    BY <1>1, <2>1, <2>2 DEF WebInv, ReadsFit
<1> QED
  BY <1>7, <1>9, <1>10 DEF WebInv, AsksFit, SendsFit

(* A live call is connected: the API has just created it. *)
LEMMA ConnectFits ==
  ASSUME WebInv, NEW c \in Call, ConnectLiveCall(c)
  PROVE  WebInv'
<1> DEFINE row == [status |-> "CREATED", turns |-> {}, stage |-> None, gate |-> "LOCKED"]
<1>1. /\ server[c] = None /\ server' = [server EXCEPT ![c] = row]
      /\ stream' = [stream EXCEPT ![c] = CreatedEvents]
      /\ sse' = [callId |-> c, next |-> 1, up |-> TRUE] /\ batch' = <<>>
      /\ Dispatch(Connected(c), Co, req) /\ sync' = SyncAfter(InitialPage, sync)
      /\ late' = late
  BY DEF ConnectLiveCall, Connect
<1>2. row \in ServerRow /\ row # None /\ row.stage = None
  <2>1. row \in ServerRow /\ row.stage = None
    BY DEF ServerRow, PageGate
  <2> QED
    BY <2>1, NoneAssumption
<1> HIDE DEF row
<1>3. server \in [Call -> ServerRow \cup {None}] /\ stream \in [Call -> Seq(EventsOf(Bookings))]
  BY DEF WebInv, ServerFits
<1>4. \A d \in Call : server'[d] = IF d = c THEN row ELSE server[d]
  BY <1>1, <1>3
<1>5. Rows \subseteq Rows' /\ c \in Rows' /\ Bookings' = Bookings
  BY <1>1, <1>2, <1>4 DEF Rows, Bookings
<1>6. ServerFits'
  <2>1. server' \in [Call -> ServerRow \cup {None}]
    BY <1>1, <1>2, <1>3
  <2>2. CreatedEvents \in Seq(EventsOf(Bookings))
    BY DEF CreatedEvents, CallEv, EventsOf, OrNone, EventName
  <2>3. stream' \in [Call -> Seq(EventsOf(Bookings))]
    BY <1>1, <1>3, <2>2
  <2> QED
    BY <1>5, <2>1, <2>3 DEF ServerFits
<1>7. ReadsFit'
  <2>1. sse' \in [callId : OrNone(Rows'), next : Nat \ {0}, up : BOOLEAN]
    BY <1>1, <1>5 DEF OrNone
  <2>2. sse'.callId = c /\ sse'.next = 1 /\ batch' = <<>> /\ c # None
    BY <1>1, NoneAssumption
  <2>3. Len(stream'[c]) \in Nat
    BY <1>6, LenProperties DEF ServerFits
  <2>4. <<>> \in Seq(1 .. 1 - 1)
    OBVIOUS
  <2> QED
    BY <2>1, <2>2, <2>3, <2>4 DEF ReadsFit
<1>8. /\ page \in PagesOf(Rows', Bookings') /\ storage \in StoredOf(Rows', Bookings')
      /\ CoFits(Co, Rows', Bookings') /\ sync \in SyncsOf(Rows')
      /\ req \in Requests(Bookings') /\ late \in SUBSET LateOf(Rows', Bookings')
  BY <1>5, TypesGrow DEF WebInv, PageFits, AsksFit, SendsFit
<1>9. Rows' \in SUBSET Call /\ Bookings' \in SUBSET Call
  BY DEF Rows, Bookings
<1>10. Connected(c) \in PagesOf(Rows', Bookings')
  BY <1>5, FreshPages
<1>11. /\ page' \in PagesOf(Rows', Bookings') /\ storage' \in StoredOf(Rows', Bookings')
       /\ CoFits([active |-> active', queued |-> queued'], Rows', Bookings')
       /\ req' \in Requests(Bookings')
  BY <1>1, <1>8, <1>9, <1>10, DispatchFits
<1>12. sync' \in SyncsOf(Rows')
  BY <1>1, <1>8, SyncFits
<1> QED
  BY <1>1, <1>6, <1>7, <1>8, <1>11, <1>12 DEF WebInv, PageFits, AsksFit, SendsFit, Co

(* The page is reset, or loaded again. *)
LEMMA FreshStarts ==
  ASSUME WebInv, Reset \/ Reload
  PROVE  WebInv'
<1>1. ApiStays
  BY DEF Reset, Reload, ApiStays
<1>2. /\ ServerFits' /\ Rows' = Rows /\ Bookings' = Bookings /\ stream' = stream
  BY <1>1, ElseStays DEF ApiStays
<1>3. /\ page \in PagesOf(Rows, Bookings) /\ storage \in StoredOf(Rows, Bookings)
      /\ CoFits(Co, Rows, Bookings) /\ sync \in SyncsOf(Rows)
      /\ req \in Requests(Bookings) /\ late \in SUBSET LateOf(Rows, Bookings)
  BY DEF WebInv, PageFits, AsksFit, SendsFit
<1>4. [n \in DOMAIN sync |-> SyncOff] \in SyncsOf(Rows)
  <2>1. SyncOff \in ChainsOf(Rows)
    BY SyncAttemptsAssumption DEF SyncOff, ChainsOf, OrNone
  <2> QED
    BY <1>3, <2>1 DEF SyncsOf
<1>5. NoStream \in [callId : OrNone(Rows), next : Nat \ {0}, up : BOOLEAN]
      /\ NoStream.callId = None
  BY DEF NoStream, OrNone
<1>6. CASE Reset
  <2>1. /\ page.callId # None
        /\ late' = IF page.callStatus \in ClosedCall THEN late
                   ELSE late \cup {[command |-> "end", booking |-> page.callId]}
        /\ page' = InitialPage /\ storage' = None /\ sse' = NoStream /\ batch' = <<>>
        /\ sync' = Cancelled(sync)
        /\ active' = active /\ queued' = queued /\ req' = req
    BY <1>6 DEF Reset
  <2>2. late' \in SUBSET LateOf(Rows, Bookings)
    <3>1. page.callId \in Rows
      BY <1>3, <2>1 DEF PagesOf, OrNone
    <3>2. [command |-> "end", booking |-> page.callId] \in LateOf(Rows, Bookings)
      BY <3>1 DEF LateOf
    <3> QED
      BY <1>3, <2>1, <3>2
  <2>3. page' \in PagesOf(Rows, Bookings) /\ storage' \in StoredOf(Rows, Bookings)
    BY <2>1, FreshPages DEF StoredOf
  <2>4. sync' \in SyncsOf(Rows)
    BY <1>3, <2>1, SyncFits
  <2>5. CoFits(Co, Rows, Bookings)' /\ (req \in Requests(Bookings))'
    BY <1>1, <2>1, ElseStays
  <2>6. ReadsFit'
    BY <1>2, <1>5, <2>1 DEF ReadsFit
  <2> QED
    BY <1>2, <2>2, <2>3, <2>4, <2>5, <2>6 DEF WebInv, PageFits, AsksFit, SendsFit
<1>7. CASE Reload
  <2>1. /\ page' = PageOf(storage) /\ sse' = StreamOf(storage)
        /\ active' = RecoveryOf(storage) /\ queued' = None
        /\ batch' = <<>> /\ sync' = [n \in DOMAIN sync |-> SyncOff]
        /\ late' = late \cup Forgotten
        /\ req' = [k \in Command |-> Idle] /\ storage' = storage
    BY <1>7 DEF Reload
  <2>2. storage # None => /\ storage.callId \in Rows /\ storage.callId # None
                          /\ storage.bookingId \in OrNone(Bookings)
                          /\ storage.paymentIntentId \in OrNone(Bookings)
    BY <1>3, RowsAreCalls, NoneAssumption DEF StoredOf
  <2>3. page' \in PagesOf(Rows, Bookings)
    BY <1>3, <2>1, FreshPages DEF PageOf
  <2>4. ReadsFit'
    <3>1. CASE storage = None
      BY <1>2, <1>5, <2>1, <3>1 DEF StreamOf, ReadsFit
    <3>2. CASE storage # None
      <4>1. /\ sse'.callId = storage.callId /\ sse'.next = 1
            /\ sse' \in [callId : OrNone(Rows), next : Nat \ {0}, up : BOOLEAN]
        BY <2>1, <2>2, <3>2 DEF StreamOf, OrNone
      <4>2. Len(stream[storage.callId]) \in Nat
        <5>1. storage.callId \in Call
          BY <2>2, <3>2, RowsAreCalls
        <5> QED
          BY <5>1, LenProperties DEF WebInv, ServerFits
      <4>3. <<>> \in Seq(1 .. 1 - 1)
        OBVIOUS
      <4>4. batch' \in Seq(1 .. sse'.next - 1)
        BY <2>1, <4>1, <4>3
      <4> QED
        BY <1>2, <2>2, <3>2, <4>1, <4>2, <4>4 DEF ReadsFit
    <3> QED
      BY <3>1, <3>2
  <2>5. CoFits(Co, Rows, Bookings)'
    <3> DEFINE hints == [NoHints EXCEPT !.bookingId = storage.bookingId,
                                        !.paymentIntentId = storage.paymentIntentId]
               run == Run(InitialPage, storage.callId, hints)
    <3>1. storage # None => RunFits(run, Rows, Bookings)
      <4>1. storage # None => hints \in HintsOf(Bookings)
        BY <2>2 DEF NoHints, HintsOf, OrNone
      <4>2. storage # None => storage.callId \in OrNone(Rows)
        BY <2>2 DEF OrNone
      <4> HIDE DEF hints
      <4> QED
        BY <4>1, <4>2, FreshPages, RunBegins
    <3>2. storage # None => active' = [run EXCEPT !.heard = TRUE]
      BY <2>1 DEF RecoveryOf
    <3> HIDE DEF run
    <3>3. storage # None => RunFits(active', Rows, Bookings)
      <4> SUFFICES ASSUME storage # None
                   PROVE  RunFits(active', Rows, Bookings)
        OBVIOUS
      <4> DEFINE heard == [run EXCEPT !.heard = TRUE]
      <4>1. /\ heard \in RunsOf(Rows, Bookings) /\ heard.get = run.get /\ heard.hints = run.hints
            /\ heard.state = run.state /\ heard.callId = run.callId
            /\ heard.hasBooking = run.hasBooking /\ heard.answer = run.answer
        BY <3>1 DEF RunFits, RunsOf
      <4> HIDE DEF heard
      <4>2. RunFits(heard, Rows, Bookings)
        BY <3>1, <4>1
           DEF RunFits, Wanted, AnswerFits, BookingOf, ReceiptOf, AsksForPayment
      <4> QED
        BY <3>2, <4>2 DEF heard
    <3>4. storage = None => active' = None
      BY <2>1 DEF RecoveryOf
    <3> QED
      BY <1>2, <2>1, <3>3, <3>4 DEF CoFits, QueuedFits, Co
  <2>6. req' \in Requests(Bookings)
    BY <2>1 DEF Requests, Idle, OrNone
  <2>7. Forgotten \subseteq LateOf(Rows, Bookings)
    <3>1. ASSUME NEW k \in Command, req[k].state = "sent"
          PROVE  [command |-> k, booking |-> req[k].booking] \in LateOf(Rows, Bookings)
      BY <1>3, <3>1 DEF Requests, LateOf
    <3> QED
      BY <3>1 DEF Forgotten
  <2> QED
    BY <1>2, <1>3, <1>4, <2>1, <2>3, <2>4, <2>5, <2>6, <2>7
       DEF WebInv, PageFits, AsksFit, SendsFit
<1> QED
  BY <1>6, <1>7

(* The page sends a command. *)
LEMMA SendFits ==
  ASSUME WebInv, ConfirmAgreementFromWeb \/ SimulateWalletPayment
  PROVE  WebInv'
<1>1. page \in PagesOf(Rows, Bookings) /\ req \in Requests(Bookings) /\ CoFits(Co, Rows, Bookings)
  BY DEF WebInv, PageFits, AsksFit, SendsFit
<1>2. \E k \in Command, b \in Bookings, p \in PagesOf(Rows, Bookings) : Send(k, b, p)
  <2>1. CASE ConfirmAgreementFromWeb
    <3>1. Send("confirm", page.booking.of, page) /\ page.booking # None /\ page.booking.of # None
      BY <2>1 DEF ConfirmAgreementFromWeb
    <3>2. page.booking.of \in Bookings /\ "confirm" \in Command
      BY <1>1, <3>1 DEF PagesOf, OrNone, Command
    <3> QED
      BY <1>1, <3>1, <3>2
  <2>2. CASE SimulateWalletPayment
    <3>1. /\ Send("verify", page.paymentIntent, PaymentActionStarted(page))
          /\ page.paymentIntent # None
      BY <2>2 DEF SimulateWalletPayment
    <3>2. page.paymentIntent \in Bookings /\ "verify" \in Command
      BY <1>1, <3>1 DEF PagesOf, OrNone, Command
    <3>3. PaymentActionStarted(page) \in PagesOf(Rows, Bookings)
      BY <1>1, RepliedPages
    <3> QED
      BY <3>1, <3>2, <3>3
  <2> QED
    BY <2>1, <2>2
<1>3. PICK k \in Command, b \in Bookings, p \in PagesOf(Rows, Bookings) : Send(k, b, p)
  BY <1>2
<1> DEFINE r == [req EXCEPT ![k] = [state |-> "sent", booking |-> b]]
<1>4. Dispatch(p, Co, r) /\ ApiStays /\ UNCHANGED <<sse, batch, sync, late>>
  BY <1>3 DEF Send, ApiStays
<1>5. r \in Requests(Bookings)
  BY <1>1 DEF Requests, OrNone
<1> HIDE DEF r
<1>6. /\ ServerFits' /\ PageFits' /\ CoFits(Co, Rows, Bookings)'
      /\ (req \in Requests(Bookings))'
  BY <1>1, <1>4, <1>5, Dispatched
<1>7. ReadsFit' /\ (sync \in SyncsOf(Rows))' /\ (late \in SUBSET LateOf(Rows, Bookings))'
  BY <1>4, ElseStays
<1> QED
  BY <1>6, <1>7 DEF WebInv, AsksFit, SendsFit

(* A reply arrives, or a request is lost. *)
LEMMA ReplyFits ==
  ASSUME WebInv, NEW k \in Command, ReplyArrives(k) \/ RequestLost(k)
  PROVE  WebInv'
<1>1. /\ page \in PagesOf(Rows, Bookings) /\ req \in Requests(Bookings)
      /\ CoFits(Co, Rows, Bookings) /\ late \in SUBSET LateOf(Rows, Bookings)
  BY DEF WebInv, PageFits, AsksFit, SendsFit
<1>2. req[k].state # "idle"
  BY DEF ReplyArrives, RequestLost
<1> DEFINE b == req[k].booking
<1>3. b \in Bookings
  BY <1>1, <1>2 DEF Requests
<1>4. CASE ReplyArrives(k)
  <2> DEFINE r == req[k]
             p == Replied(k, r)
             by == IF r.state = "rejected" THEN "nobody" ELSE "page"
             hints == ReplyHints(k, b, r.state)
             asked == Request(Co, page, page.callId, hints, by)
             co == IF AsksAfter(k, r.state) THEN asked ELSE Co
             rest == [req EXCEPT ![k] = Idle]
  <2>1. Dispatch(p, co, rest) /\ ApiStays /\ UNCHANGED <<sse, batch, sync, late>>
    BY <1>4 DEF ReplyArrives, ApiStays
  <2>2. p \in PagesOf(Rows, Bookings)
    <3>1. /\ Failed(page) \in PagesOf(Rows, Bookings)
          /\ BookingConfirmed(page) \in PagesOf(Rows, Bookings)
          /\ PaymentIntentCreated(page, b) \in PagesOf(Rows, Bookings)
          /\ PaymentVerified(page, b) \in PagesOf(Rows, Bookings)
          /\ PaymentRejected(page) \in PagesOf(Rows, Bookings)
          /\ PaymentStillPending(page) \in PagesOf(Rows, Bookings)
      BY <1>1, <1>3, RepliedPages
    <3> QED
      BY <3>1 DEF Replied
  <2>3. rest \in Requests(Bookings)
    BY <1>1 DEF Requests, Idle, OrNone
  <2>4. CoFits(co, Rows, Bookings)
    <3>1. hints \in HintsOf(Bookings)
      BY <1>3 DEF ReplyHints, HintsOf, OrNone
    <3>2. by \in {"page", "sync", "nobody"} /\ page.callId \in OrNone(Rows)
      BY <1>1 DEF PagesOf
    <3> HIDE DEF hints, by
    <3>3. CoFits(asked, Rows, Bookings)
      BY <1>1, <3>1, <3>2, RequestFits, RowsAreCalls
    <3> QED
      BY <1>1, <3>3
  <2> HIDE DEF p, co, rest
  <2>5. /\ ServerFits' /\ PageFits' /\ CoFits(Co, Rows, Bookings)'
        /\ (req \in Requests(Bookings))'
    BY <2>1, <2>2, <2>3, <2>4, Dispatched
  <2>6. ReadsFit' /\ (sync \in SyncsOf(Rows))' /\ (late \in SUBSET LateOf(Rows, Bookings))'
    BY <2>1, ElseStays
  <2> QED
    BY <2>5, <2>6 DEF WebInv, AsksFit, SendsFit
<1>5. CASE RequestLost(k)
  <2>1. /\ late' = late \cup {[command |-> k, booking |-> b]}
        /\ req' = [req EXCEPT ![k].state = "lost"]
        /\ ApiStays
        /\ UNCHANGED <<page, storage, sse, batch, active, queued, sync>>
    BY <1>5 DEF RequestLost, ApiStays
  <2>2. late' \in SUBSET LateOf(Rows, Bookings)
    <3>1. [command |-> k, booking |-> b] \in LateOf(Rows, Bookings)
      BY <1>3 DEF LateOf
    <3> QED
      BY <1>1, <2>1, <3>1
  <2>3. req' \in Requests(Bookings)
    BY <1>1, <1>2, <2>1 DEF Requests
  <2>4. /\ ServerFits' /\ Rows' = Rows /\ Bookings' = Bookings /\ ReadsFit' /\ PageFits'
        /\ CoFits(Co, Rows, Bookings)' /\ (sync \in SyncsOf(Rows))'
    BY <2>1, ElseStays
  <2> QED
    BY <2>2, <2>3, <2>4 DEF WebInv, AsksFit, SendsFit
<1> QED
  BY <1>4, <1>5

(* The timer of some chain fires. *)
TimerFires == \E n \in DOMAIN sync : SyncTimerFires(n)

(* An attempt after the call. *)
LEMMA SyncSteps ==
  ASSUME WebInv, StartPostCallTranscriptSync \/ TimerFires
  PROVE  WebInv'
<1>1. /\ page \in PagesOf(Rows, Bookings) /\ req \in Requests(Bookings)
      /\ CoFits(Co, Rows, Bookings) /\ sync \in SyncsOf(Rows)
  BY DEF WebInv, PageFits, AsksFit, SendsFit
<1>2. NoHints \in HintsOf(Bookings) /\ Rows \in SUBSET Call /\ Bookings \in SUBSET Call
  BY RowsAreCalls DEF NoHints, HintsOf, OrNone
<1>3. ApiStays /\ UNCHANGED <<sse, batch, late>>
  BY DEF StartPostCallTranscriptSync, TimerFires, SyncTimerFires, ApiStays
<1>4. /\ PageFits' /\ CoFits(Co, Rows, Bookings)' /\ (req \in Requests(Bookings))'
      /\ sync' \in SyncsOf(Rows)
  <2>1. CASE StartPostCallTranscriptSync
    <3> DEFINE p == [page EXCEPT !.postCallTranscriptSync = "PENDING"]
               co == Request(Co, p, p.callId, NoHints, "sync")
    <3>1. /\ page.callId # None /\ Dispatch(p, co, req)
          /\ \E n \in DOMAIN sync :
               sync' = [Cancelled(sync) EXCEPT ![n] =
                          [state |-> "waiting", callId |-> page.callId, attempts |-> 0]]
      BY <2>1 DEF StartPostCallTranscriptSync
    <3>2. /\ p \in PagesOf(Rows, Bookings) /\ p.callId \in OrNone(Rows)
          /\ page.callId \in Rows
      BY <1>1, <3>1 DEF PagesOf, SyncStatus, OrNone
    <3>3. sync' \in SyncsOf(Rows)
      <4> DEFINE begun == [state |-> "waiting", callId |-> page.callId, attempts |-> 0]
      <4>1. begun \in ChainsOf(Rows)
        BY <3>2, SyncAttemptsAssumption DEF ChainsOf, OrNone
      <4>2. Cancelled(sync) \in SyncsOf(Rows)
        BY <1>1, SyncFits
      <4> HIDE DEF begun
      <4>3. \A n : [Cancelled(sync) EXCEPT ![n] = begun] \in SyncsOf(Rows)
        BY <4>1, <4>2 DEF SyncsOf
      <4> QED
        BY <3>1, <4>3 DEF begun
    <3> HIDE DEF p
    <3>4. CoFits(co, Rows, Bookings)
      BY <1>1, <1>2, <3>2, RequestFits
    <3> HIDE DEF co
    <3> QED
      BY <1>1, <1>3, <3>1, <3>2, <3>3, <3>4, Dispatched
  <2>2. CASE TimerFires
    <3>1. PICK n \in DOMAIN sync : SyncTimerFires(n)
      BY <2>2 DEF TimerFires
    <3> DEFINE co == Request(Co, page, sync[n].callId, NoHints, "sync")
    <3>2. /\ sync[n].state \in {"timer", "adrift"} /\ Dispatch(page, co, req)
          /\ sync' = [sync EXCEPT ![n].state = "waiting"]
      BY <3>1 DEF SyncTimerFires
    <3>3. sync' \in SyncsOf(Rows) /\ sync[n].callId \in OrNone(Rows)
      <4>1. sync[n] \in ChainsOf(Rows)
        BY <1>1 DEF SyncsOf
      <4>2. [sync[n] EXCEPT !.state = "waiting"] \in ChainsOf(Rows)
        BY <3>2, <4>1 DEF ChainsOf
      <4>3. sync' = [sync EXCEPT ![n] = [sync[n] EXCEPT !.state = "waiting"]]
        BY <3>2
      <4> QED
        BY <1>1, <4>1, <4>2, <4>3 DEF SyncsOf, ChainsOf
    <3>4. CoFits(co, Rows, Bookings)
      BY <1>1, <1>2, <3>3, RequestFits
    <3> HIDE DEF co
    <3> QED
      BY <1>1, <1>3, <3>2, <3>3, <3>4, Dispatched
  <2> QED
    BY <2>1, <2>2
<1>5. ServerFits' /\ ReadsFit' /\ (sync \in SyncsOf(Rows))'
      /\ (late \in SUBSET LateOf(Rows, Bookings))'
  BY <1>3, <1>4, ElseStays
<1> QED
  BY <1>4, <1>5 DEF WebInv, AsksFit, SendsFit

(* Every step keeps the invariant. *)
LEMMA WebStepFits == WebInv /\ [WebNext]_vars => WebInv'
<1> SUFFICES ASSUME WebInv, [WebNext]_vars PROVE WebInv'
  OBVIOUS
<1>1. CASE \E c \in Call : ApiStep(c) \/ ConnectLiveCall(c)
  BY <1>1, ApiSteps, ConnectFits
<1>2. CASE ApiAnswers \/ AnswerArrives \/ RecoveryEnds \/ RecoveryFails
  BY <1>2, ApiAnswersFits, AnswerArrivesFits, RecoveryOverFits
<1>3. CASE Receive \/ Flush \/ Skip \/ Drop \/ Reconnect
  BY <1>3, ReceiveFits, FlushFits, StreamSteps
<1>4. CASE Reset \/ Reload
  BY <1>4, FreshStarts
<1>5. CASE ConfirmAgreementFromWeb \/ SimulateWalletPayment
  BY <1>5, SendFits
<1>6. CASE \E k \in Command : ApiExecutes(k) \/ ReplyArrives(k) \/ RequestLost(k)
  BY <1>6, ApiSteps, ReplyFits
<1>7. CASE ApiExecutesLate
  BY <1>7, ApiSteps
<1>8. CASE StartPostCallTranscriptSync \/ TimerFires
  BY <1>8, SyncSteps
<1>9. CASE UNCHANGED vars
  <2>1. ApiStays
        /\ UNCHANGED <<page, storage, sse, batch, active, queued, sync, req, late>>
    BY <1>9 DEF vars, ApiStays
  <2> QED
    BY <2>1, ElseStays DEF WebInv, AsksFit, SendsFit
<1> QED
  BY <1>1, <1>2, <1>3, <1>4, <1>5, <1>6, <1>7, <1>8, <1>9 DEF WebNext, TimerFires

(* The page, the storage, the recovery and the batch keep their types,     *)
(* whatever events are skipped, answers overtaken or requests lost.        *)
THEOREM PageKeepsItsType == WebSpec => []WebTypeOK
<1>1. WebInv => WebTypeOK
  BY WebInvTypes
<1> QED
  BY WebInitFits, WebStepFits, <1>1, PTL DEF WebSpec

(* The page shows, stores and asks about nothing that the API does not     *)
(* have: its call exists, and its booking, its intent and its receipt, the *)
(* ones kept for a reload and those of a command on its way are of a call  *)
(* with a booking.                                                         *)
IdsKnown ==
  /\ page.callId \in Rows \cup {None}
  /\ {page.bookingId, page.paymentIntentId, page.receiptId} \subseteq Bookings \cup {None}
  /\ storage # None =>
       /\ storage.callId \in Rows
       /\ {storage.bookingId, storage.paymentIntentId} \subseteq Bookings \cup {None}
  /\ \A k \in Command : req[k].state # "idle" => req[k].booking \in Bookings
  /\ active # None /\ active.answer # None => Subject(active) \in Rows

(* Ids that a reload, a hint or an answer of an earlier call brings back   *)
(* are still the API's.                                                    *)
THEOREM IdsAreKnown == WebSpec => []IdsKnown
<1>1. WebInv => IdsKnown
  <2> SUFFICES ASSUME WebInv PROVE IdsKnown
    OBVIOUS
  <2>1. /\ page \in PagesOf(Rows, Bookings) /\ storage \in StoredOf(Rows, Bookings)
        /\ req \in Requests(Bookings)
        /\ active # None => RunFits(active, Rows, Bookings)
    BY DEF WebInv, PageFits, AsksFit, SendsFit, CoFits, Co
  <2>2. active # None /\ active.answer # None => Subject(active) \in Rows
    <3>1. Bookings \subseteq Rows /\ Rows \in SUBSET Call /\ Bookings \in SUBSET Call
      BY DEF Rows, Bookings
    <3> SUFFICES ASSUME active # None, active.answer # None
                 PROVE  Subject(active) \in Rows
      OBVIOUS
    <3>2. RunFits(active, Rows, Bookings) /\ active.callId \in Rows
      BY <2>1 DEF RunFits
    <3> QED
      BY <3>1, <3>2, RunSubjects DEF Subject
  <2>3. /\ page.callId \in Rows \cup {None}
        /\ {page.bookingId, page.paymentIntentId, page.receiptId} \subseteq Bookings \cup {None}
    BY <2>1 DEF PagesOf, OrNone
  <2>4. storage # None =>
          /\ storage.callId \in Rows
          /\ {storage.bookingId, storage.paymentIntentId} \subseteq Bookings \cup {None}
    BY <2>1 DEF StoredOf, OrNone
  <2>5. \A k \in Command : req[k].state # "idle" => req[k].booking \in Bookings
    BY <2>1 DEF Requests
  <2> QED
    BY <2>2, <2>3, <2>4, <2>5 DEF IdsKnown
<1> QED
  BY WebInitFits, WebStepFits, <1>1, PTL DEF WebSpec
-----------------------------------------------------------------------------
(***************************************************************************)
(* What the streams tell of the rows: every commit, and every call, keeps  *)
(* the events of a call in agreement with its row.                         *)
(***************************************************************************)
(* Calls with a booking at one of the stages. *)
PaidStage == {"PAYMENT_PENDING", "RECEIPT_ISSUED", "MANUAL_REVIEW_REQUIRED"}
At(stages) == {c \in Call : server[c] # None /\ server[c].stage \in stages}
Intents == At(PaidStage)
Receipts == At({"RECEIPT_ISSUED"})
Reviews == At({"MANUAL_REVIEW_REQUIRED"})

Asks(e) == e.event \in RecoveryEvent

(* An event is of its call, and tells of nothing the row does not have. *)
EventAgrees(e, d, row) ==
  /\ e.bookingId \in {None, d}
  /\ e.event = "transcript.turn.created" => e.data \in row.turns
  /\ e.event = "risk.payment_gate.updated" => e.data # "MANUAL_REVIEW_REQUIRED"
  /\ e.event \in {"payment.intent.created", "payment.confirmed"} =>
       e.bookingId = d /\ row.stage \in PaidStage
  /\ e.event = "payment.failed" => row.stage = "MANUAL_REVIEW_REQUIRED"
  /\ e.event = "receipt.verified" => e.bookingId = d /\ row.stage = "RECEIPT_ISSUED"

(* A status or gate that an event tells is the row's. *)
Tells(e, row) ==
  /\ e.event \in {"call.created", "call.ended"} => e.data = row.status
  /\ e.event = "risk.payment_gate.updated" => e.data = row.gate

AsksLater(S, n) == \E m \in n + 1 .. Len(S) : Asks(S[m])

(* Every event tells what the row says, or one after it asks for a recovery. *)
StreamAgrees(S, d, row) ==
  /\ row.gate # "MANUAL_REVIEW_REQUIRED"
  /\ \A n \in 1 .. Len(S) : EventAgrees(S[n], d, row) /\ (Tells(S[n], row) \/ AsksLater(S, n))
  /\ row.stage = "RECEIPT_ISSUED" => \E n \in 1 .. Len(S) : S[n].event = "receipt.verified"

StreamsAgree == \A d \in Call : server[d] # None => StreamAgrees(stream[d], d, server[d])

(* A row and its stream move on: the events that are new ask for a         *)
(* recovery, or status, gate and stage stay.                               *)
Advances(S, row, S2, row2, d) ==
  /\ Len(S) <= Len(S2) /\ \A n \in 1 .. Len(S) : S2[n] = S[n]
  /\ StreamAgrees(S2, d, row2)
  /\ row.turns \subseteq row2.turns
  /\ row.stage \in PaidStage => row2.stage \in PaidStage
  /\ row.stage \in {"RECEIPT_ISSUED", "MANUAL_REVIEW_REQUIRED"} => row2.stage = row.stage
  /\ \/ \E n \in Len(S) + 1 .. Len(S2) : Asks(S2[n])
     \/ /\ row2.status = row.status /\ row2.gate = row.gate /\ row2.stage = row.stage
        /\ \A n \in Len(S) + 1 .. Len(S2) : ~Asks(S2[n])
  /\ row2.stage = "RECEIPT_ISSUED" =>
       \/ row.stage = "RECEIPT_ISSUED"
       \/ \E n \in Len(S) + 1 .. Len(S2) : S2[n].event = "receipt.verified"

(* What a commit writes agrees with the events it appends. *)
Consistent(row, row2, new, d) ==
  /\ row.turns \subseteq row2.turns /\ row2.gate # "MANUAL_REVIEW_REQUIRED"
  /\ row.stage \in PaidStage => row2.stage \in PaidStage
  /\ row.stage \in {"RECEIPT_ISSUED", "MANUAL_REVIEW_REQUIRED"} => row2.stage = row.stage
  /\ \A n \in 1 .. Len(new) : EventAgrees(new[n], d, row2)
  /\ \A n \in 1 .. Len(new) : Tells(new[n], row2) \/ \E m \in n + 1 .. Len(new) : Asks(new[m])
  /\ \/ \E n \in 1 .. Len(new) : Asks(new[n])
     \/ row2.status = row.status /\ row2.gate = row.gate /\ row2.stage = row.stage
  /\ row2.stage = "RECEIPT_ISSUED" =>
       \/ row.stage = "RECEIPT_ISSUED"
       \/ \E n \in 1 .. Len(new) : new[n].event = "receipt.verified"

(* Then row and stream move on. *)
LEMMA StreamGrows ==
  ASSUME NEW X, NEW S \in Seq(X), NEW new \in Seq(X), NEW d, NEW row, NEW row2,
         StreamAgrees(S, d, row), Consistent(row, row2, new, d)
  PROVE  Advances(S, row, S \o new, row2, d)
<1> DEFINE N == Len(S)
           K == Len(new)
           S2 == S \o new
<1>1. /\ N \in Nat /\ K \in Nat /\ Len(S2) = N + K
      /\ \A n \in 1 .. N : S2[n] = S[n]
      /\ \A n \in 1 .. N + K : n > N => S2[n] = new[n - N]
  BY ConcatProperties, LenProperties
<1> HIDE DEF N, K, S2
<1>2. \A n \in 1 .. K : n + N \in N + 1 .. N + K /\ S2[n + N] = new[n]
  BY <1>1
<1>3. \A n \in N + 1 .. N + K : n - N \in 1 .. K /\ S2[n] = new[n - N]
  BY <1>1
<1>4. \A n \in 1 .. N : EventAgrees(S[n], d, row2)
  <2> SUFFICES ASSUME NEW n \in 1 .. N PROVE EventAgrees(S[n], d, row2)
    OBVIOUS
  <2>1. EventAgrees(S[n], d, row)
    BY DEF StreamAgrees, N
  <2> QED
    BY <2>1 DEF EventAgrees, Consistent
<1>5. \A n \in N + 1 .. N + K : EventAgrees(S2[n], d, row2)
  BY <1>3 DEF Consistent, K
<1>6. ASSUME NEW n \in 1 .. N
      PROVE  Tells(S2[n], row2) \/ AsksLater(S2, n)
  <2>1. S2[n] = S[n] /\ (Tells(S[n], row) \/ AsksLater(S, n))
    BY <1>1, <1>6 DEF StreamAgrees, N
  <2>2. CASE AsksLater(S, n)
    <3>1. PICK m \in n + 1 .. N : Asks(S[m])
      BY <2>2 DEF AsksLater, N
    <3>2. m \in 1 .. N /\ m \in n + 1 .. N + K
      BY <1>1, <1>6
    <3>3. Asks(S2[m])
      BY <1>1, <3>1, <3>2
    <3> QED
      BY <1>1, <3>2, <3>3 DEF AsksLater
  <2>3. CASE \E m \in 1 .. K : Asks(new[m])
    <3>1. PICK m \in 1 .. K : Asks(new[m])
      BY <2>3
    <3>2. m + N \in n + 1 .. N + K /\ Asks(S2[m + N])
      BY <1>1, <1>2, <1>6, <3>1
    <3> QED
      BY <1>1, <3>2 DEF AsksLater
  <2>4. CASE Tells(S[n], row) /\ row2.status = row.status /\ row2.gate = row.gate
    BY <2>1, <2>4 DEF Tells
  <2> QED
    BY <2>1, <2>2, <2>3, <2>4 DEF Consistent, K
<1>7. ASSUME NEW n \in N + 1 .. N + K
      PROVE  Tells(S2[n], row2) \/ AsksLater(S2, n)
  <2>1. n - N \in 1 .. K /\ S2[n] = new[n - N]
    BY <1>3
  <2>2. CASE Tells(new[n - N], row2)
    BY <2>1, <2>2
  <2>3. CASE \E m \in (n - N) + 1 .. K : Asks(new[m])
    <3>1. PICK m \in (n - N) + 1 .. K : Asks(new[m])
      BY <2>3
    <3>2. m \in 1 .. K /\ m + N \in n + 1 .. N + K
      BY <1>1, <2>1
    <3>3. Asks(S2[m + N])
      BY <1>2, <3>1, <3>2
    <3> QED
      BY <1>1, <3>2, <3>3 DEF AsksLater
  <2> QED
    BY <2>1, <2>2, <2>3 DEF Consistent, K
<1>8. row2.stage = "RECEIPT_ISSUED" =>
        \/ row.stage = "RECEIPT_ISSUED"
        \/ \E n \in N + 1 .. N + K : S2[n].event = "receipt.verified"
  BY <1>2 DEF Consistent, K
<1>9. row2.stage = "RECEIPT_ISSUED" => \E n \in 1 .. N + K : S2[n].event = "receipt.verified"
  <2>1. row.stage = "RECEIPT_ISSUED" => \E n \in 1 .. N : S[n].event = "receipt.verified"
    BY DEF StreamAgrees, N
  <2>2. 1 .. N \subseteq 1 .. N + K /\ N + 1 .. N + K \subseteq 1 .. N + K
    BY <1>1
  <2> QED
    BY <1>1, <1>8, <2>1, <2>2
<1>10. StreamAgrees(S2, d, row2)
  <2>1. \A n \in 1 .. N + K : n \in 1 .. N \/ n \in N + 1 .. N + K
    BY <1>1
  <2>2. \A n \in 1 .. N + K :
          EventAgrees(S2[n], d, row2) /\ (Tells(S2[n], row2) \/ AsksLater(S2, n))
    BY <1>1, <1>4, <1>5, <1>6, <1>7, <2>1
  <2>3. row2.gate # "MANUAL_REVIEW_REQUIRED"
    BY DEF Consistent
  <2> QED
    BY <1>1, <1>9, <2>2, <2>3 DEF StreamAgrees
<1>11. \/ \E n \in N + 1 .. N + K : Asks(S2[n])
       \/ /\ row2.status = row.status /\ row2.gate = row.gate /\ row2.stage = row.stage
          /\ \A n \in N + 1 .. N + K : ~Asks(S2[n])
  <2>1. (\E n \in 1 .. K : Asks(new[n])) => \E n \in N + 1 .. N + K : Asks(S2[n])
    BY <1>2
  <2> QED
    BY <2>1 DEF Consistent, K
<1>12. N <= N + K
  BY <1>1
<1>13. Advances(S, row, S2, row2, d)
  BY <1>1, <1>8, <1>10, <1>11, <1>12 DEF Advances, Consistent, N
<1> QED
  BY <1>13 DEF S2

(* A call whose row and stream stay has moved on. *)
LEMMA NothingNew ==
  ASSUME NEW S, Len(S) \in Nat, NEW row, NEW d, StreamAgrees(S, d, row)
  PROVE  Advances(S, row, S, row, d)
<1>1. Len(S) + 1 .. Len(S) = {}
  OBVIOUS
<1> QED
  BY <1>1 DEF Advances

(* Each commit does. *)
LEMMA CommitsAgree ==
  ASSUME NEW c \in Call, NEW row \in ServerRow, row.gate # "MANUAL_REVIEW_REQUIRED"
  PROVE  /\ row.stage = None =>
              Consistent(row, [status |-> "ACTIVE", turns |-> row.turns \cup {"customer"},
                               stage |-> "AGREEMENT_READY", gate |-> "READY_FOR_CONFIRMATION"],
                         DraftEvents(c), c)
         /\ \A d \in {None, c} :
              Consistent(row, [row EXCEPT !.turns = @ \cup {"agent"}],
                         <<Ev("transcript.turn.created", d, "agent")>>, c)
         /\ row.stage = "AGREEMENT_READY" =>
              Consistent(row, [row EXCEPT !.stage = "AGREEMENT_LOCKED", !.gate = "UNLOCKED"],
                         LockEvents(c), c)
         /\ row.stage = "AGREEMENT_LOCKED" =>
              Consistent(row, [row EXCEPT !.stage = "PAYMENT_PENDING"], IntentEvents(c), c)
         /\ row.stage = "PAYMENT_PENDING" =>
              /\ Consistent(row, [row EXCEPT !.stage = "RECEIPT_ISSUED"], PaidEvents(c), c)
              /\ Consistent(row, [row EXCEPT !.stage = "MANUAL_REVIEW_REQUIRED"],
                            <<Ev("payment.failed", c, None)>>, c)
         /\ Consistent(row, [row EXCEPT !.status = "ENDED"],
                       <<CallEv("call.ended", "ENDED")>>, c)
<1>1. \A name, d, data : /\ Ev(name, d, data).event = name
                         /\ Ev(name, d, data).bookingId = d
                         /\ Ev(name, d, data).data = data
  BY DEF Ev
<1>2. \A name, data : /\ CallEv(name, data).event = name
                      /\ CallEv(name, data).bookingId = None
                      /\ CallEv(name, data).data = data
  BY DEF CallEv
<1>3. /\ None \notin PaidStage /\ "AGREEMENT_READY" \notin PaidStage
      /\ "AGREEMENT_LOCKED" \notin PaidStage
  BY NoneAssumption DEF PaidStage, BookingStage
<1>4. ASSUME row.stage = None
      PROVE  Consistent(row, [status |-> "ACTIVE", turns |-> row.turns \cup {"customer"},
                              stage |-> "AGREEMENT_READY", gate |-> "READY_FOR_CONFIRMATION"],
                        DraftEvents(c), c)
  <2> DEFINE e1 == Ev("transcript.turn.created", c, "customer")
             e2 == Ev("booking.updated", c, "AGREEMENT_READY")
             e3 == Ev("risk.payment_gate.updated", c, "READY_FOR_CONFIRMATION")
             e4 == Ev("transcript.analysis.updated", c, None)
             new == DraftEvents(c)
             row2 == [status |-> "ACTIVE", turns |-> row.turns \cup {"customer"},
                      stage |-> "AGREEMENT_READY", gate |-> "READY_FOR_CONFIRMATION"]
  <2>1. /\ Len(new) = 4 /\ new[1] = e1 /\ new[2] = e2 /\ new[3] = e3 /\ new[4] = e4
    BY DEF DraftEvents
  <2>2. /\ row2.turns = row.turns \cup {"customer"} /\ row2.stage = "AGREEMENT_READY"
        /\ row2.gate = "READY_FOR_CONFIRMATION"
    OBVIOUS
  <2> HIDE DEF new, row2
  <2>3. /\ EventAgrees(e1, c, row2) /\ EventAgrees(e2, c, row2)
        /\ EventAgrees(e3, c, row2) /\ EventAgrees(e4, c, row2)
    BY <1>1, <2>2 DEF EventAgrees
  <2>4. Asks(e4) /\ Tells(e4, row2)
    BY <1>1 DEF Asks, Tells, RecoveryEvent
  <2> HIDE DEF e1, e2, e3, e4
  <2>5. \A n \in 1 .. 4 : n = 1 \/ n = 2 \/ n = 3 \/ n = 4
    OBVIOUS
  <2>6. \A n \in 1 .. Len(new) : EventAgrees(new[n], c, row2)
    BY <2>1, <2>3, <2>5
  <2>7. \A n \in 1 .. Len(new) : Tells(new[n], row2) \/ \E m \in n + 1 .. Len(new) : Asks(new[m])
    BY <2>1, <2>4
  <2>8. \E n \in 1 .. Len(new) : Asks(new[n])
    BY <2>1, <2>4
  <2>9. Consistent(row, row2, new, c)
    BY <1>3, <1>4, <2>2, <2>6, <2>7, <2>8, NoneAssumption DEF Consistent, BookingStage
  <2> QED
    BY <2>9 DEF new, row2
<1>5. ASSUME NEW d \in {None, c}
      PROVE  Consistent(row, [row EXCEPT !.turns = @ \cup {"agent"}],
                        <<Ev("transcript.turn.created", d, "agent")>>, c)
  <2> DEFINE e == Ev("transcript.turn.created", d, "agent")
             row2 == [row EXCEPT !.turns = @ \cup {"agent"}]
  <2>1. /\ row2.turns = row.turns \cup {"agent"} /\ row2.stage = row.stage
        /\ row2.gate = row.gate /\ row2.status = row.status
    BY DEF ServerRow
  <2> HIDE DEF row2
  <2>2. EventAgrees(e, c, row2) /\ Tells(e, row2)
    BY <1>1, <2>1 DEF EventAgrees, Tells
  <2> HIDE DEF e
  <2>3. Consistent(row, row2, <<e>>, c)
    BY <2>1, <2>2 DEF Consistent
  <2> QED
    BY <2>3 DEF row2, e
<1>6. ASSUME row.stage = "AGREEMENT_READY"
      PROVE  Consistent(row, [row EXCEPT !.stage = "AGREEMENT_LOCKED", !.gate = "UNLOCKED"],
                        LockEvents(c), c)
  <2> DEFINE e1 == Ev("agreement.locked", c, None)
             e2 == Ev("risk.payment_gate.updated", c, "UNLOCKED")
             row2 == [row EXCEPT !.stage = "AGREEMENT_LOCKED", !.gate = "UNLOCKED"]
             new == LockEvents(c)
  <2>1. Len(new) = 2 /\ new[1] = e1 /\ new[2] = e2
    BY DEF LockEvents
  <2>2. row2.turns = row.turns /\ row2.stage = "AGREEMENT_LOCKED" /\ row2.gate = "UNLOCKED"
    BY DEF ServerRow
  <2> HIDE DEF row2, new
  <2>3. /\ EventAgrees(e1, c, row2) /\ EventAgrees(e2, c, row2)
        /\ Asks(e1) /\ Tells(e1, row2) /\ Tells(e2, row2)
    BY <1>1, <2>2 DEF EventAgrees, Asks, Tells, RecoveryEvent
  <2> HIDE DEF e1, e2
  <2>4. \A n \in 1 .. 2 : n = 1 \/ n = 2
    OBVIOUS
  <2>5. /\ \A n \in 1 .. Len(new) : EventAgrees(new[n], c, row2) /\ Tells(new[n], row2)
        /\ \E n \in 1 .. Len(new) : Asks(new[n])
    BY <2>1, <2>3, <2>4
  <2>6. Consistent(row, row2, new, c)
    BY <1>3, <1>6, <2>2, <2>5 DEF Consistent
  <2> QED
    BY <2>6 DEF row2, new
<1>7. ASSUME row.stage = "AGREEMENT_LOCKED"
      PROVE  Consistent(row, [row EXCEPT !.stage = "PAYMENT_PENDING"], IntentEvents(c), c)
  <2> DEFINE e == Ev("payment.intent.created", c, None)
             row2 == [row EXCEPT !.stage = "PAYMENT_PENDING"]
  <2>1. /\ row2.turns = row.turns /\ row2.stage = "PAYMENT_PENDING" /\ row2.gate = row.gate
        /\ row2.stage \in PaidStage
    BY DEF ServerRow, PaidStage
  <2> HIDE DEF row2
  <2>2. EventAgrees(e, c, row2) /\ Asks(e) /\ Tells(e, row2)
    BY <1>1, <2>1 DEF EventAgrees, Asks, Tells, RecoveryEvent
  <2>3. IntentEvents(c) = <<e>>
    BY DEF IntentEvents
  <2> HIDE DEF e
  <2>4. Consistent(row, row2, <<e>>, c)
    BY <1>7, <2>1, <2>2 DEF Consistent
  <2> QED
    BY <2>3, <2>4 DEF row2
<1>8. ASSUME row.stage = "PAYMENT_PENDING"
      PROVE  /\ Consistent(row, [row EXCEPT !.stage = "RECEIPT_ISSUED"], PaidEvents(c), c)
             /\ Consistent(row, [row EXCEPT !.stage = "MANUAL_REVIEW_REQUIRED"],
                           <<Ev("payment.failed", c, None)>>, c)
  <2>1. Consistent(row, [row EXCEPT !.stage = "RECEIPT_ISSUED"], PaidEvents(c), c)
    <3> DEFINE e1 == Ev("payment.confirmed", c, None)
               e2 == Ev("receipt.verified", c, None)
               row2 == [row EXCEPT !.stage = "RECEIPT_ISSUED"]
               new == PaidEvents(c)
    <3>1. Len(new) = 2 /\ new[1] = e1 /\ new[2] = e2
      BY DEF PaidEvents
    <3>2. /\ row2.turns = row.turns /\ row2.stage = "RECEIPT_ISSUED" /\ row2.gate = row.gate
          /\ row2.stage \in PaidStage
      BY DEF ServerRow, PaidStage
    <3> HIDE DEF row2, new
    <3>3. /\ EventAgrees(e1, c, row2) /\ EventAgrees(e2, c, row2)
          /\ Asks(e1) /\ Tells(e1, row2) /\ Tells(e2, row2) /\ e2.event = "receipt.verified"
      BY <1>1, <3>2 DEF EventAgrees, Asks, Tells, RecoveryEvent
    <3> HIDE DEF e1, e2
    <3>4. \A n \in 1 .. 2 : n = 1 \/ n = 2
      OBVIOUS
    <3>5. /\ \A n \in 1 .. Len(new) : EventAgrees(new[n], c, row2) /\ Tells(new[n], row2)
          /\ \E n \in 1 .. Len(new) : Asks(new[n])
          /\ \E n \in 1 .. Len(new) : new[n].event = "receipt.verified"
      BY <3>1, <3>3, <3>4
    <3>6. Consistent(row, row2, new, c)
      BY <1>8, <3>2, <3>5 DEF Consistent
    <3> QED
      BY <3>6 DEF row2, new
  <2>2. Consistent(row, [row EXCEPT !.stage = "MANUAL_REVIEW_REQUIRED"],
                   <<Ev("payment.failed", c, None)>>, c)
    <3> DEFINE e == Ev("payment.failed", c, None)
               row2 == [row EXCEPT !.stage = "MANUAL_REVIEW_REQUIRED"]
    <3>1. /\ row2.turns = row.turns /\ row2.stage = "MANUAL_REVIEW_REQUIRED"
          /\ row2.gate = row.gate /\ row2.stage \in PaidStage
      BY DEF ServerRow, PaidStage
    <3> HIDE DEF row2
    <3>2. EventAgrees(e, c, row2) /\ Asks(e) /\ Tells(e, row2)
      BY <1>1, <3>1 DEF EventAgrees, Asks, Tells, RecoveryEvent
    <3> HIDE DEF e
    <3>3. Consistent(row, row2, <<e>>, c)
      BY <1>8, <3>1, <3>2 DEF Consistent
    <3> QED
      BY <3>3 DEF row2, e
  <2> QED
    BY <2>1, <2>2
<1>9. Consistent(row, [row EXCEPT !.status = "ENDED"], <<CallEv("call.ended", "ENDED")>>, c)
  <2> DEFINE e == CallEv("call.ended", "ENDED")
             row2 == [row EXCEPT !.status = "ENDED"]
  <2>1. /\ row2.turns = row.turns /\ row2.stage = row.stage /\ row2.gate = row.gate
        /\ row2.status = "ENDED"
    BY DEF ServerRow
  <2> HIDE DEF row2
  <2>2. EventAgrees(e, c, row2) /\ Asks(e) /\ Tells(e, row2)
    BY <1>2, <2>1 DEF EventAgrees, Asks, Tells, RecoveryEvent
  <2> HIDE DEF e
  <2>3. Consistent(row, row2, <<e>>, c)
    BY <2>1, <2>2 DEF Consistent
  <2> QED
    BY <2>3 DEF row2, e
<1> QED
  BY <1>4, <1>5, <1>6, <1>7, <1>8, <1>9

(* Every call the API has moves on, and it has no other ones. *)
CallsAdvance ==
  \A d \in Call : server[d] # None =>
    server'[d] # None /\ Advances(stream[d], server[d], stream'[d], server'[d], d)

(* A commit moves its call on. *)
LEMMA CommitAdvances ==
  ASSUME WebInv, StreamsAgree, NEW c \in Rows, NEW row \in ServerRow, NEW new,
         new \in Seq(EventsOf(Call)), Commit(c, row, new), Consistent(server[c], row, new, c)
  PROVE  CallsAdvance /\ Rows' = Rows
<1>1. /\ server' = [server EXCEPT ![c] = row]
      /\ stream' = [stream EXCEPT ![c] = @ \o new]
  BY DEF Commit
<1>2. /\ server \in [Call -> ServerRow \cup {None}] /\ stream \in [Call -> Seq(EventsOf(Bookings))]
      /\ c \in Call /\ row # None
  BY NoneAssumption DEF WebInv, ServerFits, Rows
<1>3. /\ \A d \in Call : server'[d] = IF d = c THEN row ELSE server[d]
      /\ \A d \in Call : stream'[d] = IF d = c THEN stream[d] \o new ELSE stream[d]
  BY <1>1, <1>2
<1>4. EventsOf(Bookings) \subseteq EventsOf(Call)
  BY TypesGrow DEF Bookings
<1>5. Advances(stream[c], server[c], stream[c] \o new, row, c)
  <2>1. stream[c] \in Seq(EventsOf(Call)) /\ StreamAgrees(stream[c], c, server[c])
    BY <1>2, <1>4 DEF StreamsAgree, Rows
  <2> QED
    BY <2>1, StreamGrows
<1>6. ASSUME NEW d \in Call, server[d] # None
      PROVE  Advances(stream[d], server[d], stream[d], server[d], d)
  <2>1. Len(stream[d]) \in Nat /\ StreamAgrees(stream[d], d, server[d])
    BY <1>2, <1>6, LenProperties DEF StreamsAgree
  <2> QED
    BY <2>1, NothingNew
<1>7. CallsAdvance
  BY <1>2, <1>3, <1>5, <1>6 DEF CallsAdvance
<1>8. Rows' = Rows
  BY <1>2, <1>3 DEF Rows
<1> QED
  BY <1>7, <1>8

(* The same holds when nothing is committed. *)
LEMMA CallsStay ==
  ASSUME WebInv, StreamsAgree, ApiStays
  PROVE  CallsAdvance /\ Rows' = Rows
<1>1. server' = server /\ stream' = stream /\ Rows' = Rows
  BY ServerStays DEF WebInv, ApiStays
<1>2. ASSUME NEW d \in Call, server[d] # None
      PROVE  Advances(stream[d], server[d], stream[d], server[d], d)
  <2>1. Len(stream[d]) \in Nat /\ StreamAgrees(stream[d], d, server[d])
    BY <1>2, LenProperties DEF StreamsAgree, WebInv, ServerFits
  <2> QED
    BY <2>1, NothingNew
<1> QED
  BY <1>1, <1>2 DEF CallsAdvance

(* A commit of the API moves its call on, with none other.                 *)
LEMMA CommittedAdvances ==
  ASSUME WebInv, StreamsAgree, NEW c \in Rows,
         \/ CustomerTurn(c) \/ AgentTurn(c) \/ Locked(c) \/ Ended(c)
         \/ server[c].stage # None /\ (Opened(c) \/ Confirmed(c) \/ Rejected(c))
  PROVE  CallsAdvance /\ Rows' = Rows
<1>1. /\ server[c] \in ServerRow /\ c \in Call /\ server[c].gate # "MANUAL_REVIEW_REQUIRED"
  BY DEF WebInv, ServerFits, Rows, StreamsAgree, StreamAgrees
<1>2. /\ {"AGREEMENT_READY", "AGREEMENT_LOCKED", "PAYMENT_PENDING", "RECEIPT_ISSUED",
          "MANUAL_REVIEW_REQUIRED"} \subseteq BookingStage
      /\ "customer" \in Turn /\ "agent" \in Turn
      /\ {"READY_FOR_CONFIRMATION", "UNLOCKED"} \subseteq PageGate
  BY DEF BookingStage, Turn, PageGate
<1>3. /\ DraftEvents(c) \in Seq(EventsOf(Call)) /\ LockEvents(c) \in Seq(EventsOf(Call))
      /\ IntentEvents(c) \in Seq(EventsOf(Call)) /\ PaidEvents(c) \in Seq(EventsOf(Call))
      /\ <<Ev("payment.failed", c, None)>> \in Seq(EventsOf(Call))
  BY <1>1, CommittedEvents
<1>4. CASE CustomerTurn(c)
  <2> DEFINE row == [status |-> "ACTIVE", turns |-> server[c].turns \cup {"customer"},
                     stage |-> "AGREEMENT_READY", gate |-> "READY_FOR_CONFIRMATION"]
  <2>1. Commit(c, row, DraftEvents(c)) /\ server[c].stage = None
    BY <1>4 DEF CustomerTurn
  <2>2. row \in ServerRow
    BY <1>1, <1>2 DEF ServerRow
  <2>3. Consistent(server[c], row, DraftEvents(c), c)
    BY <1>1, <2>1, CommitsAgree
  <2> HIDE DEF row
  <2> QED
    BY <1>3, <2>1, <2>2, <2>3, CommitAdvances
<1>5. CASE AgentTurn(c)
  <2> DEFINE row == [server[c] EXCEPT !.turns = @ \cup {"agent"}]
             d == IF server[c].stage = None THEN None ELSE c
             new == <<Ev("transcript.turn.created", d, "agent")>>
  <2>1. Commit(c, row, new)
    BY <1>5 DEF AgentTurn
  <2>2. row \in ServerRow /\ d \in {None, c}
    BY <1>1, <1>2 DEF ServerRow
  <2>3. Consistent(server[c], row, new, c)
    <3> HIDE DEF d
    <3> QED
      BY <1>1, <2>2, CommitsAgree
  <2>4. new \in Seq(EventsOf(Call))
    <3>1. Ev("transcript.turn.created", d, "agent") \in EventsOf(Call)
      BY <1>1, <1>2, <2>2 DEF EventsOf, OrNone, Ev, EventName
    <3> QED
      BY <3>1
  <2> HIDE DEF row, new
  <2> QED
    BY <2>1, <2>2, <2>3, <2>4, CommitAdvances
<1>6. CASE Locked(c)
  <2> DEFINE row == [server[c] EXCEPT !.stage = "AGREEMENT_LOCKED", !.gate = "UNLOCKED"]
  <2>1. Commit(c, row, LockEvents(c)) /\ server[c].stage = "AGREEMENT_READY"
    BY <1>6 DEF Locked
  <2>2. row \in ServerRow
    BY <1>1, <1>2 DEF ServerRow
  <2>3. Consistent(server[c], row, LockEvents(c), c)
    BY <1>1, <2>1, CommitsAgree
  <2> HIDE DEF row
  <2> QED
    BY <1>3, <2>1, <2>2, <2>3, CommitAdvances
<1>7. CASE Ended(c)
  <2> DEFINE row == [server[c] EXCEPT !.status = "ENDED"]
             new == <<CallEv("call.ended", "ENDED")>>
  <2>1. Commit(c, row, new)
    BY <1>7 DEF Ended
  <2>2. row \in ServerRow
    BY <1>1 DEF ServerRow
  <2>3. Consistent(server[c], row, new, c)
    BY <1>1, CommitsAgree
  <2>4. new \in Seq(EventsOf(Call))
    <3>1. CallEv("call.ended", "ENDED") \in EventsOf(Call)
      BY DEF EventsOf, OrNone, CallEv, EventName
    <3> QED
      BY <3>1
  <2> HIDE DEF row, new
  <2> QED
    BY <2>1, <2>2, <2>3, <2>4, CommitAdvances
<1>8. CASE Opened(c)
  <2> DEFINE row == [server[c] EXCEPT !.stage = "PAYMENT_PENDING"]
  <2>1. Commit(c, row, IntentEvents(c)) /\ server[c].stage = "AGREEMENT_LOCKED"
    BY <1>8 DEF Opened
  <2>2. row \in ServerRow
    BY <1>1, <1>2 DEF ServerRow
  <2>3. Consistent(server[c], row, IntentEvents(c), c)
    BY <1>1, <2>1, CommitsAgree
  <2> HIDE DEF row
  <2> QED
    BY <1>3, <2>1, <2>2, <2>3, CommitAdvances
<1>9. CASE Confirmed(c)
  <2> DEFINE row == [server[c] EXCEPT !.stage = "RECEIPT_ISSUED"]
  <2>1. Commit(c, row, PaidEvents(c)) /\ server[c].stage = "PAYMENT_PENDING"
    BY <1>9 DEF Confirmed
  <2>2. row \in ServerRow
    BY <1>1, <1>2 DEF ServerRow
  <2>3. Consistent(server[c], row, PaidEvents(c), c)
    BY <1>1, <2>1, CommitsAgree
  <2> HIDE DEF row
  <2> QED
    BY <1>3, <2>1, <2>2, <2>3, CommitAdvances
<1>10. CASE Rejected(c)
  <2> DEFINE row == [server[c] EXCEPT !.stage = "MANUAL_REVIEW_REQUIRED"]
             new == <<Ev("payment.failed", c, None)>>
  <2>1. Commit(c, row, new) /\ server[c].stage = "PAYMENT_PENDING"
    BY <1>10 DEF Rejected
  <2>2. row \in ServerRow
    BY <1>1, <1>2 DEF ServerRow
  <2>3. Consistent(server[c], row, new, c)
    BY <1>1, <2>1, CommitsAgree
  <2> HIDE DEF row, new
  <2>4. new \in Seq(EventsOf(Call))
    BY <1>3 DEF new
  <2> QED
    BY <2>1, <2>2, <2>3, <2>4, CommitAdvances
<1> QED
  BY <1>4, <1>5, <1>6, <1>7, <1>8, <1>9, <1>10

(* So does a request of the page that the API executes.                    *)
LEMMA ExecutedAdvances ==
  ASSUME WebInv, StreamsAgree, NEW k \in Command, NEW b \in Bookings, NEW state \in Outcome,
         Executes(k, b, state)
  PROVE  CallsAdvance /\ Rows' = Rows
<1>1. b \in Rows /\ server[b].stage # None
  BY DEF Rows, Bookings
<1>2. Locked(b) \/ Opened(b) \/ Confirmed(b) \/ Rejected(b) \/ ApiStays
  BY DEF Executes, ApiStays, serverVars
<1>3. CASE Locked(b) \/ Opened(b) \/ Confirmed(b) \/ Rejected(b)
  BY <1>1, <1>3, CommittedAdvances
<1>4. CASE ApiStays
  BY <1>4, CallsStay
<1> QED
  BY <1>2, <1>3, <1>4

(* The steps of the API. *)
ApiSide ==
  \/ \E c \in Call : ApiStep(c)
  \/ \E k \in Command : ApiExecutes(k)
  \/ ApiExecutesLate

(* Each of them moves the calls on, and creates none. *)
LEMMA ApiAdvances ==
  ASSUME WebInv, StreamsAgree, ApiSide
  PROVE  CallsAdvance /\ Rows' = Rows
<1>1. ASSUME NEW c \in Call, ApiStep(c)
      PROVE  CallsAdvance /\ Rows' = Rows
  <2>1. c \in Rows
    BY <1>1 DEF ApiStep, Rows, CustomerTurn, AgentTurn, Locked, Ended
  <2> QED
    BY <1>1, <2>1, CommittedAdvances DEF ApiStep
<1>2. ASSUME NEW k \in Command, ApiExecutes(k)
      PROVE  CallsAdvance /\ Rows' = Rows
  <2>1. PICK state \in Outcome : Executes(k, req[k].booking, state)
    BY <1>2 DEF ApiExecutes
  <2>2. req \in Requests(Bookings) /\ req[k].state = "sent" /\ "sent" # "idle"
    BY <1>2 DEF ApiExecutes, WebInv, SendsFit
  <2>3. req[k].booking \in Bookings
    BY <2>2 DEF Requests
  <2> QED
    BY <2>1, <2>3, ExecutedAdvances
<1>3. ASSUME ApiExecutesLate
      PROVE  CallsAdvance /\ Rows' = Rows
  <2>1. PICK r \in late :
          IF r.command = "end"
          THEN \/ Ended(r.booking)
               \/ server[r.booking].status = "ENDED" /\ ApiStays
          ELSE \E state \in Outcome : Executes(r.command, r.booking, state)
    BY <1>3 DEF ApiExecutesLate, ApiStays, serverVars
  <2>2. r \in LateOf(Rows, Bookings)
    BY DEF WebInv, SendsFit
  <2>3. CASE r.command = "end"
    <3>1. r.booking \in Rows
      BY <2>2 DEF LateOf, Rows, Bookings
    <3>2. Ended(r.booking) \/ ApiStays
      BY <2>1, <2>3
    <3> QED
      BY <3>1, <3>2, CommittedAdvances, CallsStay
  <2>4. CASE r.command # "end"
    <3>1. r.command \in Command /\ r.booking \in Bookings
      BY <2>2, <2>4 DEF LateOf
    <3>2. PICK state \in Outcome : Executes(r.command, r.booking, state)
      BY <2>1, <2>4
    <3> QED
      BY <3>1, <3>2, ExecutedAdvances
  <2> QED
    BY <2>3, <2>4
<1> QED
  BY <1>1, <1>2, <1>3 DEF ApiSide

(* The row and the stream of a call that has just been created.            *)
LEMMA CreatedAgrees ==
  ASSUME NEW c, NEW row, row.status = "CREATED", row.stage = None,
         row.gate # "MANUAL_REVIEW_REQUIRED"
  PROVE  StreamAgrees(CreatedEvents, c, row)
<1> DEFINE e == CallEv("call.created", "CREATED")
<1>1. CreatedEvents = <<e>>
  BY DEF CreatedEvents
<1>2. e.event = "call.created" /\ e.data = "CREATED" /\ e.bookingId = None
  BY DEF CallEv
<1> HIDE DEF e
<1>3. EventAgrees(e, c, row) /\ Tells(e, row)
  BY <1>2 DEF EventAgrees, Tells
<1>4. row.stage # "RECEIPT_ISSUED"
  BY NoneAssumption DEF BookingStage
<1>5. StreamAgrees(<<e>>, c, row)
  BY <1>3, <1>4 DEF StreamAgrees
<1> QED
  BY <1>1, <1>5

(* Connecting a live call leaves the others as they are. *)
LEMMA ConnectAdvances ==
  ASSUME WebInv, StreamsAgree, NEW c \in Call, ConnectLiveCall(c)
  PROVE  /\ CallsAdvance /\ StreamsAgree'
         /\ server[c] = None /\ stream'[c] = CreatedEvents
         /\ server'[c] = [status |-> "CREATED", turns |-> {}, stage |-> None, gate |-> "LOCKED"]
<1> DEFINE row == [status |-> "CREATED", turns |-> {}, stage |-> None, gate |-> "LOCKED"]
<1>1. /\ server[c] = None /\ server' = [server EXCEPT ![c] = row]
      /\ stream' = [stream EXCEPT ![c] = CreatedEvents]
  BY DEF ConnectLiveCall
<1>2. row.status = "CREATED" /\ row.stage = None /\ row.gate # "MANUAL_REVIEW_REQUIRED"
  OBVIOUS
<1>3. StreamAgrees(CreatedEvents, c, row)
  BY <1>2, CreatedAgrees
<1> HIDE DEF row
<1>4. \A d \in Call : /\ server'[d] = IF d = c THEN row ELSE server[d]
                      /\ stream'[d] = IF d = c THEN CreatedEvents ELSE stream[d]
  BY <1>1 DEF WebInv, ServerFits
<1>5. ASSUME NEW d \in Call, server[d] # None
      PROVE  server'[d] # None /\ Advances(stream[d], server[d], stream'[d], server'[d], d)
  <2>1. server'[d] = server[d] /\ stream'[d] = stream[d]
    BY <1>1, <1>4, <1>5
  <2>2. Len(stream[d]) \in Nat /\ StreamAgrees(stream[d], d, server[d])
    BY <1>5, LenProperties DEF StreamsAgree, WebInv, ServerFits
  <2> QED
    BY <1>5, <2>1, <2>2, NothingNew
<1>6. CallsAdvance
  BY <1>5 DEF CallsAdvance
<1>7. StreamsAgree'
  <2>1. \A d \in Call : server'[d] # None => StreamAgrees(stream'[d], d, server'[d])
    BY <1>3, <1>4 DEF StreamsAgree
  <2> QED
    BY <2>1 DEF StreamsAgree
<1> QED
  BY <1>1, <1>4, <1>6, <1>7 DEF row

(* Calls that move on agree with their streams, as long as there are no    *)
(* other ones.                                                             *)
LEMMA AdvancedAgree ==
  ASSUME CallsAdvance, Rows' = Rows
  PROVE  StreamsAgree'
<1>1. \A d \in Call : server'[d] # None => StreamAgrees(stream'[d], d, server'[d])
  <2> SUFFICES ASSUME NEW d \in Call, server'[d] # None
               PROVE  StreamAgrees(stream'[d], d, server'[d])
    OBVIOUS
  <2>1. server[d] # None
    BY DEF Rows
  <2> QED
    BY <2>1 DEF CallsAdvance, Advances
<1> QED
  BY <1>1 DEF StreamsAgree

(* What a commit adds to a stream that agrees leaves one that does. *)
LEMMA InitAdds ==
  ASSUME NEW X, NEW S \in Seq(X), NEW new \in Seq(X), NEW d, NEW row, NEW row2,
         StreamAgrees(S, d, row), Consistent(row, row2, new, d)
  PROVE  StreamAgrees(S \o new, d, row2) /\ S \o new \in Seq(X)
<1>1. Advances(S, row, S \o new, row2, d)
  BY StreamGrows
<1> QED
  BY <1>1, ConcatProperties DEF Advances

(* At the start every event tells what the row says. *)
LEMMA StartedAgrees ==
  ASSUME NEW c \in Call, NEW stage \in Started
  PROVE  StreamAgrees(EventsAt(stage, c), c, RowAt(stage))
<1> DEFINE X == EventsOf(Call)
           S0 == CreatedEvents
           greeted == S0 \o GreetingEvents
           S1 == S0 \o DraftEvents(c)
           S2 == S1 \o LockEvents(c)
           S3 == S2 \o IntentEvents(c)
<1>1. /\ DraftEvents(c) \in Seq(X) /\ LockEvents(c) \in Seq(X) /\ IntentEvents(c) \in Seq(X)
      /\ S0 \in Seq(X) /\ GreetingEvents \in Seq(X)
      /\ GreetingEvents = <<Ev("transcript.turn.created", None, "agent")>>
  <2>1. Ev("transcript.turn.created", None, "agent") \in X
    BY DEF EventsOf, OrNone, Ev, EventName, Turn
  <2>2. GreetingEvents = <<Ev("transcript.turn.created", None, "agent")>>
    BY DEF GreetingEvents, CallEv, Ev
  <2> QED
    BY <2>1, <2>2, CommittedEvents
<1>2. /\ None \notin {"AGREEMENT_READY", "AGREEMENT_LOCKED", "PAYMENT_PENDING"}
      /\ stage \in {None, "AGREEMENT_READY", "AGREEMENT_LOCKED", "PAYMENT_PENDING"}
  BY NoneAssumption, StartedAssumption DEF BookingStage
<1> DEFINE r0 == [status |-> "CREATED", turns |-> {}, stage |-> None, gate |-> "LOCKED"]
           rg == RowAt(None)
           r1 == RowAt("AGREEMENT_READY")
           r2 == RowAt("AGREEMENT_LOCKED")
           r3 == RowAt("PAYMENT_PENDING")
<1>3. /\ rg = [r0 EXCEPT !.turns = @ \cup {"agent"}]
      /\ r1 = [status |-> "ACTIVE", turns |-> r0.turns \cup {"customer"},
               stage |-> "AGREEMENT_READY", gate |-> "READY_FOR_CONFIRMATION"]
      /\ r2 = [r1 EXCEPT !.stage = "AGREEMENT_LOCKED", !.gate = "UNLOCKED"]
      /\ r3 = [r2 EXCEPT !.stage = "PAYMENT_PENDING"]
  <2>1. r0.turns = {} /\ rg = [r0 EXCEPT !.turns = @ \cup {"agent"}]
    BY DEF RowAt
  <2>2. r1 = [status |-> "ACTIVE", turns |-> {"customer"},
              stage |-> "AGREEMENT_READY", gate |-> "READY_FOR_CONFIRMATION"]
    BY <1>2 DEF RowAt
  <2>3. r2 = [status |-> "ACTIVE", turns |-> {"customer"},
              stage |-> "AGREEMENT_LOCKED", gate |-> "UNLOCKED"]
    BY <1>2 DEF RowAt
  <2>4. r3 = [status |-> "ACTIVE", turns |-> {"customer"},
              stage |-> "PAYMENT_PENDING", gate |-> "UNLOCKED"]
    BY <1>2 DEF RowAt
  <2> HIDE DEF r0, rg, r1, r2, r3
  <2>5. r0.turns \cup {"customer"} = {"customer"}
    BY <2>1
  <2>6. r1 = [status |-> "ACTIVE", turns |-> r0.turns \cup {"customer"},
              stage |-> "AGREEMENT_READY", gate |-> "READY_FOR_CONFIRMATION"]
    BY <2>2, <2>5
  <2>7. r2 = [r1 EXCEPT !.stage = "AGREEMENT_LOCKED", !.gate = "UNLOCKED"]
    <3> DEFINE locked == [r1 EXCEPT !.stage = "AGREEMENT_LOCKED", !.gate = "UNLOCKED"]
    <3>1. r1 \in [status : {"ACTIVE"}, turns : {{"customer"}}, stage : {"AGREEMENT_READY"},
                  gate : {"READY_FOR_CONFIRMATION"}]
      BY <2>2
    <3>2. locked \in [status : {"ACTIVE"}, turns : {{"customer"}}, stage : {"AGREEMENT_LOCKED"},
                      gate : {"UNLOCKED"}]
      BY <3>1
    <3> HIDE DEF locked
    <3>3. locked = [status |-> "ACTIVE", turns |-> {"customer"},
                    stage |-> "AGREEMENT_LOCKED", gate |-> "UNLOCKED"]
      BY <3>2
    <3> QED
      BY <2>3, <3>3 DEF locked
  <2>8. r3 = [r2 EXCEPT !.stage = "PAYMENT_PENDING"]
    BY <2>3, <2>4
  <2> QED
    BY <2>1, <2>6, <2>7, <2>8
<1>4. /\ r0 \in ServerRow /\ r1 \in ServerRow /\ r2 \in ServerRow
      /\ r0.stage = None /\ r1.stage = "AGREEMENT_READY" /\ r2.stage = "AGREEMENT_LOCKED"
      /\ r0.status = "CREATED" /\ r0.gate = "LOCKED"
      /\ r1.gate = "READY_FOR_CONFIRMATION" /\ r2.gate = "UNLOCKED"
  BY <1>2 DEF RowAt, ServerRow, Turn, PageGate, BookingStage
<1>5. /\ "LOCKED" # "MANUAL_REVIEW_REQUIRED"
      /\ "READY_FOR_CONFIRMATION" # "MANUAL_REVIEW_REQUIRED"
      /\ "UNLOCKED" # "MANUAL_REVIEW_REQUIRED"
  OBVIOUS
<1> HIDE DEF r0, rg, r1, r2, r3
<1>6. /\ Consistent(r0, r1, DraftEvents(c), c) /\ Consistent(r1, r2, LockEvents(c), c)
      /\ Consistent(r2, r3, IntentEvents(c), c) /\ Consistent(r0, rg, GreetingEvents, c)
  BY <1>1, <1>3, <1>4, <1>5, CommitsAgree
<1>7. StreamAgrees(S0, c, r0)
  BY <1>4, <1>5, CreatedAgrees
<1> HIDE DEF X, S0
<1>8. /\ StreamAgrees(S1, c, r1) /\ S1 \in Seq(X)
      /\ StreamAgrees(greeted, c, rg) /\ greeted \in Seq(X)
  BY <1>1, <1>6, <1>7, InitAdds
<1> HIDE DEF S1, greeted
<1>9. StreamAgrees(S2, c, r2) /\ S2 \in Seq(X)
  BY <1>1, <1>6, <1>8, InitAdds
<1> HIDE DEF S2
<1>10. StreamAgrees(S3, c, r3) /\ S3 \in Seq(X)
  BY <1>1, <1>6, <1>9, InitAdds
<1> HIDE DEF S3
<1>11. /\ greeted \o <<>> = greeted /\ S1 \o <<>> = S1 /\ S2 \o <<>> = S2
  BY <1>1, <1>8, <1>9, ConcatEmptySeq
<1>12. EventsAt(stage, c) = IF stage = None THEN greeted
                            ELSE IF stage = "AGREEMENT_READY" THEN S1
                            ELSE IF stage = "AGREEMENT_LOCKED" THEN S2 ELSE S3
  <2>1. CASE stage = None
    BY <1>2, <1>11, <2>1 DEF EventsAt, S0, greeted
  <2>2. CASE stage = "AGREEMENT_READY"
    BY <1>2, <1>11, <2>2 DEF EventsAt, S0, S1
  <2>3. CASE stage = "AGREEMENT_LOCKED"
    BY <1>2, <1>11, <2>3 DEF EventsAt, S0, S1, S2
  <2>4. CASE stage = "PAYMENT_PENDING"
    BY <1>2, <2>4 DEF EventsAt, S0, S1, S2, S3
  <2> QED
    BY <1>2, <2>1, <2>2, <2>3, <2>4
<1>13. RowAt(stage) = IF stage = None THEN rg
                      ELSE IF stage = "AGREEMENT_READY" THEN r1
                      ELSE IF stage = "AGREEMENT_LOCKED" THEN r2 ELSE r3
  BY <1>2 DEF rg, r1, r2, r3
<1> QED
  BY <1>8, <1>9, <1>10, <1>12, <1>13

(* The steps of the page, while the API commits nothing. *)
PageSide ==
  \/ ApiAnswers \/ AnswerArrives \/ RecoveryEnds \/ RecoveryFails
  \/ Receive \/ Flush \/ Skip \/ Drop \/ Reconnect
  \/ Reset \/ Reload
  \/ ConfirmAgreementFromWeb \/ SimulateWalletPayment
  \/ \E k \in Command : ReplyArrives(k) \/ RequestLost(k)
  \/ StartPostCallTranscriptSync \/ TimerFires
  \/ UNCHANGED vars

(* Every step is the API's, the page's or connects another call. *)
LEMMA Sides == [WebNext]_vars => ApiSide \/ PageSide \/ \E c \in Call : ConnectLiveCall(c)
  BY DEF WebNext, ApiSide, PageSide, TimerFires

(* Streams and rows agree at the start. *)
LEMMA StreamsStart == WebInit => StreamsAgree
<1> SUFFICES ASSUME WebInit PROVE StreamsAgree
  OBVIOUS
<1>1. CASE \E c \in Call, stage \in Started :
             /\ server = [d \in Call |-> IF d = c THEN RowAt(stage) ELSE None]
             /\ stream = [d \in Call |-> IF d = c THEN EventsAt(stage, c) ELSE <<>>]
  BY <1>1, StartedAgrees DEF StreamsAgree
<1>2. CASE server = [c \in Call |-> None]
  BY <1>2 DEF StreamsAgree
<1> QED
  BY <1>1, <1>2 DEF WebInit
-----------------------------------------------------------------------------
(***************************************************************************)
(* What a page becomes by the events of its call, one after another.       *)
(***************************************************************************)
(* What every event keeps, whatever it tells. *)
EventKeeps(q, e, n, q2) ==
  /\ q2.callId = q.callId
  /\ q2.lastSequence = IF n > q.lastSequence THEN n ELSE q.lastSequence
  /\ q2.needsRecovery = (q.needsRecovery \/ (q.lastSequence # 0 /\ n > q.lastSequence + 1))
  /\ q2.bookingId \in {q.bookingId, e.bookingId}
  /\ q2.paymentIntentId = IF e.event = "payment.intent.created" THEN e.bookingId
                          ELSE q.paymentIntentId
  /\ q2.receiptId = IF e.event = "receipt.verified" THEN e.bookingId ELSE q.receiptId
  /\ q2.paymentStatus = q.paymentStatus
  /\ \/ q2.paymentGate = q.paymentGate
     \/ e.event = "agreement.locked" /\ q2.paymentGate = "UNLOCKED"
     \/ e.event = "risk.payment_gate.updated" /\ q2.paymentGate = e.data
     \/ e.event = "payment.failed" /\ q2.paymentGate = "MANUAL_REVIEW_REQUIRED"

(* What an event that asks for no recovery keeps. *)
EventTells(q, e, q2) ==
  /\ \/ q2.callStatus = q.callStatus
     \/ e.event = "call.created" /\ q2.callStatus = e.data
  /\ \/ q2.paymentGate = q.paymentGate
     \/ e.event = "risk.payment_gate.updated" /\ q2.paymentGate = e.data
  /\ q.transcript \subseteq q2.transcript
  /\ q2.booking = q.booking /\ q2.paymentIntent = q.paymentIntent /\ q2.receipt = q.receipt

(* Every event keeps that much. *)
LEMMA EventsKeep ==
  ASSUME NEW R \in SUBSET Call, NEW B, NEW p \in PagesOf(R, B), NEW c \in R,
         NEW e \in EventsOf(B), NEW n \in Nat
  PROVE  /\ EventKeeps(p, e, n, ApplyServerEvent(p, c, e, n))
         /\ ~Asks(e) => EventTells(p, e, ApplyServerEvent(p, c, e, n))
<1> DEFINE q == Remembered(p, e, n)
           q2 == ApplyServerEvent(p, c, e, n)
           id == IF e.bookingId # None THEN e.bookingId ELSE p.bookingId
           last == IF n > p.lastSequence THEN n ELSE p.lastSequence
           gap == p.needsRecovery \/ (p.lastSequence # 0 /\ n > p.lastSequence + 1)
<1> SUFFICES EventKeeps(p, e, n, q2) /\ (~Asks(e) => EventTells(p, e, q2))
  OBVIOUS
<1>1. /\ id \in {p.bookingId, e.bookingId} /\ id \in OrNone(B) /\ last \in Nat /\ gap \in BOOLEAN
  BY DEF PagesOf, EventsOf
<1>2. q = [p EXCEPT !.bookingId = id, !.lastSequence = last, !.needsRecovery = gap]
  BY DEF Remembered
<1>3. /\ last = IF n > p.lastSequence THEN n ELSE p.lastSequence
      /\ gap = (p.needsRecovery \/ (p.lastSequence # 0 /\ n > p.lastSequence + 1))
  OBVIOUS
<1>4. q2 = Applied(q, c, e)
  BY DEF ApplyServerEvent
<1> HIDE DEF id, last, gap, q, q2
<1>5. q \in PagesOf(R, B)
  BY <1>1, <1>2 DEF PagesOf
<1>6. /\ q.callId = p.callId /\ q.lastSequence = last /\ q.needsRecovery = gap
      /\ q.bookingId = id /\ q.paymentIntentId = p.paymentIntentId
      /\ q.receiptId = p.receiptId /\ q.paymentStatus = p.paymentStatus
      /\ q.paymentGate = p.paymentGate /\ q.callStatus = p.callStatus
      /\ q.transcript = p.transcript /\ q.booking = p.booking
      /\ q.paymentIntent = p.paymentIntent /\ q.receipt = p.receipt
  BY <1>2 DEF PagesOf
<1> DEFINE Good(r) ==
             /\ r.callId = q.callId /\ r.lastSequence = q.lastSequence
             /\ r.needsRecovery = q.needsRecovery /\ r.bookingId = q.bookingId
             /\ r.paymentIntentId = IF e.event = "payment.intent.created" THEN e.bookingId
                                    ELSE q.paymentIntentId
             /\ r.receiptId = IF e.event = "receipt.verified" THEN e.bookingId ELSE q.receiptId
             /\ r.paymentStatus = q.paymentStatus
             /\ \/ r.paymentGate = q.paymentGate
                \/ e.event = "agreement.locked" /\ r.paymentGate = "UNLOCKED"
                \/ e.event = "risk.payment_gate.updated" /\ r.paymentGate = e.data
                \/ e.event = "payment.failed" /\ r.paymentGate = "MANUAL_REVIEW_REQUIRED"
<1>7. CASE e.event \in {"call.created", "call.ended"}
  <2>1. q2 = [q EXCEPT !.callStatus = e.data]
    BY <1>4, <1>7 DEF Applied
  <2>2. Good(q2) /\ (~Asks(e) => EventTells(q, e, q2))
    BY <1>5, <1>7, <2>1 DEF PagesOf, EventTells, Asks, RecoveryEvent
  <2> QED
    BY <1>1, <1>3, <1>6, <2>2 DEF EventKeeps, EventTells
<1>8. CASE e.event = "transcript.turn.created"
  <2> DEFINE r == [q EXCEPT !.transcript = @ \cup {<<c, e.data>>}]
  <2>1. q2 = Completed(r)
    BY <1>4, <1>8 DEF Applied
  <2>2. /\ r.transcript = q.transcript \cup {<<c, e.data>>} /\ r \in PagesOf(R, B)
        /\ r.callId = q.callId /\ r.lastSequence = q.lastSequence
        /\ r.needsRecovery = q.needsRecovery /\ r.bookingId = q.bookingId
        /\ r.paymentIntentId = q.paymentIntentId /\ r.receiptId = q.receiptId
        /\ r.paymentStatus = q.paymentStatus /\ r.paymentGate = q.paymentGate
        /\ r.callStatus = q.callStatus /\ r.booking = q.booking
        /\ r.paymentIntent = q.paymentIntent /\ r.receipt = q.receipt
    <3>1. e.data \in Turn
      BY <1>8 DEF EventsOf
    <3> QED
      BY <1>5, <3>1 DEF PagesOf
  <2> HIDE DEF r
  <2>3. /\ q2.transcript = r.transcript
        /\ q2.callId = r.callId /\ q2.lastSequence = r.lastSequence
        /\ q2.needsRecovery = r.needsRecovery /\ q2.bookingId = r.bookingId
        /\ q2.paymentIntentId = r.paymentIntentId /\ q2.receiptId = r.receiptId
        /\ q2.paymentStatus = r.paymentStatus /\ q2.paymentGate = r.paymentGate
        /\ q2.callStatus = r.callStatus /\ q2.booking = r.booking
        /\ q2.paymentIntent = r.paymentIntent /\ q2.receipt = r.receipt
    BY <2>1, <2>2 DEF Completed, PagesOf
  <2>4. Good(q2) /\ EventTells(q, e, q2)
    BY <1>8, <2>2, <2>3 DEF EventTells
  <2> QED
    BY <1>1, <1>3, <1>6, <2>4 DEF EventKeeps, EventTells
<1>9. CASE e.event = "risk.payment_gate.updated"
  <2>1. q2 = [q EXCEPT !.paymentGate = e.data]
    BY <1>4, <1>9 DEF Applied
  <2>2. Good(q2) /\ EventTells(q, e, q2)
    BY <1>5, <1>9, <2>1 DEF PagesOf, EventTells
  <2> QED
    BY <1>1, <1>3, <1>6, <2>2 DEF EventKeeps, EventTells
<1>10. ASSUME Asks(e), Good(q2)
       PROVE  EventKeeps(p, e, n, q2) /\ (~Asks(e) => EventTells(p, e, q2))
  BY <1>1, <1>3, <1>6, <1>10 DEF EventKeeps
<1>11. CASE e.event \in {"booking.updated", "agreement.locked"}
  <2> DEFINE status == IF e.event = "booking.updated" THEN e.data ELSE "AGREEMENT_LOCKED"
             booking == [of |-> IF q.booking = None THEN None ELSE q.booking.of,
                         status |-> status]
             gate == IF e.event = "agreement.locked" THEN "UNLOCKED" ELSE q.paymentGate
  <2>1. q2 = IF e.event = "booking.updated" THEN [q EXCEPT !.booking = booking]
             ELSE [[q EXCEPT !.booking = booking] EXCEPT !.paymentGate = gate]
    BY <1>4, <1>11 DEF Applied, WithStatus, BookingConfirmed
  <2>2. gate = IF e.event = "agreement.locked" THEN "UNLOCKED" ELSE q.paymentGate
    OBVIOUS
  <2> HIDE DEF booking, gate
  <2>3. Good(q2)
    BY <1>5, <1>11, <2>1, <2>2 DEF PagesOf
  <2> QED
    BY <1>10, <1>11, <2>3 DEF Asks, RecoveryEvent
<1>12. CASE e.event \in {"payment.intent.created", "payment.confirmed", "receipt.verified"}
  <2>1. q2 = IF e.event = "payment.intent.created" THEN [q EXCEPT !.paymentIntentId = e.bookingId]
             ELSE IF e.event = "payment.confirmed" THEN [q EXCEPT !.showPaymentDrawer = FALSE]
             ELSE [q EXCEPT !.receiptId = e.bookingId]
    BY <1>4, <1>12 DEF Applied
  <2>2. Good(q2)
    BY <1>5, <1>12, <2>1 DEF PagesOf
  <2> QED
    BY <1>10, <1>12, <2>2 DEF Asks, RecoveryEvent
<1>13. CASE e.event = "payment.failed"
  <2> DEFINE booking == IF q.booking = None THEN None
                        ELSE [q.booking EXCEPT !.status = "MANUAL_REVIEW_REQUIRED"]
  <2>1. q2 = [q EXCEPT !.paymentActionPending = FALSE, !.showPaymentDrawer = FALSE,
                       !.paymentGate = "MANUAL_REVIEW_REQUIRED", !.booking = booking]
    BY <1>4, <1>13 DEF Applied, ToManualReview
  <2> HIDE DEF booking
  <2>2. Good(q2)
    BY <1>5, <1>13, <2>1 DEF PagesOf
  <2> QED
    BY <1>10, <1>13, <2>2 DEF Asks, RecoveryEvent
<1>14. CASE e.event = "transcript.analysis.updated"
  <2>1. q2 = q
    BY <1>4, <1>14 DEF Applied
  <2>2. Good(q2)
    BY <1>14, <2>1
  <2> QED
    BY <1>10, <1>14, <2>2 DEF Asks, RecoveryEvent
<1>15. e.event \in EventName
  BY DEF EventsOf
<1> QED
  BY <1>7, <1>8, <1>9, <1>11, <1>12, <1>13, <1>14, <1>15 DEF EventName

(* Numbers that rise from one on. *)
Rises(seen, last) ==
  /\ \A n \in 1 .. Len(seen) : seen[n] > last
  /\ \A n, m \in 1 .. Len(seen) : n < m => seen[n] < seen[m]

(* What the page knows by its own events: ids of its own call, an intent   *)
(* with every status of one, a manual review only where there is one.      *)
OwnFacts(p, c, row) ==
  /\ p.paymentStatus # None => p.paymentIntentId # None
  /\ p.bookingId \in {None, c} /\ p.paymentIntentId \in {None, c} /\ p.receiptId \in {None, c}
  /\ p.paymentGate = "MANUAL_REVIEW_REQUIRED" => row.stage = "MANUAL_REVIEW_REQUIRED"

(* An intent or a receipt named is there: I are the calls with an intent,  *)
(* T those with a receipt.                                                 *)
PageNames(p, I, T) == p.paymentIntentId \in OrNone(I) /\ p.receiptId \in OrNone(T)

(* What the events of a call keep of its page, up to each of them. *)
BatchKept(f, p, c, seen, row, I, T) ==
  \A n \in 0 .. Len(seen) :
    /\ f[n].callId = p.callId
    /\ f[n].lastSequence = IF n = 0 THEN p.lastSequence ELSE seen[n]
    /\ PageNames(p, I, T) => PageNames(f[n], I, T)
    /\ OwnFacts(p, c, row) => OwnFacts(f[n], c, row)
    /\ p.receiptId # None => f[n].receiptId # None
    /\ p.needsRecovery => f[n].needsRecovery
    /\ \A k \in 1 .. n :
         LET before == IF k = 1 THEN p.lastSequence ELSE seen[k - 1]
         IN  before # 0 /\ seen[k] > before + 1 => f[n].needsRecovery

(* They do. *)
LEMMA BatchKeeps ==
  ASSUME NEW R \in SUBSET Call, NEW B, NEW p \in PagesOf(R, B), NEW c \in R,
         NEW S \in Seq(EventsOf(B)), NEW seen \in Seq(1 .. Len(S)),
         Rises(seen, p.lastSequence), NEW row, StreamAgrees(S, c, row),
         NEW I, NEW T, row.stage \in PaidStage => c \in I, row.stage = "RECEIPT_ISSUED" => c \in T,
         NEW f, Follows(f, p, c, S, seen), \A n \in 0 .. Len(seen) : f[n] \in PagesOf(R, B)
  PROVE  BatchKept(f, p, c, seen, row, I, T)
<1> DEFINE N == Len(seen)
           before(k) == IF k = 1 THEN p.lastSequence ELSE seen[k - 1]
           Good(n) ==
             /\ f[n].callId = p.callId
             /\ f[n].lastSequence = IF n = 0 THEN p.lastSequence ELSE seen[n]
             /\ PageNames(p, I, T) => PageNames(f[n], I, T)
             /\ OwnFacts(p, c, row) => OwnFacts(f[n], c, row)
             /\ p.receiptId # None => f[n].receiptId # None
             /\ p.needsRecovery => f[n].needsRecovery
             /\ \A k \in 1 .. n : before(k) # 0 /\ seen[k] > before(k) + 1 => f[n].needsRecovery
           Kept == {n \in 0 .. N : Good(n)}
<1>1. N \in Nat /\ c # None
  BY NoneAssumption
<1>2. Good(0) /\ 0 \in 0 .. N
  BY <1>1 DEF Follows
<1>3. ASSUME NEW n \in 1 .. N, Good(n - 1)
      PROVE  Good(n)
  <2> DEFINE q == f[n - 1]
             q2 == f[n]
             m == seen[n]
             e == S[m]
  <2>1. /\ m \in 1 .. Len(S) /\ e \in EventsOf(B) /\ m \in Nat
        /\ q \in PagesOf(R, B) /\ q2 = ApplyServerEvent(q, c, e, m) /\ n - 1 \in 0 .. N
    BY <1>1, <1>3 DEF Follows
  <2>2. EventAgrees(e, c, row)
    BY <2>1 DEF StreamAgrees
  <2>3. n # 1 => n - 1 \in 1 .. N /\ n - 1 < n /\ n - 1 # 0
    BY <1>1
  <2>4. m > q.lastSequence /\ q.lastSequence \in Nat /\ q.lastSequence = before(n)
    <3>1. q.lastSequence = IF n - 1 = 0 THEN p.lastSequence ELSE seen[n - 1]
      BY <1>3
    <3>2. m > p.lastSequence /\ (n # 1 => seen[n - 1] < m)
      BY <2>3 DEF Rises, N
    <3>3. q.lastSequence \in Nat /\ p.lastSequence \in Nat
      BY <2>1 DEF PagesOf
    <3>4. n # 1 => seen[n - 1] \in 1 .. Len(S)
      BY <2>3
    <3> HIDE DEF m, q
    <3> QED
      BY <1>1, <2>1, <2>3, <3>1, <3>2, <3>3, <3>4
  <2>5. EventKeeps(q, e, m, q2)
    <3> HIDE DEF q, q2, e, m
    <3> QED
      BY <2>1, EventsKeep
  <2>6. Good(n - 1)
    BY <1>3
  <2>7. n - 1 \in Nat /\ \A k \in 1 .. n : k = n \/ k \in 1 .. n - 1
    BY <1>1
  <2> HIDE DEF e
  <2>8. q2.callId = p.callId /\ q2.lastSequence = m
    BY <2>4, <2>5, <2>6 DEF EventKeeps
  <2>9. PageNames(p, I, T) => PageNames(q2, I, T)
    BY <2>2, <2>5, <2>6 DEF EventKeeps, EventAgrees, PageNames, OrNone
  <2>10. OwnFacts(p, c, row) => OwnFacts(q2, c, row)
    <3> SUFFICES ASSUME OwnFacts(q, c, row) PROVE OwnFacts(q2, c, row)
      BY <2>6
    <3> HIDE DEF q, q2, m
    <3> QED
      BY <1>1, <2>2, <2>5 DEF EventKeeps, EventAgrees, OwnFacts
  <2>11. p.receiptId # None => q2.receiptId # None
    BY <1>1, <2>2, <2>5, <2>6 DEF EventKeeps, EventAgrees
  <2>12. /\ q.needsRecovery => q2.needsRecovery
         /\ before(n) # 0 /\ m > before(n) + 1 => q2.needsRecovery
    BY <2>4, <2>5 DEF EventKeeps
  <2>13. p.needsRecovery => q2.needsRecovery
    BY <2>6, <2>12
  <2>14. \A k \in 1 .. n : before(k) # 0 /\ seen[k] > before(k) + 1 => q2.needsRecovery
    <3> HIDE DEF before
    <3> QED
      BY <2>6, <2>7, <2>12
  <2> HIDE DEF before
  <2> QED
    BY <2>8, <2>9, <2>10, <2>11, <2>13, <2>14
<1> HIDE DEF Good
<1>4. 0 \in Kept /\ \A n \in 1 .. N : n - 1 \in Kept => n \in Kept
  BY <1>1, <1>2, <1>3
<1> HIDE DEF Kept, N
<1>5. \A n \in 0 .. N : n \in Kept
  BY <1>1, <1>4, RecursionKeeps
<1>6. \A n \in 0 .. N : Good(n)
  BY <1>5 DEF Kept
<1> QED
  BY <1>6 DEF Good, N, BatchKept

(* What events that ask for no recovery make of a page: only a status, a   *)
(* gate and turns that one of them tells.                                  *)
OnlyTold(p, q, new) ==
  /\ \/ q.callStatus = p.callStatus
     \/ \E e \in new : e.event = "call.created" /\ q.callStatus = e.data
  /\ \/ q.paymentGate = p.paymentGate
     \/ \E e \in new : e.event = "risk.payment_gate.updated" /\ q.paymentGate = e.data
  /\ p.transcript \subseteq q.transcript
  /\ q.booking = p.booking /\ q.paymentIntent = p.paymentIntent /\ q.receipt = p.receipt
  /\ q.paymentIntentId = p.paymentIntentId /\ q.paymentStatus = p.paymentStatus
  /\ q.receiptId = p.receiptId

(* The first M events of a batch. *)
FirstOf(S, seen, M) == {S[seen[k]] : k \in 1 .. M}

(* They do. *)
LEMMA BatchTells ==
  ASSUME NEW R \in SUBSET Call, NEW B, NEW p, NEW c \in R,
         NEW S \in Seq(EventsOf(B)), NEW seen \in Seq(1 .. Len(S)),
         NEW f, Follows(f, p, c, S, seen), \A n \in 0 .. Len(seen) : f[n] \in PagesOf(R, B),
         NEW M \in 0 .. Len(seen), \A n \in 1 .. M : ~Asks(S[seen[n]])
  PROVE  OnlyTold(p, f[M], FirstOf(S, seen, M))
<1> DEFINE New(n) == {S[seen[k]] : k \in 1 .. n}
           Good(n) == OnlyTold(p, f[n], New(n))
           Kept == {n \in 0 .. M : Good(n)}
<1>1. Len(seen) \in Nat /\ M \in Nat /\ M <= Len(seen)
  OBVIOUS
<1>2. Good(0) /\ 0 \in 0 .. M
  BY <1>1 DEF Follows, OnlyTold
<1>3. ASSUME NEW n \in 1 .. M, Good(n - 1)
      PROVE  Good(n)
  <2> DEFINE q == f[n - 1]
             q2 == f[n]
             m == seen[n]
             e == S[m]
  <2>1. n \in 1 .. Len(seen) /\ n - 1 \in 0 .. Len(seen)
    BY <1>1
  <2>2. /\ m \in 1 .. Len(S) /\ e \in EventsOf(B) /\ m \in Nat
        /\ q \in PagesOf(R, B) /\ q2 = ApplyServerEvent(q, c, e, m)
    BY <2>1 DEF Follows
  <2>3. ~Asks(e)
    OBVIOUS
  <2>4. EventKeeps(q, e, m, q2) /\ EventTells(q, e, q2)
    <3> HIDE DEF q, q2, e, m
    <3> QED
      BY <2>2, <2>3, EventsKeep
  <2>5. e.event \notin {"payment.intent.created", "receipt.verified"}
    BY <2>3 DEF Asks, RecoveryEvent
  <2>6. New(n - 1) \subseteq New(n) /\ e \in New(n)
    <3>1. 1 .. n - 1 \subseteq 1 .. n /\ n \in 1 .. n
      BY <1>1
    <3> QED
      BY <3>1
  <2>7. OnlyTold(p, q, New(n - 1))
    BY <1>3
  <2> HIDE DEF q, q2, e, m, New
  <2>8. OnlyTold(p, q2, New(n))
    BY <2>4, <2>5, <2>6, <2>7 DEF OnlyTold, EventKeeps, EventTells
  <2> QED
    BY <2>8 DEF q2
<1> HIDE DEF Good
<1>4. 0 \in Kept /\ \A n \in 1 .. M : n - 1 \in Kept => n \in Kept
  BY <1>1, <1>2, <1>3
<1> HIDE DEF Kept
<1>5. \A n \in 0 .. M : n \in Kept
  BY <1>1, <1>4, RecursionKeeps
<1>6. M \in 0 .. M
  BY <1>1
<1>7. Good(M)
  BY <1>5, <1>6 DEF Kept
<1> QED
  BY <1>7 DEF Good, New, FirstOf
-----------------------------------------------------------------------------
(***************************************************************************)
(* What a request for a recovery and a dispatch make of the runs.          *)
(***************************************************************************)
(* A run that reads the same, and one that has just begun. *)
SameRun(run, run2) ==
  /\ run2.callId = run.callId /\ run2.hints = run.hints /\ run2.get = run.get
  /\ run2.answer = run.answer /\ run2.hasBooking = run.hasBooking /\ run2.state = run.state
  /\ run2.complete = run.complete
FreshRun(run, p, c, hints) ==
  /\ run.callId = c /\ run.hints = hints /\ run.get = 1 /\ run.answer = None
  /\ run.hasBooking = FALSE /\ run.complete = FALSE
  /\ run.state.bookingId = p.bookingId /\ run.state.paymentIntentId = p.paymentIntentId
  /\ run.state.receiptId = p.receiptId

(* What waits keeps the receipt of one of those who asked. *)
QueuedFor(q, old, c, hints) ==
  /\ q # None /\ q.callId = c
  /\ \/ q.hints.receiptId = hints.receiptId
     \/ old # None /\ q.hints.receiptId = old.hints.receiptId

(* A run is not None. *)
LEMMA RunsAreSome ==
  ASSUME NEW R \in SUBSET Call, NEW B \in SUBSET Call
  PROVE  /\ \A run \in RunsOf(R, B) : run # None
         /\ \A q \in [callId : OrNone(R), hints : HintsOf(B)] : q # None
<1>1. OrNone(R) \subseteq Ids /\ OrNone(B) \subseteq Ids
  BY DEF OrNone, Ids
<1>2. RunsOf(R, B) \subseteq RunRow
  BY <1>1 DEF RunsOf, RunRow, HintsOf, IdHints
<1>3. [callId : OrNone(R), hints : HintsOf(B)] \subseteq QueuedRow
  BY <1>1 DEF QueuedRow, HintsOf, IdHints
<1> QED
  BY <1>2, <1>3, NoRunAssumption

(* The page's ids as a run keeps them. *)
LEMMA RunIsFresh ==
  ASSUME NEW p, NEW c, NEW hints
  PROVE  FreshRun(Run(p, c, hints), p, c, hints)
  BY DEF FreshRun, Run

(* Whoever asks begins a run, or waits behind the one that is active. *)
LEMMA RequestMakes ==
  ASSUME NEW R \in SUBSET Call, NEW B \in SUBSET Call, NEW p \in PagesOf(R, B),
         NEW c \in OrNone(R), NEW hints \in HintsOf(B), NEW by, NEW co, CoFits(co, R, B)
  PROVE  /\ Request(co, p, c, hints, by).active # None
         /\ co.active = None =>
              /\ FreshRun(Request(co, p, c, hints, by).active, p, c, hints)
              /\ Request(co, p, c, hints, by).queued = None
         /\ co.active # None =>
              /\ SameRun(co.active, Request(co, p, c, hints, by).active)
              /\ QueuedFor(Request(co, p, c, hints, by).queued, co.queued, c, hints)
<1> DEFINE run == IF co.active = None THEN Run(p, c, hints) ELSE co.active
           heard == run.heard \/ by = "page"
           joined == [run EXCEPT !.heard = heard]
           kept == IF co.queued = None THEN hints ELSE Merged(co.queued.hints, hints)
           later == [callId |-> c, hints |-> kept]
<1>1. /\ Request(co, p, c, hints, by).active = joined
      /\ Request(co, p, c, hints, by).queued = IF co.active = None THEN co.queued ELSE later
  BY DEF Request
<1>2. RunFits(run, R, B)
  BY RunBegins DEF CoFits
<1>3. co.active = None => FreshRun(run, p, c, hints) /\ co.queued = None
  BY RunIsFresh DEF CoFits
<1>4. co.active # None => run = co.active
  OBVIOUS
<1> HIDE DEF run
<1>5. run \in RunsOf(R, B) /\ heard \in BOOLEAN
  BY <1>2 DEF RunFits, RunsOf
<1> HIDE DEF heard
<1>6. joined \in RunsOf(R, B) /\ SameRun(run, joined)
  BY <1>5 DEF RunsOf, SameRun
<1> HIDE DEF joined
<1>7. /\ kept \in HintsOf(B)
      /\ \/ kept.receiptId = hints.receiptId
         \/ co.queued # None /\ kept.receiptId = co.queued.hints.receiptId
  <2>1. CASE co.queued = None
    BY <2>1
  <2>2. CASE co.queued # None
    <3>1. co.queued.hints \in HintsOf(B)
      BY <2>2 DEF CoFits, QueuedFits
    <3>2. kept = Merged(co.queued.hints, hints)
      BY <2>2
    <3>3. Merged(co.queued.hints, hints) \in HintsOf(B)
      BY <3>1, MergedFits
    <3>4. Merged(co.queued.hints, hints).receiptId \in {hints.receiptId, co.queued.hints.receiptId}
      BY DEF Merged, HintsOf
    <3> QED
      BY <2>2, <3>2, <3>3, <3>4
  <2> QED
    BY <2>1, <2>2
<1> HIDE DEF kept
<1>8. later # None /\ later.callId = c /\ later.hints = kept
  <2>1. later \in [callId : OrNone(R), hints : HintsOf(B)]
    BY <1>7
  <2> QED
    BY <2>1, RunsAreSome
<1> HIDE DEF later
<1>9. co.active # None => QueuedFor(later, co.queued, c, hints)
  BY <1>7, <1>8 DEF QueuedFor
<1>10. joined # None
  BY <1>6, RunsAreSome
<1>11. FreshRun(run, p, c, hints) => FreshRun(joined, p, c, hints)
  BY <1>6 DEF FreshRun, SameRun
<1> QED
  BY <1>1, <1>3, <1>4, <1>6, <1>9, <1>10, <1>11
-----------------------------------------------------------------------------
(***************************************************************************)
(* Every intent, receipt and manual review that is named is there: I are   *)
(* the calls with an intent, T those with a receipt, V those under review. *)
(***************************************************************************)
StoreNames(s, I) == s # None => s.paymentIntentId \in OrNone(I)
RunNames(run, I, T) ==
  /\ run.hints.receiptId \in OrNone(T) /\ run.state.receiptId \in OrNone(T)
  /\ run.answer # None =>
       /\ Get[run.get] = "risk" => run.answer.gate # "MANUAL_REVIEW_REQUIRED"
       /\ Get[run.get] = "payment" /\ run.answer.stage \in PaidStage => BookingOf(run) \in I
CoNames(co, I, T) ==
  /\ co.active # None => RunNames(co.active, I, T)
  /\ co.queued # None => co.queued.hints.receiptId \in OrNone(T)
ReqNames(r, I, T, V) ==
  /\ r["confirm"].state \notin {"pending", "rejected"}
  /\ r["create"].state \notin {"pending", "rejected"}
  /\ r["create"].state = "ok" => r["create"].booking \in I
  /\ r["verify"].state = "ok" => r["verify"].booking \in T
  /\ r["verify"].state = "rejected" => r["verify"].booking \in V

NamesKnown ==
  /\ PageNames(page, Intents, Receipts) /\ StoreNames(storage, Intents)
  /\ CoNames(Co, Intents, Receipts) /\ ReqNames(req, Intents, Receipts, Reviews)

(* What is named is still there when more is. *)
LEMMA NamesGrow ==
  ASSUME NEW I, NEW T, NEW V, NEW I2, NEW T2, NEW V2,
         I \subseteq I2, T \subseteq T2, V \subseteq V2
  PROVE  /\ \A p : PageNames(p, I, T) => PageNames(p, I2, T2)
         /\ \A s : StoreNames(s, I) => StoreNames(s, I2)
         /\ \A co : CoNames(co, I, T) => CoNames(co, I2, T2)
         /\ \A r : ReqNames(r, I, T, V) => ReqNames(r, I2, T2, V2)
<1>1. OrNone(I) \subseteq OrNone(I2) /\ OrNone(T) \subseteq OrNone(T2)
  BY DEF OrNone
<1> QED
  BY <1>1 DEF PageNames, StoreNames, CoNames, RunNames, ReqNames

(* A request for a recovery. *)
LEMMA RequestNames ==
  ASSUME NEW R \in SUBSET Call, NEW B \in SUBSET Call, NEW p \in PagesOf(R, B),
         NEW c \in OrNone(R), NEW hints \in HintsOf(B), NEW by, NEW co, CoFits(co, R, B),
         NEW I, NEW T, PageNames(p, I, T), CoNames(co, I, T), hints.receiptId \in OrNone(T)
  PROVE  CoNames(Request(co, p, c, hints, by), I, T)
<1> DEFINE co2 == Request(co, p, c, hints, by)
<1>1. CASE co.active = None
  <2>1. FreshRun(co2.active, p, c, hints) /\ co2.queued = None
    BY <1>1, RequestMakes
  <2> HIDE DEF co2
  <2>2. CoNames(co2, I, T)
    BY <2>1 DEF CoNames, RunNames, FreshRun, PageNames
  <2> QED
    BY <2>2 DEF co2
<1>2. CASE co.active # None
  <2>1. SameRun(co.active, co2.active) /\ QueuedFor(co2.queued, co.queued, c, hints)
    BY <1>2, RequestMakes
  <2> HIDE DEF co2
  <2>2. RunNames(co2.active, I, T)
    BY <1>2, <2>1 DEF CoNames, RunNames, SameRun, BookingOf
  <2>3. co2.queued # None => co2.queued.hints.receiptId \in OrNone(T)
    BY <2>1 DEF CoNames, QueuedFor
  <2>4. CoNames(co2, I, T)
    BY <2>2, <2>3 DEF CoNames
  <2> QED
    BY <2>4 DEF co2
<1> QED
  BY <1>1, <1>2

(* A dispatch. *)
LEMMA DispatchNames ==
  ASSUME NEW R \in SUBSET Call, NEW B \in SUBSET Call, NEW p \in PagesOf(R, B),
         NEW co, CoFits(co, R, B), NEW r \in Requests(B), Dispatch(p, co, r),
         NEW I, NEW T, NEW V, PageNames(p, I, T), StoreNames(storage, I), CoNames(co, I, T),
         ReqNames(r, I, T, V)
  PROVE  /\ PageNames(page', I, T) /\ StoreNames(storage', I)
         /\ CoNames([active |-> active', queued |-> queued'], I, T)
         /\ ReqNames(req', I, T, V)
<1>1. page' = p /\ storage' = Persisted(p, storage)
      /\ active' = GapAsks(co, p).active /\ queued' = GapAsks(co, p).queued
      /\ req' = IntentAsked(r, p)
  BY DEF Dispatch
<1>2. StoreNames(Persisted(p, storage), I)
  BY DEF Persisted, StoreNames, PageNames
<1>3. CoNames(GapAsks(co, p), I, T)
  <2>1. NoHints \in HintsOf(B) /\ NoHints.receiptId \in OrNone(T) /\ p.callId \in OrNone(R)
    BY DEF NoHints, HintsOf, OrNone, PagesOf
  <2>2. CoNames(Request(co, p, p.callId, NoHints, "page"), I, T)
    BY <2>1, RequestNames
  <2> QED
    BY <2>2 DEF GapAsks
<1>4. ReqNames(IntentAsked(r, p), I, T, V)
  <2> DEFINE r2 == [r EXCEPT !["create"] = [state |-> "sent", booking |-> p.bookingId]]
  <2>1. /\ r2["create"].state = "sent" /\ r2["confirm"] = r["confirm"]
        /\ r2["verify"] = r["verify"]
    BY DEF Requests, Command
  <2> HIDE DEF r2
  <2>2. ReqNames(r2, I, T, V)
    BY <2>1 DEF ReqNames
  <2> QED
    BY <2>2 DEF IntentAsked, r2
<1> QED
  BY <1>1, <1>2, <1>3, <1>4 DEF CoNames
-----------------------------------------------------------------------------
(***************************************************************************)
(* What the steps of a run make of it.                                     *)
(***************************************************************************)
(* The API answers a run. *)
AnsweredRun(run, run2, row) ==
  /\ run2.callId = run.callId /\ run2.hints = run.hints /\ run2.get = run.get
  /\ run2.hasBooking = run.hasBooking /\ run2.state = run.state
  /\ run2.complete = run.complete /\ run2.answer = Answer(Get[run.get], row)

(* It answers about a call or a booking that it has. *)
LEMMA RunAnswered ==
  ASSUME WebInv, ApiAnswers
  PROVE  /\ active # None /\ active' # None /\ Subject(active) \in Rows /\ active.callId \in Rows
         /\ AnsweredRun(active, active', server[Subject(active)])
<1>1. /\ active # None /\ active.callId # None
      /\ active' = [active EXCEPT !.answer = Answer(Get[active.get], server[Subject(active)])]
  BY DEF ApiAnswers
<1>2. RunFits(active, Rows, Bookings)
  BY <1>1 DEF WebInv, AsksFit, CoFits, Co
<1>3. Rows \in SUBSET Call /\ Bookings \in SUBSET Rows /\ Bookings \in SUBSET Call
  BY DEF Rows, Bookings
<1>4. active.callId \in Rows /\ active \in RunsOf(Rows, Bookings)
  BY <1>1, <1>2 DEF RunFits, RunsOf, OrNone
<1>5. Subject(active) \in Rows
  BY <1>2, <1>3, <1>4, RunSubjects DEF Subject
<1> DEFINE answer == Answer(Get[active.get], server[Subject(active)])
<1>6. active' = [active EXCEPT !.answer = answer]
  BY <1>1
<1> HIDE DEF answer
<1>7. /\ active'.callId = active.callId /\ active'.hints = active.hints
      /\ active'.get = active.get /\ active'.hasBooking = active.hasBooking
      /\ active'.state = active.state /\ active'.complete = active.complete
      /\ active'.answer = answer
  BY <1>4, <1>6 DEF RunsOf
<1>8. WebInv' /\ active' # None
  <2>1. WebInv'
    BY ApiAnswersFits
  <2> DEFINE Rest == [callId : OrNone(Rows), hints : HintsOf(Bookings), get : 1 .. Len(Get),
                      answer : {answer}, hasBooking : BOOLEAN, complete : BOOLEAN,
                      state : HintsOf(Bookings), heard : BOOLEAN]
  <2>2. active' \in Rest
    BY <1>4, <1>6 DEF RunsOf
  <2>3. answer \in ApiAnswer
    <3>1. server[Subject(active)] \in ServerRow
      BY <1>5 DEF Rows, WebInv, ServerFits
    <3>2. Get[active.get] \in {"booking", "payment"} =>
            server[Subject(active)].stage \in BookingStage
      <4>1. Get[active.get] \in {"booking", "payment"} => Subject(active) \in Bookings
        BY <1>2, <1>3, RunSubjects DEF Subject
      <4> QED
        BY <3>1, <4>1 DEF Bookings, ServerRow
    <3> DEFINE row == server[Subject(active)]
    <3>3. /\ row \in ServerRow
          /\ Get[active.get] \in {"booking", "payment"} => row.stage \in BookingStage
          /\ answer = Answer(Get[active.get], row)
      BY <3>1, <3>2 DEF answer
    <3> HIDE DEF row
    <3> QED
      BY <3>3 DEF Answer, ApiAnswer, ServerRow
  <2>4. active' \in RunsOf(Rows, Bookings)
    BY <2>2, <2>3 DEF RunsOf
  <2> QED
    BY <1>3, <2>1, <2>4, RunsAreSome
<1> QED
  BY <1>1, <1>4, <1>5, <1>7, <1>8 DEF AnsweredRun, answer

(* The read that follows the one answered: all between are not wanted.     *)
NextRun(run, run2) ==
  /\ run2.callId = run.callId /\ run2.hints = run.hints /\ run2.state = run.state
  /\ run2.answer = None
  /\ run2.hasBooking = IF Get[run.get] = "call" THEN run.answer.hasBooking ELSE run.hasBooking
  /\ run2.complete = IF Get[run.get] = "transcript"
                     THEN HasCustomerAndAgentTurns(run.answer.turns) ELSE run.complete
  /\ run2.get \in run.get + 1 .. 7
  /\ \A m \in run.get + 1 .. run2.get - 1 : ~Wanted(run2, m)

(* After the answer the run goes on with that read. *)
LEMMA RunGoesOn ==
  ASSUME WebInv, AnswerArrives
  PROVE  /\ active # None /\ RunFits(active, Rows, Bookings) /\ active.answer # None
         /\ Get[active.get] # "twin"
         /\ Synced(page, active) \in PagesOf(Rows, Bookings)
         /\ \E run2 : /\ NextRun(active, run2) /\ run2 # None
                      /\ CoFits([active |-> run2, queued |-> queued], Rows, Bookings)
                      /\ Dispatch(Synced(page, active), [active |-> run2, queued |-> queued], req)
<1> DEFINE has == IF Get[active.get] = "call" THEN active.answer.hasBooking ELSE active.hasBooking
           whole == IF Get[active.get] = "transcript"
                    THEN HasCustomerAndAgentTurns(active.answer.turns) ELSE active.complete
           now == [active EXCEPT !.hasBooking = has, !.complete = whole]
           next == NextGet(now)
           sent == [now EXCEPT !.get = next, !.answer = None]
           p == Synced(page, active)
           co == [Co EXCEPT !.active = sent]
<1>1. active # None /\ active.answer # None /\ Get[active.get] # "twin" /\ Dispatch(p, co, req)
  BY DEF AnswerArrives
<1>2. /\ RunFits(active, Rows, Bookings) /\ QueuedFits(queued, Rows, Bookings)
      /\ page \in PagesOf(Rows, Bookings)
  BY <1>1 DEF WebInv, AsksFit, CoFits, Co, PageFits
<1>3. Rows \in SUBSET Call /\ Bookings \in SUBSET Call
  BY RowsAreCalls
<1>4. /\ active \in RunsOf(Rows, Bookings) /\ active.callId \in Rows
      /\ AnswerFits(active, Bookings) /\ active.get \in 1 .. Len(Get)
  BY <1>1, <1>2 DEF RunFits, RunsOf
<1>5. /\ has \in BOOLEAN /\ (has => active.callId \in Bookings) /\ whole \in BOOLEAN
      /\ has = IF Get[active.get] = "call" THEN active.answer.hasBooking ELSE active.hasBooking
      /\ whole = IF Get[active.get] = "transcript"
                 THEN HasCustomerAndAgentTurns(active.answer.turns) ELSE active.complete
  BY <1>2, <1>4 DEF RunFits, RunsOf, AnswerFits, HasCustomerAndAgentTurns
<1>6. co = [active |-> sent, queued |-> queued]
  BY DEF Co
<1> HIDE DEF has, whole
<1>7. /\ now \in RunsOf(Rows, Bookings) /\ now.get = active.get /\ now.hasBooking = has
      /\ now.callId = active.callId /\ now.hints = active.hints /\ now.state = active.state
      /\ now.complete = whole
  BY <1>4, <1>5 DEF RunsOf
<1> HIDE DEF now
<1>8. /\ next \in active.get + 1 .. 7 /\ next \in 1 .. Len(Get) /\ Wanted(now, next)
      /\ \A m \in active.get + 1 .. next - 1 : ~Wanted(now, m)
  <2>1. /\ next \in now.get + 1 .. Len(Get) /\ Wanted(now, next)
        /\ \A m \in now.get + 1 .. next - 1 : ~Wanted(now, m)
    BY <1>1, <1>4, <1>7, NextIsNearest
  <2> HIDE DEF next
  <2> QED
    BY <1>4, <1>7, <2>1, GetNames
<1> HIDE DEF next
<1>9. /\ sent \in RunsOf(Rows, Bookings) /\ sent.get = next /\ sent.hasBooking = now.hasBooking
      /\ sent.callId = now.callId /\ sent.answer = None
      /\ sent.hints = now.hints /\ sent.state = now.state /\ sent.complete = now.complete
  BY <1>7, <1>8 DEF RunsOf
<1> HIDE DEF sent
<1>10. \A m : Wanted(sent, m) = Wanted(now, m)
  BY <1>9 DEF Wanted, BookingOf, ReceiptOf, AsksForPayment
<1>11. RunFits(sent, Rows, Bookings) /\ sent # None
  BY <1>3, <1>5, <1>7, <1>8, <1>9, <1>10, RunsAreSome DEF RunFits
<1>12. CoFits(co, Rows, Bookings)
  BY <1>2, <1>6, <1>11 DEF CoFits
<1>13. p \in PagesOf(Rows, Bookings)
  BY <1>1, <1>2, <1>3, SyncedFits
<1>14. NextRun(active, sent)
  BY <1>5, <1>7, <1>8, <1>9, <1>10 DEF NextRun
<1> HIDE DEF p, co
<1> QED
  BY <1>1, <1>2, <1>6, <1>11, <1>12, <1>13, <1>14 DEF p

(* What a page shows of its call. *)
SameShown(p, q) ==
  /\ q.callId = p.callId /\ q.callStatus = p.callStatus /\ q.bookingId = p.bookingId
  /\ q.paymentIntentId = p.paymentIntentId /\ q.receiptId = p.receiptId
  /\ q.booking = p.booking /\ q.paymentIntent = p.paymentIntent
  /\ q.paymentStatus = p.paymentStatus /\ q.receipt = p.receipt
  /\ q.paymentGate = p.paymentGate /\ q.transcript = p.transcript
  /\ q.lastSequence = p.lastSequence

(* A run is over, and the one that waits begins. *)
After(p) == IF queued = None THEN None ELSE Run(p, queued.callId, queued.hints)

(* The page then shows what it showed, but for the synchronisation. *)
LEMMA RunIsOver ==
  ASSUME WebInv, active # None, NEW p \in PagesOf(Rows, Bookings), NEW complete,
         RunOver(p, complete)
  PROVE  \E q \in PagesOf(Rows, Bookings) :
            /\ SameShown(p, q) /\ q.needsRecovery = p.needsRecovery
            /\ CoFits([active |-> After(q), queued |-> None], Rows, Bookings)
            /\ Dispatch(q, [active |-> After(q), queued |-> None], req)
<1> DEFINE given == IF GivingUp(complete) # {} THEN [p EXCEPT !.postCallTranscriptSync = "TIMED_OUT"] ELSE p
<1>1. Dispatch(given, [active |-> IF queued = None THEN None
                                  ELSE Run(given, queued.callId, queued.hints),
                       queued |-> None], req)
  BY DEF RunOver
<1>2. Dispatch(given, [active |-> After(given), queued |-> None], req)
  BY <1>1 DEF After
<1>3. /\ given \in PagesOf(Rows, Bookings) /\ SameShown(p, given)
      /\ given.needsRecovery = p.needsRecovery
  <2>1. [p EXCEPT !.postCallTranscriptSync = "TIMED_OUT"] \in PagesOf(Rows, Bookings)
        /\ SameShown(p, [p EXCEPT !.postCallTranscriptSync = "TIMED_OUT"])
        /\ [p EXCEPT !.postCallTranscriptSync = "TIMED_OUT"].needsRecovery = p.needsRecovery
    BY DEF PagesOf, SameShown, SyncStatus
  <2>2. SameShown(p, p)
    BY DEF SameShown
  <2> QED
    BY <2>1, <2>2
<1> HIDE DEF given
<1>4. CoFits([active |-> After(given), queued |-> None], Rows, Bookings)
  <2>1. QueuedFits(queued, Rows, Bookings)
    BY DEF WebInv, AsksFit, CoFits, Co
  <2>2. queued # None => RunFits(After(given), Rows, Bookings)
    BY <1>3, <2>1, RunBegins DEF QueuedFits, After
  <2>3. queued = None => After(given) = None
    BY DEF After
  <2> QED
    BY <2>2, <2>3 DEF CoFits, QueuedFits
<1> QED
  BY <1>2, <1>3, <1>4
-----------------------------------------------------------------------------
(***************************************************************************)
(* What the page shows of its call c, against the call's row.              *)
(***************************************************************************)
(* What is stored for a reload is what the page shows. *)
StoreOf(p) ==
  IF ShouldPersist(p)
  THEN [callId |-> p.callId, bookingId |-> p.bookingId, paymentIntentId |-> p.paymentIntentId]
  ELSE None
StoreFollows == page.callId # None => storage = StoreOf(page)

(* The batch holds events after the last one applied, none of which asks   *)
(* for a recovery; nothing of the call has been applied before the first.  *)
InPlace(s, b, c, last, S) ==
  /\ s.callId = c
  /\ c # None =>
       /\ last < s.next
       /\ \A n \in 1 .. Len(b) : b[n] > last /\ ~Asks(S[b[n]])
       /\ \A n, m \in 1 .. Len(b) : n < m => b[n] < b[m]
       /\ last = 0 => IF b = <<>> THEN s.next = 1 ELSE b[1] = 1
ReadsInPlace == InPlace(sse, batch, page.callId, page.lastSequence, stream[page.callId])

(* What will still make the page ask for a recovery: a connection to be    *)
(* made again, an event it has skipped, an event that asks for one.        *)
Unnoticed(s, b, last) == \E m \in last + 1 .. s.next - 1 : \A n \in 1 .. Len(b) : b[n] # m
Ahead(s, S) == \E n \in s.next .. Len(S) : Asks(S[n])
Owes(s, b, last, S) == ~s.up \/ Unnoticed(s, b, last) \/ Ahead(s, S)

(* A run that waits, a run of another call that will write on the page,    *)
(* and a run that has still to read.                                       *)
Queued(co) == co.queued # None /\ co.queued.callId # None
Elsewhere(co, c) ==
  co.active # None /\ co.active.callId \notin {None, c} /\ co.active.get < 7
OfCall(run, c) == run # None /\ run.callId = c
Reads(run, c, n) == OfCall(run, c) /\ run.get <= n

(* An answer on its way is what the API would answer now. *)
Current(run, row, settled) ==
  /\ run.answer # None /\ Subject(run) = run.callId =>
       IF Get[run.get] = "transcript" THEN settled \subseteq run.answer.turns
       ELSE run.answer = Answer(Get[run.get], row)
  /\ run.get > 1 => run.hasBooking = (row.stage # None)

ShowsCall(p, row) == p.callStatus = row.status
ShowsTurns(p, c, settled) == \A t \in settled : <<c, t>> \in p.transcript
ShowsGate(p, row) == row.stage # None => p.paymentGate = row.gate
ShowsBooking(p, c, row) == row.stage # None => p.booking = [of |-> c, status |-> row.stage]
ShowsPayment(p, row) ==
  p.paymentIntentId # None =>
    \/ p.paymentStatus = row.stage
    \/ p.paymentStatus = None /\ p.paymentIntent = p.paymentIntentId
ShowsReceipt(p) == p.receiptId # None => p.receipt = p.receiptId

(* Whatever the page does not show, the run is still to read, and what the *)
(* run has read is so.                                                     *)
UpToDate(p, run, c, row, settled) ==
  /\ Reads(run, c, 1) \/ ShowsCall(p, row)
  /\ Reads(run, c, 2) \/ ShowsTurns(p, c, settled)
  /\ Reads(run, c, 3) \/ ShowsGate(p, row)
  /\ Reads(run, c, 4) \/ ShowsBooking(p, c, row)
  /\ (Reads(run, c, 5) /\ AsksForPayment(run)) \/ ShowsPayment(p, row)
  /\ (Reads(run, c, 6) /\ ReceiptOf(run) # None) \/ ShowsReceipt(p)
  /\ OfCall(run, c) => Current(run, row, settled)

Agrees(p, co, owes, c, row, settled) ==
  owes \/ Queued(co) \/ Elsewhere(co, c) \/ UpToDate(p, co.active, c, row, settled)

(* A recovery is under way, or will be. *)
Asked(co) == Queued(co) \/ (co.active # None /\ co.active.callId # None)

(* A receipt the page does not know is still to be told. *)
ReceiptComes(p, s, S, row) ==
  row.stage = "RECEIPT_ISSUED" =>
    p.receiptId # None \/ \E n \in s.next .. Len(S) : S[n].event = "receipt.verified"

(* The page agrees with its call, or a recovery will make it; and a gap    *)
(* that it has noticed it has asked about.                                 *)
Follow(p, co, s, b, c) ==
  /\ Agrees(p, co, Owes(s, b, p.lastSequence, stream[c]), c, server[c], SettledTurns(c))
  /\ OwnFacts(p, c, server[c])
  /\ p.needsRecovery => Asked(co)
  /\ ReceiptComes(p, s, stream[c], server[c])

Guarded == ~failed /\ ~foreign /\ ~missed /\ page.callId # None

(* What every step keeps: streams agree with the rows, what is named is    *)
(* there, and the page follows its call.                                   *)
FollowInv ==
  /\ StreamsAgree /\ NamesKnown /\ StoreFollows /\ ReadsInPlace
  /\ Guarded => Follow(page, Co, sse, batch, page.callId)
-----------------------------------------------------------------------------
(***************************************************************************)
(* What keeps the page in agreement: a request for a recovery, a dispatch. *)
(***************************************************************************)
(* A run that has just begun is still to read whatever the page lacks, if  *)
(* it will ask for the payment and the receipt that the page knows of.     *)
LEMMA FreshReads ==
  ASSUME NEW p0, NEW c, NEW hints, NEW run, run # None, FreshRun(run, p0, c, hints), NEW p,
         p.paymentIntentId # None => hints.paymentIntentId # None \/ p0.paymentIntentId # None,
         p.receiptId # None => hints.receiptId # None \/ p0.receiptId # None,
         NEW row, NEW settled
  PROVE  UpToDate(p, run, c, row, settled)
<1>1. OfCall(run, c) /\ run.get = 1
  BY DEF FreshRun, OfCall
<1>2. /\ Reads(run, c, 1) /\ Reads(run, c, 2) /\ Reads(run, c, 3)
      /\ Reads(run, c, 4) /\ Reads(run, c, 5) /\ Reads(run, c, 6)
  BY <1>1 DEF Reads
<1>3. AsksForPayment(run) \/ ShowsPayment(p, row)
  BY DEF FreshRun, AsksForPayment, ShowsPayment
<1>4. ReceiptOf(run) # None \/ ShowsReceipt(p)
  BY DEF FreshRun, ReceiptOf, ShowsReceipt
<1>5. Current(run, row, settled)
  BY <1>1 DEF FreshRun, Current
<1> QED
  BY <1>2, <1>3, <1>4, <1>5 DEF UpToDate

(* A request for a recovery makes up for whatever the page lacks, if the   *)
(* run will ask for the payment and the receipt that the page knows of.    *)
LEMMA AskedAgrees ==
  ASSUME NEW R \in SUBSET Call, NEW B \in SUBSET Call, NEW p0 \in PagesOf(R, B),
         NEW d \in R, NEW hints \in HintsOf(B), NEW by, NEW co, CoFits(co, R, B),
         NEW p, NEW c, NEW owes, NEW row, NEW settled,
         \/ co.active # None
         \/ /\ p.paymentIntentId # None =>
                 hints.paymentIntentId # None \/ p0.paymentIntentId # None
            /\ p.receiptId # None => hints.receiptId # None \/ p0.receiptId # None
  PROVE  /\ Asked(Request(co, p0, d, hints, by))
         /\ Agrees(p, Request(co, p0, d, hints, by), owes, c, row, settled)
<1> DEFINE co2 == Request(co, p0, d, hints, by)
<1> SUFFICES Asked(co2) /\ Agrees(p, co2, owes, c, row, settled)
  OBVIOUS
<1>1. d \in OrNone(R) /\ d # None
  BY NoneAssumption DEF OrNone
<1>2. CASE co.active # None
  <2>1. QueuedFor(co2.queued, co.queued, d, hints)
    BY <1>1, <1>2, RequestMakes
  <2> HIDE DEF co2
  <2> QED
    BY <1>1, <2>1 DEF QueuedFor, Queued, Asked, Agrees
<1>3. CASE co.active = None
  <2>1. co2.active # None /\ FreshRun(co2.active, p0, d, hints)
    BY <1>1, <1>3, RequestMakes
  <2>2. /\ p.paymentIntentId # None => hints.paymentIntentId # None \/ p0.paymentIntentId # None
        /\ p.receiptId # None => hints.receiptId # None \/ p0.receiptId # None
    BY <1>3
  <2> HIDE DEF co2
  <2>3. Asked(co2)
    BY <1>1, <2>1 DEF Asked, FreshRun
  <2>4. CASE d # c
    <3>1. co2.active # None /\ co2.active.callId = d /\ co2.active.get = 1
      BY <2>1 DEF FreshRun
    <3>2. Elsewhere(co2, c)
      BY <1>1, <2>4, <3>1 DEF Elsewhere
    <3> QED
      BY <2>3, <3>2 DEF Agrees
  <2>5. CASE d = c
    <3>1. UpToDate(p, co2.active, c, row, settled)
      BY <1>1, <2>1, <2>2, <2>5, FreshReads
    <3> QED
      BY <2>3, <3>1 DEF Agrees
  <2> QED
    BY <2>3, <2>4, <2>5
<1> QED
  BY <1>2, <1>3

(* While the API commits nothing its intents and receipts stay. *)
LEMMA NamesStay ==
  ASSUME ApiStays
  PROVE  /\ Intents' = Intents /\ Receipts' = Receipts /\ Reviews' = Reviews
         /\ server' = server /\ stream' = stream
         /\ \A c : SettledTurns(c)' = SettledTurns(c)
  BY DEF ApiStays, Intents, Receipts, Reviews, At, SettledTurns

(* What a step has to make of the page and of its reading. *)
Lands(p, co) ==
  /\ PageNames(p, Intents, Receipts) /\ CoNames(co, Intents, Receipts)
  /\ InPlace(sse', batch', p.callId, p.lastSequence, stream[p.callId])
  /\ ~failed' /\ ~foreign' /\ ~missed' /\ p.callId # None =>
       /\ \/ p.needsRecovery /\ ~page.needsRecovery
          \/ Agrees(p, co, Owes(sse', batch', p.lastSequence, stream[p.callId]), p.callId,
                    server[p.callId], SettledTurns(p.callId))
       /\ OwnFacts(p, p.callId, server[p.callId])
       /\ p.needsRecovery => ~page.needsRecovery \/ Asked(co)
       /\ ReceiptComes(p, sse', stream[p.callId], server[p.callId])

(* A dispatch keeps the invariant if its page does.                        *)
LEMMA DispatchFollows ==
  ASSUME WebInv, FollowInv, ApiStays,
         NEW p \in PagesOf(Rows, Bookings), NEW co, CoFits(co, Rows, Bookings),
         NEW r \in Requests(Bookings), Dispatch(p, co, r),
         ReqNames(r, Intents, Receipts, Reviews), Lands(p, co)
  PROVE  FollowInv'
<1>1. Rows \in SUBSET Call /\ Bookings \in SUBSET Call
  BY RowsAreCalls
<1>2. /\ page' = p /\ storage' = Persisted(p, storage)
      /\ active' = GapAsks(co, p).active /\ queued' = GapAsks(co, p).queued
  BY DEF Dispatch
<1>3. StreamsAgree'
  BY NamesStay DEF FollowInv, StreamsAgree
<1>4. NamesKnown'
  <2>1. /\ StoreNames(storage, Intents)
        /\ PageNames(p, Intents, Receipts) /\ CoNames(co, Intents, Receipts)
    BY DEF FollowInv, NamesKnown, Lands
  <2>2. /\ PageNames(page', Intents, Receipts) /\ StoreNames(storage', Intents)
        /\ CoNames([active |-> active', queued |-> queued'], Intents, Receipts)
        /\ ReqNames(req', Intents, Receipts, Reviews)
    BY <1>1, <2>1, DispatchNames
  <2> QED
    BY <2>2, NamesStay DEF NamesKnown, Co
<1>5. StoreFollows'
  BY <1>2 DEF StoreFollows, StoreOf, Persisted
<1>6. ReadsInPlace'
  BY <1>2, NamesStay DEF Lands, ReadsInPlace
<1>7. ASSUME Guarded'
      PROVE  Follow(page, Co, sse, batch, page.callId)'
  <2> DEFINE c == p.callId
             owes == Owes(sse', batch', p.lastSequence, stream[c])
             co2 == [active |-> active', queued |-> queued']
  <2>1. /\ c # None
        /\ \/ p.needsRecovery /\ ~page.needsRecovery
           \/ Agrees(p, co, owes, c, server[c], SettledTurns(c))
        /\ OwnFacts(p, c, server[c]) /\ ReceiptComes(p, sse', stream[c], server[c])
        /\ p.needsRecovery => ~page.needsRecovery \/ Asked(co)
    BY <1>2, <1>7 DEF Guarded, Lands
  <2>2. c \in Rows
    BY <2>1 DEF PagesOf, OrNone
  <2>3. /\ Agrees(p, co2, owes, c, server[c], SettledTurns(c))
        /\ p.needsRecovery => Asked(co2)
    <3>1. CASE p.needsRecovery /\ ~page.needsRecovery
      <4>1. NoHints \in HintsOf(Bookings)
        BY DEF NoHints, HintsOf, OrNone
      <4> DEFINE asked == Request(co, p, c, NoHints, "page")
      <4>2. Asked(asked) /\ Agrees(p, asked, owes, c, server[c], SettledTurns(c))
        <5> HIDE DEF c, owes
        <5> QED
          BY <1>1, <2>2, <4>1, AskedAgrees
      <4>3. co2.active = asked.active /\ co2.queued = asked.queued
        BY <1>2, <2>1, <3>1 DEF GapAsks
      <4> HIDE DEF asked, co2, c, owes
      <4> QED
        BY <4>2, <4>3 DEF Asked, Agrees, Queued, Elsewhere
    <3>2. CASE ~(p.needsRecovery /\ ~page.needsRecovery)
      <4>1. co2.active = co.active /\ co2.queued = co.queued
        BY <1>2, <3>2 DEF GapAsks
      <4> HIDE DEF co2, c, owes
      <4> QED
        BY <2>1, <3>2, <4>1 DEF Asked, Agrees, Queued, Elsewhere
    <3> QED
      BY <3>1, <3>2
  <2> HIDE DEF owes, co2
  <2>4. Follow(page, Co, sse, batch, page.callId)'
        = (/\ Agrees(p, co2, owes, c, server[c], SettledTurns(c))
           /\ OwnFacts(p, c, server[c])
           /\ p.needsRecovery => Asked(co2)
           /\ ReceiptComes(p, sse', stream[c], server[c]))
    BY <1>2, NamesStay DEF Follow, Co, co2, owes
  <2> QED
    BY <2>1, <2>3, <2>4
<1> QED
  BY <1>3, <1>4, <1>5, <1>6, <1>7 DEF FollowInv
-----------------------------------------------------------------------------
(***************************************************************************)
(* Steps that leave the page as it is.                                     *)
(***************************************************************************)
(* The invariant is kept if the runs and the reading keep it.              *)
LEMMA RestFollows ==
  ASSUME WebInv, FollowInv, ApiStays, UNCHANGED <<page, storage>>,
         Lands(page, [active |-> active', queued |-> queued']),
         ReqNames(req', Intents, Receipts, Reviews)
  PROVE  FollowInv'
<1> DEFINE co == [active |-> active', queued |-> queued']
           c == page.callId
<1>1. page' = page /\ storage' = storage
  OBVIOUS
<1>2. StreamsAgree' /\ StoreFollows'
  BY <1>1, NamesStay DEF FollowInv, StreamsAgree, StoreFollows
<1>3. NamesKnown'
  BY <1>1, NamesStay DEF FollowInv, NamesKnown, Lands, Co
<1>4. ReadsInPlace'
  BY <1>1, NamesStay DEF Lands, ReadsInPlace
<1>5. ASSUME Guarded'
      PROVE  Follow(page, Co, sse, batch, page.callId)'
  <2> DEFINE owes == Owes(sse', batch', page.lastSequence, stream[c])
  <2>1. /\ Agrees(page, co, owes, c, server[c], SettledTurns(c))
        /\ OwnFacts(page, c, server[c]) /\ ReceiptComes(page, sse', stream[c], server[c])
        /\ page.needsRecovery => Asked(co)
    BY <1>1, <1>5 DEF Guarded, Lands
  <2> HIDE DEF owes, co
  <2>2. Follow(page, Co, sse, batch, page.callId)'
        = (/\ Agrees(page, co, owes, c, server[c], SettledTurns(c))
           /\ OwnFacts(page, c, server[c])
           /\ page.needsRecovery => Asked(co)
           /\ ReceiptComes(page, sse', stream[c], server[c]))
    BY <1>1, NamesStay DEF Follow, Co, co, owes
  <2> QED
    BY <2>1, <2>2
<1> QED
  BY <1>2, <1>3, <1>4, <1>5 DEF FollowInv

(* The stream skips an event: the page will notice, or it was a receipt.   *)
LEMMA SkipFollows == WebInv /\ FollowInv /\ Skip => FollowInv'
<1> SUFFICES ASSUME WebInv, FollowInv, Skip PROVE FollowInv'
  OBVIOUS
<1> DEFINE c == page.callId
           S == stream[c]
<1>1. /\ sse.next \in 2 .. Len(stream[sse.callId]) - 1 /\ sse' = [sse EXCEPT !.next = @ + 1]
      /\ missed' = (missed \/ stream[sse.callId][sse.next].event = "receipt.verified")
      /\ sse.callId # None /\ sse.up
      /\ ApiStays /\ UNCHANGED <<page, storage>>
      /\ batch' = batch /\ active' = active /\ queued' = queued /\ req' = req
      /\ failed' = failed /\ foreign' = foreign
  BY DEF Skip, Awaits, ApiStays
<1>2. /\ sse.next \in Nat \ {0} /\ batch \in Seq(1 .. sse.next - 1)
      /\ sse'.callId = sse.callId /\ sse'.next = sse.next + 1
  <2>1. sse \in [callId : OrNone(Rows), next : Nat \ {0}, up : BOOLEAN]
    BY DEF WebInv, ReadsFit
  <2> QED
    BY <1>1, <2>1, ReadFacts
<1>3. /\ InPlace(sse, batch, c, page.lastSequence, S) /\ sse.callId = c
      /\ page.lastSequence \in Nat
  BY DEF FollowInv, ReadsInPlace, InPlace, WebInv, PageFits, PagesOf
<1>4. InPlace(sse', batch', c, page.lastSequence, S)
  <2>1. page.lastSequence < sse.next + 1
    BY <1>1, <1>2, <1>3 DEF InPlace
  <2> QED
    BY <1>1, <1>2, <1>3, <2>1 DEF InPlace
<1>5. Unnoticed(sse', batch', page.lastSequence)
  <2>1. sse.next \in page.lastSequence + 1 .. sse'.next - 1
    BY <1>1, <1>2, <1>3 DEF InPlace
  <2>2. \A n \in 1 .. Len(batch) : batch[n] # sse.next
    BY <1>2
  <2> QED
    BY <1>1, <2>1, <2>2 DEF Unnoticed
<1>6. ASSUME ~failed', ~foreign', ~missed', c # None
      PROVE  /\ Follow(page, Co, sse, batch, c)
             /\ ReceiptComes(page, sse', S, server[c])
  <2>1. Follow(page, Co, sse, batch, c)
    BY <1>1, <1>6 DEF FollowInv, Guarded
  <2>2. ReceiptComes(page, sse, S, server[c]) /\ S[sse.next].event # "receipt.verified"
    BY <1>1, <1>3, <1>6, <2>1 DEF Follow
  <2>3. Len(S) \in Nat
    BY <1>1, <1>3, ReadFacts
  <2>4. \A n \in sse.next .. Len(S) : n = sse.next \/ n \in sse'.next .. Len(S)
    BY <1>2, <2>3
  <2> HIDE DEF S
  <2>5. ReceiptComes(page, sse', S, server[c])
    BY <2>2, <2>4 DEF ReceiptComes
  <2> QED
    BY <2>1, <2>5 DEF S
<1>7. Lands(page, [active |-> active', queued |-> queued'])
  <2>1. [active |-> active', queued |-> queued'] = Co
    BY <1>1 DEF Co
  <2>2. PageNames(page, Intents, Receipts) /\ CoNames(Co, Intents, Receipts)
    BY DEF FollowInv, NamesKnown
  <2>3. Owes(sse', batch', page.lastSequence, S)
    BY <1>5 DEF Owes
  <2>4. Lands(page, Co)
    BY <1>4, <1>6, <2>2, <2>3 DEF Lands, Agrees, Follow
  <2> QED
    BY <2>1, <2>4
<1>8. ReqNames(req', Intents, Receipts, Reviews)
  BY <1>1 DEF FollowInv, NamesKnown
<1> QED
  BY <1>1, <1>7, <1>8, RestFollows

(* The connection breaks, a request is lost, or nothing happens. *)
LEMMA LossesFollow ==
  ASSUME WebInv, FollowInv, \/ Drop \/ UNCHANGED vars
                            \/ \E k \in Command : RequestLost(k)
  PROVE  FollowInv'
<1> DEFINE c == page.callId
           S == stream[c]
           co == [active |-> active', queued |-> queued']
<1>1. /\ ApiStays /\ UNCHANGED <<page, storage>>
      /\ batch' = batch /\ active' = active /\ queued' = queued
      /\ foreign' = foreign /\ missed' = missed
  BY DEF Drop, RequestLost, vars, ApiStays
<1>2. co = Co
  BY <1>1 DEF Co
<1>3. /\ InPlace(sse, batch, c, page.lastSequence, S)
      /\ PageNames(page, Intents, Receipts) /\ CoNames(Co, Intents, Receipts)
      /\ ReqNames(req, Intents, Receipts, Reviews)
  BY DEF FollowInv, ReadsInPlace, NamesKnown
<1> HIDE DEF co
<1>4. CASE Drop
  <2>1. sse' = [sse EXCEPT !.up = FALSE] /\ req' = req /\ failed' = failed
    BY <1>4 DEF Drop
  <2>2. sse'.callId = sse.callId /\ sse'.next = sse.next /\ ~sse'.up
    <3>1. sse \in [callId : OrNone(Rows), next : Nat \ {0}, up : BOOLEAN]
      BY DEF WebInv, ReadsFit
    <3> QED
      BY <2>1, <3>1
  <2>3. InPlace(sse', batch', c, page.lastSequence, S)
    BY <1>1, <1>3, <2>2 DEF InPlace
  <2>4. ASSUME ~failed', ~foreign', ~missed', c # None
        PROVE  Follow(page, Co, sse, batch, c)
    BY <1>1, <2>1, <2>4 DEF FollowInv, Guarded
  <2>5. Owes(sse', batch', page.lastSequence, S)
    BY <2>2 DEF Owes
  <2>6. \A row : ReceiptComes(page, sse, S, row) => ReceiptComes(page, sse', S, row)
    BY <2>2 DEF ReceiptComes
  <2>7. Lands(page, co)
    BY <1>2, <1>3, <2>3, <2>4, <2>5, <2>6 DEF Lands, Agrees, Follow
  <2> QED
    BY <1>1, <1>3, <2>1, <2>7, RestFollows DEF co
<1>5. CASE \E k \in Command : RequestLost(k)
  <2>1. PICK k \in Command : RequestLost(k)
    BY <1>5
  <2>2. req' = [req EXCEPT ![k].state = "lost"] /\ sse' = sse /\ failed'
    BY <2>1 DEF RequestLost
  <2>3. ReqNames(req', Intents, Receipts, Reviews)
    <3>1. req \in Requests(Bookings)
      BY DEF WebInv, SendsFit
    <3>2. \A l \in Command : IF l = k THEN req'[l].state = "lost" ELSE req'[l] = req[l]
      BY <2>2, <3>1 DEF Requests
    <3>3. "confirm" \in Command /\ "create" \in Command /\ "verify" \in Command
      BY DEF Command
    <3> QED
      BY <1>3, <3>2, <3>3 DEF ReqNames
  <2>4. Lands(page, co)
    BY <1>1, <1>2, <1>3, <2>2 DEF Lands
  <2> QED
    BY <1>1, <2>3, <2>4, RestFollows DEF co
<1>6. CASE UNCHANGED vars
  <2>1. sse' = sse /\ req' = req /\ failed' = failed
    BY <1>6 DEF vars
  <2>2. ASSUME ~failed', ~foreign', ~missed', c # None
        PROVE  Follow(page, Co, sse, batch, c)
    BY <1>1, <2>1, <2>2 DEF FollowInv, Guarded
  <2>3. Lands(page, co)
    BY <1>1, <1>2, <1>3, <2>1, <2>2 DEF Lands, Follow
  <2> QED
    BY <1>1, <1>3, <2>1, <2>3, RestFollows DEF co
<1> QED
  BY <1>4, <1>5, <1>6

(* No turn is settled that the API does not have. *)
LEMMA SettledAreTurns ==
  ASSUME StreamsAgree, NEW c \in Rows, Len(stream[c]) \in Nat, stream[c] \in Seq(EventsOf(Call))
  PROVE  SettledTurns(c) \subseteq server[c].turns
<1>1. StreamAgrees(stream[c], c, server[c])
  BY DEF StreamsAgree, Rows
<1>2. \A n \in DOMAIN stream[c] : n \in 1 .. Len(stream[c])
  OBVIOUS
<1> QED
  BY <1>1, <1>2 DEF SettledTurns, StreamAgrees, EventAgrees

(* The API answers a read: with what it has at that moment.                *)
LEMMA AnswersFollow == WebInv /\ FollowInv /\ ApiAnswers => FollowInv'
<1> SUFFICES ASSUME WebInv, FollowInv, ApiAnswers PROVE FollowInv'
  OBVIOUS
<1> DEFINE c == page.callId
           S == stream[c]
           co == [active |-> active', queued |-> queued']
           d == Subject(active)
<1>1. /\ ApiStays /\ UNCHANGED <<page, storage>>
      /\ sse' = sse /\ batch' = batch /\ queued' = queued /\ req' = req
      /\ failed' = failed /\ foreign' = foreign /\ missed' = missed
  BY DEF ApiAnswers, ApiStays
<1>2. /\ active # None /\ active' # None /\ d \in Rows /\ active.callId \in Rows
      /\ AnsweredRun(active, active', server[d])
  BY RunAnswered
<1>3. /\ InPlace(sse, batch, c, page.lastSequence, S)
      /\ PageNames(page, Intents, Receipts) /\ CoNames(Co, Intents, Receipts)
      /\ ReqNames(req, Intents, Receipts, Reviews)
  BY DEF FollowInv, ReadsInPlace, NamesKnown
<1>4. /\ BookingOf(active') = BookingOf(active) /\ ReceiptOf(active') = ReceiptOf(active)
      /\ AsksForPayment(active') = AsksForPayment(active)
  BY <1>2 DEF AnsweredRun, BookingOf, ReceiptOf, AsksForPayment
<1>5. Subject(active') = d
  BY <1>2, <1>4 DEF AnsweredRun, Subject
<1>6. \A e \in Rows : server[e].gate # "MANUAL_REVIEW_REQUIRED"
  BY DEF FollowInv, StreamsAgree, StreamAgrees, Rows
<1> HIDE DEF d
<1>7. RunNames(active', Intents, Receipts)
  <2>1. RunNames(active, Intents, Receipts)
    BY <1>2, <1>3 DEF CoNames, Co
  <2>2. Get[active.get] = "risk" => active'.answer.gate # "MANUAL_REVIEW_REQUIRED"
    BY <1>2, <1>6 DEF AnsweredRun, Answer
  <2>3. Get[active.get] = "payment" /\ active'.answer.stage \in PaidStage
          => BookingOf(active') \in Intents
    <3>1. Get[active.get] = "payment" =>
            BookingOf(active) = d /\ active'.answer.stage = server[d].stage
      BY <1>2 DEF AnsweredRun, Answer, Subject, d
    <3>2. server[d].stage \in PaidStage => d \in Intents
      BY <1>2 DEF Intents, At, Rows
    <3> QED
      BY <1>4, <3>1, <3>2
  <2> QED
    BY <1>2, <2>1, <2>2, <2>3 DEF RunNames, AnsweredRun
<1>8. CoNames(co, Intents, Receipts)
  BY <1>1, <1>3, <1>7 DEF CoNames, Co
<1>9. ASSUME ~failed', ~foreign', ~missed', c # None
      PROVE  /\ Follow(page, Co, sse, batch, c)
             /\ page.needsRecovery => Asked(co)
             /\ \A owes : Agrees(page, Co, owes, c, server[c], SettledTurns(c))
                  => Agrees(page, co, owes, c, server[c], SettledTurns(c))
  <2>1. Follow(page, Co, sse, batch, c)
    BY <1>1, <1>9 DEF FollowInv, Guarded
  <2>2. page.needsRecovery => Asked(co)
    BY <1>1, <1>2, <2>1 DEF Follow, Asked, Queued, Co, AnsweredRun
  <2>3. Queued(Co) => Queued(co)
    BY <1>1 DEF Queued, Co
  <2>4. Elsewhere(Co, c) => Elsewhere(co, c)
    BY <1>2 DEF Elsewhere, Co, AnsweredRun
  <2>5. ASSUME UpToDate(page, active, c, server[c], SettledTurns(c))
        PROVE  UpToDate(page, active', c, server[c], SettledTurns(c))
    <3>1. \A n : Reads(active, c, n) => Reads(active', c, n)
      BY <1>2 DEF Reads, OfCall, AnsweredRun
    <3>2. ASSUME OfCall(active', c)
          PROVE  Current(active', server[c], SettledTurns(c))
      <4>1. active.callId = c /\ c \in Rows /\ Current(active, server[c], SettledTurns(c))
        BY <1>2, <2>5, <3>2 DEF OfCall, AnsweredRun, UpToDate
      <4>2. active'.get > 1 => active'.hasBooking = (server[c].stage # None)
        BY <1>2, <4>1 DEF Current, AnsweredRun
      <4>3. SettledTurns(c) \subseteq server[c].turns
        <5>1. stream[c] \in Seq(EventsOf(Call)) /\ StreamsAgree
          <6>1. stream[c] \in Seq(EventsOf(Bookings)) /\ EventsOf(Bookings) \subseteq EventsOf(Call)
            <7>1. stream[c] \in Seq(EventsOf(Bookings))
              BY <4>1, RowsAreCalls DEF WebInv, ServerFits
            <7>2. EventsOf(Bookings) \subseteq EventsOf(Call)
              BY RowsAreCalls, TypesGrow
            <7> QED
              BY <7>1, <7>2
          <6> QED
            BY <6>1 DEF FollowInv
        <5>2. Len(stream[c]) \in Nat
          BY <5>1
        <5> QED
          BY <4>1, <5>1, <5>2, SettledAreTurns
      <4>4. Subject(active') = active'.callId =>
              active'.answer = Answer(Get[active'.get], server[c])
        BY <1>2, <1>5, <4>1 DEF AnsweredRun
      <4>5. Get[active'.get] = "transcript" =>
              Answer(Get[active'.get], server[c]).turns = server[c].turns
        BY DEF Answer
      <4> QED
        BY <4>2, <4>3, <4>4, <4>5 DEF Current
    <3> QED
      BY <1>4, <2>5, <3>1, <3>2 DEF UpToDate
  <2>6. co.active = active' /\ Co.active = active
    BY DEF Co
  <2> HIDE DEF co, c
  <2> QED
    BY <2>1, <2>2, <2>3, <2>4, <2>5, <2>6 DEF Agrees
<1>10. Lands(page, co)
  BY <1>1, <1>3, <1>8, <1>9 DEF Lands, Follow
<1> QED
  BY <1>1, <1>3, <1>10, RestFollows
-----------------------------------------------------------------------------
(***************************************************************************)
(* Steps that ask for a recovery, send a command or read its reply.        *)
(***************************************************************************)
(* Pages that show the same agree with the same. *)
LEMMA SameFollows ==
  ASSUME NEW p, NEW q, SameShown(p, q)
  PROVE  /\ \A I, T : PageNames(p, I, T) => PageNames(q, I, T)
         /\ \A c, row : OwnFacts(p, c, row) => OwnFacts(q, c, row)
         /\ \A s, S, row : ReceiptComes(p, s, S, row) => ReceiptComes(q, s, S, row)
         /\ \A co, owes, c, row, settled :
              Agrees(p, co, owes, c, row, settled) => Agrees(q, co, owes, c, row, settled)
<1>1. /\ \A I, T : PageNames(p, I, T) => PageNames(q, I, T)
      /\ \A c, row : OwnFacts(p, c, row) => OwnFacts(q, c, row)
  BY DEF SameShown, PageNames, OwnFacts
<1>2. \A s, S, row : ReceiptComes(p, s, S, row) => ReceiptComes(q, s, S, row)
  BY DEF SameShown, ReceiptComes
<1>3. \A row : ShowsCall(p, row) => ShowsCall(q, row)
  BY DEF SameShown, ShowsCall
<1>4. \A c, settled : ShowsTurns(p, c, settled) => ShowsTurns(q, c, settled)
  BY DEF SameShown, ShowsTurns
<1>5. \A row : ShowsGate(p, row) => ShowsGate(q, row)
  BY DEF SameShown, ShowsGate
<1>6. \A c, row : ShowsBooking(p, c, row) => ShowsBooking(q, c, row)
  BY DEF SameShown, ShowsBooking
<1>7. \A row : ShowsPayment(p, row) => ShowsPayment(q, row)
  BY DEF SameShown, ShowsPayment
<1>8. ShowsReceipt(p) => ShowsReceipt(q)
  BY DEF SameShown, ShowsReceipt
<1>9. ASSUME NEW co, NEW owes, NEW c, NEW row, NEW settled,
             Agrees(p, co, owes, c, row, settled)
      PROVE  Agrees(q, co, owes, c, row, settled)
  BY <1>3, <1>4, <1>5, <1>6, <1>7, <1>8, <1>9 DEF Agrees, UpToDate
<1> QED
  BY <1>1, <1>2, <1>9

(* What holds of the page and its reading before a step, when no mishap    *)
(* has struck by its end.                                                  *)
LEMMA BeforeStep ==
  ASSUME WebInv, FollowInv
  PROVE  /\ page \in PagesOf(Rows, Bookings) /\ CoFits(Co, Rows, Bookings)
         /\ req \in Requests(Bookings)
         /\ PageNames(page, Intents, Receipts) /\ CoNames(Co, Intents, Receipts)
         /\ ReqNames(req, Intents, Receipts, Reviews)
         /\ InPlace(sse, batch, page.callId, page.lastSequence, stream[page.callId])
         /\ sse.callId = page.callId /\ Rows \in SUBSET Call /\ Bookings \in SUBSET Call
         /\ page.callId # None => page.callId \in Rows
         /\ Guarded =>
              /\ Agrees(page, Co, Owes(sse, batch, page.lastSequence, stream[page.callId]),
                        page.callId, server[page.callId], SettledTurns(page.callId))
              /\ OwnFacts(page, page.callId, server[page.callId])
              /\ page.needsRecovery => Asked(Co)
              /\ ReceiptComes(page, sse, stream[page.callId], server[page.callId])
<1>1. page \in PagesOf(Rows, Bookings) /\ CoFits(Co, Rows, Bookings) /\ req \in Requests(Bookings)
  BY DEF WebInv, PageFits, AsksFit, SendsFit
<1>2. page.callId # None => page.callId \in Rows
  BY <1>1 DEF PagesOf, OrNone
<1>3. InPlace(sse, batch, page.callId, page.lastSequence, stream[page.callId])
  BY DEF FollowInv, ReadsInPlace
<1> QED
  BY <1>1, <1>2, <1>3, RowsAreCalls DEF FollowInv, NamesKnown, Follow, InPlace

(* A recovery is asked for, and the page shows what it showed.             *)
LEMMA AskLands ==
  ASSUME WebInv, FollowInv, NEW p \in PagesOf(Rows, Bookings), SameShown(page, p),
         p.needsRecovery = page.needsRecovery, NEW d \in Rows,
         NEW by \in {"page", "sync", "nobody"},
         sse'.callId = sse.callId, sse'.next = sse.next, batch' = batch,
         failed' = failed, foreign' = foreign, missed' = missed
  PROVE  /\ CoFits(Request(Co, p, d, NoHints, by), Rows, Bookings)
         /\ Lands(p, Request(Co, p, d, NoHints, by))
<1> DEFINE co == Request(Co, p, d, NoHints, by)
           c == page.callId
<1>1. /\ NoHints \in HintsOf(Bookings) /\ NoHints.receiptId \in OrNone(Receipts)
      /\ d \in OrNone(Rows)
  BY DEF NoHints, HintsOf, OrNone
<1>2. CoFits(co, Rows, Bookings)
  BY <1>1, BeforeStep, RequestFits
<1>3. PageNames(p, Intents, Receipts)
  BY BeforeStep, SameFollows
<1>4. CoNames(co, Intents, Receipts)
  BY <1>1, <1>3, BeforeStep, RequestNames
<1>5. \A owes, row, settled : Asked(co) /\ Agrees(p, co, owes, c, row, settled)
  BY <1>1, BeforeStep, AskedAgrees
<1>6. p.callId = c /\ p.lastSequence = page.lastSequence
  BY DEF SameShown
<1>7. InPlace(sse', batch', c, page.lastSequence, stream[c])
  BY BeforeStep DEF InPlace
<1>8. ASSUME ~failed', ~foreign', ~missed', c # None
      PROVE  /\ OwnFacts(p, c, server[c]) /\ ReceiptComes(p, sse', stream[c], server[c])
  <2>1. /\ OwnFacts(page, c, server[c]) /\ ReceiptComes(page, sse, stream[c], server[c])
    BY <1>8, BeforeStep DEF Guarded
  <2>2. /\ OwnFacts(p, c, server[c]) /\ ReceiptComes(p, sse, stream[c], server[c])
    BY <2>1, SameFollows
  <2> QED
    BY <2>2 DEF ReceiptComes
<1> HIDE DEF co, c
<1>9. Lands(p, co)
  BY <1>3, <1>4, <1>5, <1>6, <1>7, <1>8 DEF Lands
<1> QED
  BY <1>2, <1>9 DEF co

(* The client connects again, and the attempts after a call.               *)
LEMMA AsksFollow ==
  ASSUME WebInv, FollowInv, Reconnect \/ StartPostCallTranscriptSync \/ TimerFires
  PROVE  FollowInv'
<1>1. ApiStays /\ batch' = batch
      /\ failed' = failed /\ foreign' = foreign /\ missed' = missed
  BY DEF Reconnect, StartPostCallTranscriptSync, TimerFires, SyncTimerFires,
         ApiStays
<1>2. SameShown(page, page)
  BY DEF SameShown
<1>3. CASE Reconnect
  <2> DEFINE co == Request(Co, page, sse.callId, NoHints, "page")
  <2>1. sse.callId # None /\ sse' = [sse EXCEPT !.up = TRUE] /\ Dispatch(page, co, req)
    BY <1>3 DEF Reconnect
  <2>2. sse'.callId = sse.callId /\ sse'.next = sse.next
    <3>1. sse \in [callId : OrNone(Rows), next : Nat \ {0}, up : BOOLEAN]
      BY DEF WebInv, ReadsFit
    <3> QED
      BY <2>1, <3>1
  <2>3. sse.callId \in Rows
    BY <2>1, ReadFacts
  <2>4. CoFits(co, Rows, Bookings) /\ Lands(page, co)
    BY <1>1, <1>2, <2>2, <2>3, BeforeStep, AskLands
  <2> HIDE DEF co
  <2> QED
    BY <1>1, <2>1, <2>4, BeforeStep, DispatchFollows
<1>4. CASE StartPostCallTranscriptSync
  <2> DEFINE p == [page EXCEPT !.postCallTranscriptSync = "PENDING"]
             co == Request(Co, p, p.callId, NoHints, "sync")
  <2>1. page.callId # None /\ Dispatch(p, co, req) /\ sse' = sse
    BY <1>4 DEF StartPostCallTranscriptSync
  <2>2. /\ p \in PagesOf(Rows, Bookings) /\ SameShown(page, p)
        /\ p.needsRecovery = page.needsRecovery /\ p.callId = page.callId
    BY BeforeStep DEF PagesOf, SyncStatus, SameShown
  <2>3. p.callId \in Rows
    BY <2>1, <2>2, BeforeStep
  <2> HIDE DEF p
  <2>4. CoFits(co, Rows, Bookings) /\ Lands(p, co)
    BY <1>1, <2>1, <2>2, <2>3, AskLands
  <2> HIDE DEF co
  <2> QED
    BY <1>1, <2>1, <2>2, <2>4, BeforeStep, DispatchFollows
<1>5. CASE TimerFires
  <2>0. PICK n \in DOMAIN sync : SyncTimerFires(n)
    BY <1>5 DEF TimerFires
  <2> DEFINE d == sync[n].callId
             co == Request(Co, page, d, NoHints, "sync")
  <2>1. /\ sync[n].state \in {"timer", "adrift"} /\ Dispatch(page, co, req) /\ sse' = sse
    BY <2>0 DEF SyncTimerFires
  <2>2. d \in Rows
    BY <2>1 DEF WebInv, AsksFit, SyncsOf, ChainsOf
  <2> HIDE DEF d
  <2>3. CoFits(co, Rows, Bookings) /\ Lands(page, co)
    BY <1>1, <1>2, <2>1, <2>2, BeforeStep, AskLands
  <2> HIDE DEF co
  <2> QED
    BY <1>1, <2>1, <2>3, BeforeStep, DispatchFollows
<1> QED
  BY <1>3, <1>4, <1>5

(* The page changes nothing that it shows, and asks for nothing.           *)
LEMMA QuietLands ==
  ASSUME WebInv, FollowInv, NEW p \in PagesOf(Rows, Bookings), SameShown(page, p),
         p.needsRecovery = page.needsRecovery, sse' = sse, batch' = batch,
         failed => failed', foreign => foreign', missed => missed'
  PROVE  Lands(p, Co)
<1> DEFINE c == page.callId
<1>1. PageNames(p, Intents, Receipts) /\ CoNames(Co, Intents, Receipts)
  BY BeforeStep, SameFollows
<1>2. p.callId = c /\ p.lastSequence = page.lastSequence
  BY DEF SameShown
<1>3. InPlace(sse', batch', c, page.lastSequence, stream[c])
  BY BeforeStep
<1>4. ASSUME ~failed', ~foreign', ~missed', c # None
      PROVE  /\ Agrees(p, Co, Owes(sse', batch', page.lastSequence, stream[c]), c, server[c],
                       SettledTurns(c))
             /\ OwnFacts(p, c, server[c]) /\ ReceiptComes(p, sse', stream[c], server[c])
             /\ page.needsRecovery => Asked(Co)
  <2>1. /\ Agrees(page, Co, Owes(sse, batch, page.lastSequence, stream[c]), c, server[c],
                  SettledTurns(c))
        /\ OwnFacts(page, c, server[c]) /\ ReceiptComes(page, sse, stream[c], server[c])
        /\ page.needsRecovery => Asked(Co)
    BY <1>4, BeforeStep DEF Guarded
  <2> HIDE DEF c
  <2> QED
    BY <2>1, SameFollows
<1> HIDE DEF c
<1> QED
  BY <1>1, <1>2, <1>3, <1>4 DEF Lands

(* A command leaves the page.                                              *)
LEMMA SendsFollow ==
  ASSUME WebInv, FollowInv, ConfirmAgreementFromWeb \/ SimulateWalletPayment
  PROVE  FollowInv'
<1>1. /\ PaymentActionStarted(page) \in PagesOf(Rows, Bookings)
      /\ SameShown(page, PaymentActionStarted(page)) /\ SameShown(page, page)
      /\ PaymentActionStarted(page).needsRecovery = page.needsRecovery
  BY BeforeStep DEF PaymentActionStarted, PagesOf, SameShown
<1>2. \E k \in {"confirm", "verify"}, b \in Bookings, p \in PagesOf(Rows, Bookings) :
        Send(k, b, p) /\ SameShown(page, p) /\ p.needsRecovery = page.needsRecovery
  <2>1. CASE ConfirmAgreementFromWeb
    <3>1. Send("confirm", page.booking.of, page) /\ page.booking # None /\ page.booking.of # None
      BY <2>1 DEF ConfirmAgreementFromWeb
    <3>2. page.booking.of \in Bookings
      BY <3>1, BeforeStep DEF PagesOf, OrNone
    <3> QED
      BY <1>1, <3>1, <3>2, BeforeStep
  <2>2. CASE SimulateWalletPayment
    <3>1. /\ Send("verify", page.paymentIntent, PaymentActionStarted(page))
          /\ page.paymentIntent # None
      BY <2>2 DEF SimulateWalletPayment
    <3>2. page.paymentIntent \in Bookings
      BY <3>1, BeforeStep DEF PagesOf, OrNone
    <3> QED
      BY <1>1, <3>1, <3>2
  <2> QED
    BY <2>1, <2>2
<1>3. PICK k \in {"confirm", "verify"}, b \in Bookings, p \in PagesOf(Rows, Bookings) :
        Send(k, b, p) /\ SameShown(page, p) /\ p.needsRecovery = page.needsRecovery
  BY <1>2
<1> DEFINE r == [req EXCEPT ![k] = [state |-> "sent", booking |-> b]]
<1>4. /\ Dispatch(p, Co, r) /\ ApiStays /\ sse' = sse /\ batch' = batch
      /\ failed' = failed /\ foreign' = foreign /\ missed' = missed
  BY <1>3 DEF Send, ApiStays
<1>5. r \in Requests(Bookings) /\ ReqNames(r, Intents, Receipts, Reviews)
  <2>1. k \in Command /\ "confirm" \in Command /\ "create" \in Command /\ "verify" \in Command
    BY DEF Command
  <2>2. r \in Requests(Bookings)
    BY <2>1, BeforeStep DEF Requests, OrNone
  <2>3. \A l \in Command : IF l = k THEN r[l].state = "sent" ELSE r[l] = req[l]
    BY BeforeStep DEF Requests
  <2> HIDE DEF r
  <2> QED
    BY <2>1, <2>2, <2>3, BeforeStep DEF ReqNames
<1> HIDE DEF r
<1>6. Lands(p, Co)
  BY <1>3, <1>4, QuietLands
<1> QED
  BY <1>4, <1>5, <1>6, BeforeStep, DispatchFollows

(* What the reply to a command changes on the page. *)
LEMMA RepliedKeeps ==
  ASSUME NEW R, NEW B, NEW p \in PagesOf(R, B)
  PROVE  /\ \A q \in {Failed(p), PaymentStillPending(p)} :
              SameShown(p, q) /\ q.needsRecovery = p.needsRecovery
         /\ \A b \in B :
              \A q \in {BookingConfirmed(p), PaymentIntentCreated(p, b), PaymentVerified(p, b),
                        PaymentRejected(p)} :
                 /\ q.callId = p.callId /\ q.lastSequence = p.lastSequence
                 /\ q.needsRecovery = p.needsRecovery /\ q.paymentStatus = p.paymentStatus
                 /\ q.bookingId = p.bookingId
         /\ LET q == BookingConfirmed(p)
            IN  /\ q.paymentIntentId = p.paymentIntentId /\ q.receiptId = p.receiptId
                /\ q.paymentGate = "UNLOCKED"
         /\ LET q == PaymentRejected(p)
            IN  q.paymentIntentId = p.paymentIntentId /\ q.receiptId = p.receiptId
         /\ \A b \in B :
              LET q == PaymentVerified(p, b)
              IN  /\ q.paymentIntentId = p.paymentIntentId /\ q.receiptId = b
                  /\ q.paymentGate = p.paymentGate
         /\ \A b \in B :
              LET q == PaymentIntentCreated(p, b)
              IN  /\ q.paymentIntentId = b /\ q.paymentIntent = b /\ q.receiptId = p.receiptId
                  /\ q.paymentGate = p.paymentGate /\ q.callStatus = p.callStatus
                  /\ q.transcript = p.transcript /\ q.booking = p.booking
                  /\ q.receipt = p.receipt
<1>1. \A q \in {Failed(p), PaymentStillPending(p)} :
        SameShown(p, q) /\ q.needsRecovery = p.needsRecovery
  <2>1. SameShown(p, Failed(p)) /\ Failed(p).needsRecovery = p.needsRecovery
    BY DEF Failed, PagesOf, SameShown
  <2>2. /\ SameShown(p, PaymentStillPending(p))
        /\ PaymentStillPending(p).needsRecovery = p.needsRecovery
    BY DEF PaymentStillPending, PagesOf, SameShown
  <2> QED
    BY <2>1, <2>2
<1>2. /\ BookingConfirmed(p).callId = p.callId
      /\ BookingConfirmed(p).lastSequence = p.lastSequence
      /\ BookingConfirmed(p).needsRecovery = p.needsRecovery
      /\ BookingConfirmed(p).paymentStatus = p.paymentStatus
      /\ BookingConfirmed(p).bookingId = p.bookingId
      /\ BookingConfirmed(p).paymentIntentId = p.paymentIntentId
      /\ BookingConfirmed(p).receiptId = p.receiptId
      /\ BookingConfirmed(p).paymentGate = "UNLOCKED"
  <2> DEFINE booking == [of |-> IF p.booking = None THEN None ELSE p.booking.of,
                         status |-> "AGREEMENT_LOCKED"]
  <2>1. BookingConfirmed(p) = [[p EXCEPT !.booking = booking] EXCEPT !.paymentGate = "UNLOCKED"]
    BY DEF BookingConfirmed, WithStatus
  <2> HIDE DEF booking
  <2> QED
    BY <2>1 DEF PagesOf
<1>3. /\ PaymentRejected(p).callId = p.callId
      /\ PaymentRejected(p).lastSequence = p.lastSequence
      /\ PaymentRejected(p).needsRecovery = p.needsRecovery
      /\ PaymentRejected(p).paymentStatus = p.paymentStatus
      /\ PaymentRejected(p).bookingId = p.bookingId
      /\ PaymentRejected(p).paymentIntentId = p.paymentIntentId
      /\ PaymentRejected(p).receiptId = p.receiptId
  <2> DEFINE booking == IF p.booking = None THEN None
                        ELSE [p.booking EXCEPT !.status = "MANUAL_REVIEW_REQUIRED"]
  <2>1. PaymentRejected(p)
          = [[p EXCEPT !.paymentActionPending = FALSE, !.showPaymentDrawer = FALSE,
                       !.paymentGate = "MANUAL_REVIEW_REQUIRED", !.booking = booking]
               EXCEPT !.error = TRUE]
    BY DEF PaymentRejected, ToManualReview
  <2> HIDE DEF booking
  <2> QED
    BY <2>1 DEF PagesOf
<1>4. ASSUME NEW b \in B
      PROVE  LET q == PaymentVerified(p, b)
             IN  /\ q.callId = p.callId /\ q.lastSequence = p.lastSequence
                 /\ q.needsRecovery = p.needsRecovery /\ q.paymentStatus = p.paymentStatus
                 /\ q.bookingId = p.bookingId
                 /\ q.paymentIntentId = p.paymentIntentId /\ q.receiptId = b
                 /\ q.paymentGate = p.paymentGate
  BY DEF PaymentVerified, PagesOf
<1>5. ASSUME NEW b \in B
      PROVE  LET q == PaymentIntentCreated(p, b)
             IN  /\ q.callId = p.callId /\ q.lastSequence = p.lastSequence
                 /\ q.needsRecovery = p.needsRecovery /\ q.paymentStatus = p.paymentStatus
                 /\ q.bookingId = p.bookingId
                 /\ q.paymentIntentId = b /\ q.paymentIntent = b /\ q.receiptId = p.receiptId
                 /\ q.paymentGate = p.paymentGate /\ q.callStatus = p.callStatus
                 /\ q.transcript = p.transcript /\ q.booking = p.booking
                 /\ q.receipt = p.receipt
  BY DEF PaymentIntentCreated, PagesOf
<1> QED
  BY <1>1, <1>2, <1>3, <1>4, <1>5

(* A reply that makes the page ask for a recovery. *)
LEMMA AskingReply ==
  ASSUME WebInv, FollowInv, ApiStays, NEW b \in Bookings,
         NEW p \in PagesOf(Rows, Bookings), NEW hints \in HintsOf(Bookings),
         NEW by \in {"page", "nobody"}, NEW r \in Requests(Bookings),
         Dispatch(p, Request(Co, page, page.callId, hints, by), r),
         ReqNames(r, Intents, Receipts, Reviews),
         p.callId = page.callId, p.lastSequence = page.lastSequence,
         p.needsRecovery = page.needsRecovery, p.paymentStatus = page.paymentStatus,
         p.bookingId = page.bookingId, p.paymentIntentId = page.paymentIntentId,
         hints.receiptId \in OrNone(Receipts),
         \/ p.receiptId = page.receiptId
         \/ p.receiptId = b /\ hints.receiptId = b /\ b \in Receipts,
         p.paymentGate = "MANUAL_REVIEW_REQUIRED" =>
           p.paymentGate = page.paymentGate \/ b \in Reviews,
         sse' = sse, batch' = batch, failed' = failed, missed' = missed,
         foreign' = (foreign \/ page.callId # b)
  PROVE  FollowInv'
<1> DEFINE c == page.callId
           co == Request(Co, page, c, hints, by)
<1>1. CoFits(co, Rows, Bookings) /\ CoNames(co, Intents, Receipts)
  <2>1. c \in OrNone(Rows) /\ by \in {"page", "sync", "nobody"}
    BY BeforeStep DEF OrNone
  <2> QED
    BY <2>1, BeforeStep, RequestFits, RequestNames
<1>2. PageNames(p, Intents, Receipts)
  BY BeforeStep DEF PageNames, OrNone
<1>3. b # None /\ b \in Call
  BY RowsAreCalls, NoneAssumption
<1>4. ASSUME ~failed', ~foreign', ~missed', c # None
      PROVE  /\ \A owes, row, settled : Asked(co) /\ Agrees(p, co, owes, c, row, settled)
             /\ OwnFacts(p, c, server[c]) /\ ReceiptComes(p, sse', stream[c], server[c])
  <2>1. c = b /\ Guarded
    BY <1>4 DEF Guarded
  <2>2. OwnFacts(page, c, server[c]) /\ ReceiptComes(page, sse, stream[c], server[c])
    BY <2>1, BeforeStep
  <2>3. b \in Reviews => server[c].stage = "MANUAL_REVIEW_REQUIRED"
    BY <2>1 DEF Reviews, At
  <2>4. OwnFacts(p, c, server[c])
    BY <2>1, <2>2, <2>3 DEF OwnFacts
  <2>5. ReceiptComes(p, sse', stream[c], server[c])
    BY <1>3, <2>2 DEF ReceiptComes
  <2>6. c \in Rows /\ (p.receiptId # None => hints.receiptId # None \/ page.receiptId # None)
    BY <1>3, <1>4, BeforeStep
  <2>7. \A owes, row, settled : Asked(co) /\ Agrees(p, co, owes, c, row, settled)
    <3> HIDE DEF c
    <3> QED
      BY <2>6, BeforeStep, AskedAgrees
  <2> QED
    BY <2>4, <2>5, <2>7
<1>5. InPlace(sse', batch', c, page.lastSequence, stream[c])
  BY BeforeStep
<1> HIDE DEF c, co
<1>6. Lands(p, co)
  BY <1>1, <1>2, <1>4, <1>5 DEF Lands, c
<1> QED
  BY <1>1, <1>6, DispatchFollows DEF co, c

(* A reply arrives.                                                        *)
LEMMA RepliesFollow ==
  ASSUME WebInv, FollowInv, NEW k \in Command, ReplyArrives(k)
  PROVE  FollowInv'
<1> DEFINE r == req[k]
           b == r.booking
           p == Replied(k, r)
           by == IF r.state = "rejected" THEN "nobody" ELSE "page"
           hints == ReplyHints(k, b, r.state)
           co == IF AsksAfter(k, r.state) THEN Request(Co, page, page.callId, hints, by) ELSE Co
           rest == [req EXCEPT ![k] = Idle]
           c == page.callId
<1>1. /\ Dispatch(p, co, rest) /\ ApiStays /\ sse' = sse /\ batch' = batch
      /\ failed' = failed /\ missed' = missed /\ foreign' = (foreign \/ c # b)
      /\ r.state \notin {"idle", "sent"}
  BY DEF ReplyArrives, ApiStays
<1>2. /\ b \in Bookings /\ r.state \in {"lost", "ok", "rejected", "pending", "refused"}
  <2>1. req \in Requests(Bookings)
    BY BeforeStep
  <2> QED
    BY <1>1, <2>1 DEF Requests, Outcome
<1>3. ReqNames(req, Intents, Receipts, Reviews)
  BY BeforeStep
<1>4. rest \in Requests(Bookings) /\ ReqNames(rest, Intents, Receipts, Reviews)
  <2>1. req \in Requests(Bookings)
    BY BeforeStep
  <2>2. rest \in Requests(Bookings)
    BY <2>1 DEF Requests, Idle, OrNone
  <2>3. \A l \in Command : IF l = k THEN rest[l] = Idle ELSE rest[l] = req[l]
    BY <2>1 DEF Requests
  <2>4. "confirm" \in Command /\ "create" \in Command /\ "verify" \in Command
    BY DEF Command
  <2> HIDE DEF rest
  <2> QED
    BY <1>3, <2>2, <2>3, <2>4 DEF ReqNames, Idle
<1>5. page \in PagesOf(Rows, Bookings)
  BY BeforeStep
<1>6. k \in {"confirm", "create", "verify"}
  BY DEF Command
<1>7. hints \in HintsOf(Bookings) /\ by \in {"page", "nobody"}
      /\ hints.receiptId = IF k = "verify" /\ r.state = "ok" THEN b ELSE None
  BY <1>2 DEF ReplyHints, HintsOf, OrNone
<1> HIDE DEF rest, hints, by
<1>8. CASE r.state \in {"refused", "lost"} \/ (k = "verify" /\ r.state = "pending")
  <2>1. p \in {Failed(page), PaymentStillPending(page)} /\ co = Co
    BY <1>8 DEF Replied, AsksAfter
  <2>2. /\ p \in PagesOf(Rows, Bookings) /\ SameShown(page, p)
        /\ p.needsRecovery = page.needsRecovery
    <3>1. Failed(page) \in PagesOf(Rows, Bookings)
          /\ PaymentStillPending(page) \in PagesOf(Rows, Bookings)
      BY <1>5, RepliedPages
    <3>2. \A q \in {Failed(page), PaymentStillPending(page)} :
            SameShown(page, q) /\ q.needsRecovery = page.needsRecovery
      BY <1>5, RepliedKeeps
    <3> HIDE DEF p
    <3> QED
      BY <2>1, <3>1, <3>2
  <2> HIDE DEF p, co
  <2>3. Lands(p, Co)
    BY <1>1, <2>2, QuietLands
  <2> QED
    BY <1>1, <1>4, <2>1, <2>2, <2>3, BeforeStep, DispatchFollows
<1>9. CASE k = "create" /\ r.state = "ok"
  <2>1. p = PaymentIntentCreated(page, b) /\ co = Co
    BY <1>9 DEF Replied, AsksAfter
  <2>2. p \in PagesOf(Rows, Bookings)
    BY <1>2, <1>5, <2>1, RepliedPages
  <2>3. /\ p.callId = c /\ p.lastSequence = page.lastSequence
        /\ p.needsRecovery = page.needsRecovery /\ p.paymentStatus = page.paymentStatus
        /\ p.bookingId = page.bookingId
        /\ p.paymentIntentId = b /\ p.paymentIntent = b /\ p.receiptId = page.receiptId
        /\ p.paymentGate = page.paymentGate /\ p.callStatus = page.callStatus
        /\ p.transcript = page.transcript /\ p.booking = page.booking
        /\ p.receipt = page.receipt
    BY <1>2, <1>5, <2>1, RepliedKeeps
  <2>4. b \in Intents /\ b # None
    <3>1. r.booking \in Intents
      BY <1>3, <1>9 DEF ReqNames
    <3> QED
      BY <1>2, <3>1, RowsAreCalls, NoneAssumption
  <2>5. PageNames(p, Intents, Receipts)
    BY <2>3, <2>4, BeforeStep DEF PageNames, OrNone
  <2> HIDE DEF p, b
  <2>6. ASSUME ~failed', ~foreign', ~missed', c # None
        PROVE  /\ \A owes : Agrees(page, Co, owes, c, server[c], SettledTurns(c))
                    => Agrees(p, Co, owes, c, server[c], SettledTurns(c))
               /\ Guarded
               /\ OwnFacts(p, c, server[c]) /\ ReceiptComes(p, sse', stream[c], server[c])
    <3>1. c = b /\ Guarded
      BY <1>1, <2>6 DEF Guarded
    <3>2. OwnFacts(page, c, server[c]) /\ ReceiptComes(page, sse, stream[c], server[c])
      BY <3>1, BeforeStep
    <3>3. OwnFacts(p, c, server[c]) /\ ReceiptComes(p, sse', stream[c], server[c])
      BY <1>1, <2>3, <2>4, <3>1, <3>2 DEF OwnFacts, ReceiptComes
    <3>4. ASSUME NEW run, UpToDate(page, run, c, server[c], SettledTurns(c))
          PROVE  UpToDate(p, run, c, server[c], SettledTurns(c))
      <4>1. /\ ShowsCall(page, server[c]) => ShowsCall(p, server[c])
            /\ ShowsTurns(page, c, SettledTurns(c)) => ShowsTurns(p, c, SettledTurns(c))
            /\ ShowsGate(page, server[c]) => ShowsGate(p, server[c])
            /\ ShowsBooking(page, c, server[c]) => ShowsBooking(p, c, server[c])
            /\ ShowsReceipt(page) => ShowsReceipt(p)
        BY <2>3 DEF ShowsCall, ShowsTurns, ShowsGate, ShowsBooking, ShowsReceipt
      <4>2. ShowsPayment(page, server[c]) => ShowsPayment(p, server[c])
        BY <2>3, <3>1, <3>2 DEF ShowsPayment, OwnFacts
      <4> QED
        BY <3>4, <4>1, <4>2 DEF UpToDate
    <3> QED
      BY <3>1, <3>3, <3>4 DEF Agrees
  <2>7. InPlace(sse', batch', c, page.lastSequence, stream[c])
    BY <1>1, BeforeStep
  <2>8. Lands(p, Co)
    BY <1>1, <2>3, <2>5, <2>6, <2>7, BeforeStep DEF Lands
  <2> HIDE DEF co
  <2> QED
    BY <1>1, <1>4, <2>1, <2>2, <2>8, BeforeStep, DispatchFollows
<1>10. CASE \/ k = "confirm" /\ r.state = "ok"
            \/ k = "verify" /\ r.state \in {"ok", "rejected"}
  <2>1. /\ co = Request(Co, page, c, hints, by)
        /\ p = IF k = "confirm" THEN BookingConfirmed(page)
               ELSE IF r.state = "ok" THEN PaymentVerified(page, b) ELSE PaymentRejected(page)
    BY <1>10 DEF Replied, AsksAfter
  <2>2. p \in PagesOf(Rows, Bookings)
    BY <1>2, <1>5, <2>1, RepliedPages
  <2>3. /\ p.callId = c /\ p.lastSequence = page.lastSequence
        /\ p.needsRecovery = page.needsRecovery /\ p.paymentStatus = page.paymentStatus
        /\ p.bookingId = page.bookingId /\ p.paymentIntentId = page.paymentIntentId
    <3>1. p \in {BookingConfirmed(page), PaymentIntentCreated(page, b), PaymentVerified(page, b),
                 PaymentRejected(page)}
      BY <2>1
    <3>2. p.paymentIntentId = page.paymentIntentId
      BY <1>2, <1>5, <2>1, RepliedKeeps
    <3> HIDE DEF p, b
    <3> QED
      BY <1>2, <1>5, <3>1, <3>2, RepliedKeeps
  <2>4. \/ p.receiptId = page.receiptId
        \/ p.receiptId = b /\ hints.receiptId = b /\ b \in Receipts
    <3>1. CASE k = "verify" /\ r.state = "ok"
      <4>1. p = PaymentVerified(page, b)
        BY <2>1, <3>1
      <4>2. p.receiptId = b
        BY <1>2, <1>5, <4>1, RepliedKeeps
      <4> QED
        BY <1>3, <1>7, <3>1, <4>2 DEF ReqNames
    <3>2. CASE ~(k = "verify" /\ r.state = "ok")
      <4>1. p \in {BookingConfirmed(page), PaymentRejected(page)}
        BY <1>10, <2>1, <3>2
      <4> QED
        BY <1>5, <4>1, RepliedKeeps
    <3> QED
      BY <3>1, <3>2
  <2>5. p.paymentGate = "MANUAL_REVIEW_REQUIRED" =>
          p.paymentGate = page.paymentGate \/ b \in Reviews
    <3>1. CASE k = "verify" /\ r.state = "rejected"
      BY <1>3, <3>1 DEF ReqNames
    <3>2. CASE ~(k = "verify" /\ r.state = "rejected")
      <4>1. p \in {BookingConfirmed(page), PaymentVerified(page, b)}
        BY <1>10, <2>1, <3>2
      <4> QED
        BY <1>2, <1>5, <4>1, RepliedKeeps
    <3> QED
      BY <3>1, <3>2
  <2>6. hints.receiptId \in OrNone(Receipts)
    BY <1>3, <1>7 DEF ReqNames, OrNone
  <2> HIDE DEF p, co, b
  <2>7. Dispatch(p, Request(Co, page, page.callId, hints, by), rest)
    BY <1>1, <2>1
  <2> HIDE DEF c
  <2> QED
    BY <1>1, <1>2, <1>4, <1>7, <2>2, <2>3, <2>4, <2>5, <2>6, <2>7, AskingReply DEF c
<1> QED
  BY <1>2, <1>3, <1>6, <1>8, <1>9, <1>10 DEF ReqNames
-----------------------------------------------------------------------------
(***************************************************************************)
(* Events arrive.                                                          *)
(***************************************************************************)
(* What the page reads, and what it has read. *)
LEMMA ReadingFacts ==
  ASSUME WebInv, FollowInv, sse.callId # None
  PROVE  /\ page.callId = sse.callId /\ sse.callId \in Rows /\ sse.callId \in Call
         /\ sse.next \in Nat \ {0} /\ sse.next <= Len(stream[sse.callId]) + 1
         /\ stream[sse.callId] \in Seq(EventsOf(Bookings)) /\ Len(stream[sse.callId]) \in Nat
         /\ batch \in Seq(1 .. sse.next - 1) /\ Len(batch) \in Nat
         /\ batch \in Seq(1 .. Len(stream[sse.callId]))
         /\ page.lastSequence \in Nat /\ page.lastSequence < sse.next
         /\ Rises(batch, page.lastSequence)
         /\ \A n \in 1 .. Len(batch) : ~Asks(stream[sse.callId][batch[n]])
         /\ page.lastSequence = 0 => IF batch = <<>> THEN sse.next = 1 ELSE batch[1] = 1
         /\ StreamAgrees(stream[sse.callId], sse.callId, server[sse.callId])
         /\ server[sse.callId].stage \in PaidStage => sse.callId \in Intents
         /\ server[sse.callId].stage = "RECEIPT_ISSUED" => sse.callId \in Receipts
<1> DEFINE c == sse.callId
<1>1. /\ page.callId = c /\ c \in Rows /\ c \in Call /\ c # None
      /\ sse.next \in Nat \ {0} /\ sse.next <= Len(stream[c]) + 1
      /\ stream[c] \in Seq(EventsOf(Bookings)) /\ Len(stream[c]) \in Nat
      /\ batch \in Seq(1 .. sse.next - 1) /\ Len(batch) \in Nat
  BY BeforeStep, ReadFacts, LenProperties
<1>2. batch \in Seq(1 .. Len(stream[c]))
  <2>1. sse.next - 1 \in Nat /\ sse.next - 1 <= Len(stream[c])
    BY <1>1
  <2> HIDE DEF c
  <2> QED
    BY <1>1, <2>1, BatchWithin
<1>3. page.lastSequence \in Nat
  BY BeforeStep DEF PagesOf
<1>4. InPlace(sse, batch, c, page.lastSequence, stream[c])
  BY <1>1, BeforeStep
<1>5. StreamAgrees(stream[c], c, server[c])
  BY <1>1 DEF FollowInv, StreamsAgree, Rows
<1>6. /\ server[c].stage \in PaidStage => c \in Intents
      /\ server[c].stage = "RECEIPT_ISSUED" => c \in Receipts
  BY <1>1 DEF Intents, Receipts, At, Rows
<1> HIDE DEF c
<1>7. /\ page.lastSequence < sse.next /\ Rises(batch, page.lastSequence)
      /\ \A n \in 1 .. Len(batch) : ~Asks(stream[c][batch[n]])
      /\ page.lastSequence = 0 => IF batch = <<>> THEN sse.next = 1 ELSE batch[1] = 1
  BY <1>1, <1>4 DEF InPlace, Rises
<1> QED
  BY <1>1, <1>2, <1>3, <1>5, <1>6, <1>7 DEF c

(* The batch with the event received. *)
LEMMA FilledFacts ==
  ASSUME WebInv, FollowInv, Receive
  PROVE  LET filled == Append(batch, sse.next)
         IN  /\ sse.callId # None /\ sse.up /\ sse.next <= Len(stream[sse.callId])
             /\ sse'.callId = sse.callId /\ sse'.next = sse.next + 1 /\ sse'.up = sse.up
             /\ filled \in Seq(1 .. Len(stream[sse.callId])) /\ Len(filled) = Len(batch) + 1
             /\ \A n \in 1 .. Len(batch) : filled[n] = batch[n]
             /\ filled[Len(batch) + 1] = sse.next
             /\ Rises(filled, page.lastSequence)
             /\ page.lastSequence = 0 => filled[1] = 1
<1> DEFINE filled == Append(batch, sse.next)
           S == stream[sse.callId]
           N == Len(batch)
<1>1. /\ sse.callId # None /\ sse.up /\ sse.next <= Len(S) /\ sse' = [sse EXCEPT !.next = @ + 1]
  BY DEF Receive, Awaits
<1>2. sse'.callId = sse.callId /\ sse'.next = sse.next + 1 /\ sse'.up = sse.up
  <2>1. sse \in [callId : OrNone(Rows), next : Nat \ {0}, up : BOOLEAN]
    BY DEF WebInv, ReadsFit
  <2> QED
    BY <1>1, <2>1
<1>3. /\ sse.next \in Nat \ {0} /\ batch \in Seq(1 .. sse.next - 1) /\ N \in Nat
      /\ batch \in Seq(1 .. Len(S)) /\ Len(S) \in Nat /\ page.lastSequence \in Nat
      /\ page.lastSequence < sse.next /\ Rises(batch, page.lastSequence)
      /\ page.lastSequence = 0 => IF batch = <<>> THEN sse.next = 1 ELSE batch[1] = 1
  BY <1>1, ReadingFacts
<1>4. sse.next \in 1 .. Len(S)
  BY <1>1, <1>3
<1>5. /\ filled \in Seq(1 .. Len(S)) /\ Len(filled) = N + 1
      /\ \A n \in 1 .. N : filled[n] = batch[n]
      /\ filled[N + 1] = sse.next
  <2> HIDE DEF S
  <2> QED
    BY <1>3, <1>4, AppendProperties
<1> HIDE DEF filled
<1>6. \A n \in 1 .. N : batch[n] < sse.next
  <2>1. \A n \in 1 .. N : batch[n] \in 1 .. sse.next - 1
    BY <1>3
  <2> QED
    BY <1>3, <2>1
<1> HIDE DEF S, N
<1>7. Rises(filled, page.lastSequence)
  <2>1. \A n \in 1 .. N + 1 : n \in 1 .. N \/ n = N + 1
    BY <1>3
  <2>2. \A n \in 1 .. N + 1 : filled[n] > page.lastSequence
    BY <1>3, <1>5, <2>1 DEF Rises, N
  <2>3. ASSUME NEW n \in 1 .. N + 1, NEW m \in 1 .. N + 1, n < m
        PROVE  filled[n] < filled[m]
    <3>1. n \in 1 .. N
      BY <1>3, <2>3
    <3>2. CASE m \in 1 .. N
      BY <1>3, <1>5, <2>3, <3>1, <3>2 DEF Rises, N
    <3>3. CASE m = N + 1
      BY <1>5, <1>6, <3>1, <3>3
    <3> QED
      BY <2>1, <3>2, <3>3
  <2> QED
    BY <1>5, <2>2, <2>3 DEF Rises
<1>8. page.lastSequence = 0 => filled[1] = 1
  <2>1. CASE batch = <<>>
    <3>1. N = 0
      BY <2>1 DEF N
    <3> QED
      BY <1>3, <1>5, <2>1, <3>1
  <2>2. CASE batch # <<>>
    <3>1. 1 \in 1 .. N
      BY <1>3, <2>2, EmptySeq DEF N
    <3> QED
      BY <1>3, <1>5, <2>2, <3>1
  <2> QED
    BY <2>1, <2>2
<1> QED
  BY <1>1, <1>2, <1>5, <1>7, <1>8 DEF filled, S, N

(* An event joins the batch.                                               *)
LEMMA JoinsFollow ==
  ASSUME WebInv, FollowInv, Receive, ~Asks(stream[sse.callId][sse.next])
  PROVE  FollowInv'
<1> DEFINE c == page.callId
           S == stream[c]
           last == page.lastSequence
           filled == Append(batch, sse.next)
<1>1. /\ ApiStays /\ UNCHANGED <<page, storage>>
      /\ batch' = filled /\ active' = active /\ queued' = queued /\ req' = req
      /\ failed' = failed /\ foreign' = foreign /\ missed' = missed
  BY DEF Receive, Asks, ApiStays
<1>2. /\ sse.callId # None /\ sse.up /\ sse.next <= Len(S)
      /\ sse'.callId = c /\ sse'.next = sse.next + 1 /\ sse'.up = sse.up
      /\ Len(filled) = Len(batch) + 1
      /\ \A n \in 1 .. Len(batch) : filled[n] = batch[n]
      /\ filled[Len(batch) + 1] = sse.next
      /\ Rises(filled, last) /\ (last = 0 => filled[1] = 1)
  BY BeforeStep, FilledFacts
<1>3. /\ sse.callId = c /\ sse.next \in Nat \ {0} /\ Len(batch) \in Nat
      /\ last \in Nat /\ last < sse.next /\ Len(S) \in Nat
      /\ \A n \in 1 .. Len(batch) : ~Asks(S[batch[n]])
  BY <1>2, ReadingFacts
<1>4. ~Asks(S[sse.next])
  BY <1>3
<1> HIDE DEF filled
<1>5. \A n \in 1 .. Len(filled) : n \in 1 .. Len(batch) \/ n = Len(batch) + 1
  BY <1>2, <1>3
<1>6. InPlace(sse', batch', c, last, S)
  <2>1. \A n \in 1 .. Len(filled) : ~Asks(S[filled[n]])
    BY <1>2, <1>3, <1>4, <1>5
  <2>2. filled # <<>> /\ last < sse.next + 1
    BY <1>2, <1>3
  <2> HIDE DEF c, S, last
  <2> QED
    BY <1>1, <1>2, <2>1, <2>2 DEF InPlace, Rises
<1>7. Owes(sse, batch, last, S) => Owes(sse', batch', last, S)
  <2>1. Unnoticed(sse, batch, last) => Unnoticed(sse', batch', last)
    <3> SUFFICES ASSUME Unnoticed(sse, batch, last) PROVE Unnoticed(sse', batch', last)
      OBVIOUS
    <3>1. PICK m \in last + 1 .. sse.next - 1 : \A n \in 1 .. Len(batch) : batch[n] # m
      BY DEF Unnoticed
    <3>2. m \in last + 1 .. sse'.next - 1 /\ m # sse.next
      BY <1>2, <1>3, <3>1
    <3>3. \A n \in 1 .. Len(filled) : filled[n] # m
      BY <1>2, <1>5, <3>1, <3>2
    <3> QED
      BY <1>1, <3>2, <3>3 DEF Unnoticed
  <2>2. Ahead(sse, S) => Ahead(sse', S)
    <3>1. \A n \in sse.next .. Len(S) : n = sse.next \/ n \in sse'.next .. Len(S)
      BY <1>2, <1>3
    <3> QED
      BY <1>4, <3>1 DEF Ahead
  <2> QED
    BY <1>2, <2>1, <2>2 DEF Owes
<1>8. ASSUME ~failed', ~foreign', ~missed', c # None
      PROVE  /\ Follow(page, Co, sse, batch, c)
             /\ ReceiptComes(page, sse', S, server[c])
  <2>1. Follow(page, Co, sse, batch, c)
    BY <1>1, <1>8 DEF FollowInv, Guarded
  <2>2. ReceiptComes(page, sse, S, server[c])
    BY <2>1 DEF Follow
  <2>3. S[sse.next].event # "receipt.verified"
    BY <1>4 DEF Asks, RecoveryEvent
  <2>4. \A n \in sse.next .. Len(S) : n = sse.next \/ n \in sse'.next .. Len(S)
    BY <1>2, <1>3
  <2> HIDE DEF S
  <2>5. ReceiptComes(page, sse', S, server[c])
    BY <2>2, <2>3, <2>4 DEF ReceiptComes
  <2> QED
    BY <2>1, <2>5
<1>9. Lands(page, [active |-> active', queued |-> queued'])
  <2>1. [active |-> active', queued |-> queued'] = Co
    BY <1>1 DEF Co
  <2>2. PageNames(page, Intents, Receipts) /\ CoNames(Co, Intents, Receipts)
    BY BeforeStep
  <2>3. ASSUME ~failed', ~foreign', ~missed', c # None
        PROVE  Agrees(page, Co, Owes(sse', batch', last, S), c, server[c], SettledTurns(c))
    BY <1>7, <1>8, <2>3 DEF Agrees, Follow
  <2>4. Lands(page, Co)
    BY <1>6, <1>8, <2>2, <2>3 DEF Lands, Follow
  <2> QED
    BY <2>1, <2>4
<1> QED
  BY <1>1, <1>9, BeforeStep, RestFollows

(* An event that asks for a recovery arrives: the batch is applied, and a  *)
(* recovery reads what it changed.                                         *)
LEMMA AskingEventFollows ==
  ASSUME WebInv, FollowInv, Receive, Asks(stream[sse.callId][sse.next])
  PROVE  FollowInv'
<1> DEFINE c == sse.callId
           S == stream[c]
           e == S[sse.next]
           N == Len(batch)
           filled == Append(batch, sse.next)
           p == ApplyServerEvents(page, c, S, filled)
           co == Request(Co, page, c, Hints(e), "page")
<1>1. /\ batch' = <<>> /\ Dispatch(p, co, req) /\ ApiStays
      /\ failed' = failed /\ foreign' = foreign /\ missed' = missed
  BY DEF Receive, Asks, ApiStays
<1>2. /\ c # None /\ sse.up /\ sse.next <= Len(S)
      /\ sse'.callId = c /\ sse'.next = sse.next + 1
      /\ filled \in Seq(1 .. Len(S)) /\ Len(filled) = N + 1
      /\ \A n \in 1 .. N : filled[n] = batch[n]
      /\ filled[N + 1] = sse.next
      /\ Rises(filled, page.lastSequence)
  BY FilledFacts
<1>3. /\ page.callId = c /\ c \in Rows /\ sse.next \in Nat \ {0} /\ N \in Nat
      /\ S \in Seq(EventsOf(Bookings)) /\ Len(S) \in Nat
      /\ \A n \in 1 .. N : ~Asks(S[batch[n]])
      /\ StreamAgrees(S, c, server[c])
      /\ server[c].stage \in PaidStage => c \in Intents
      /\ server[c].stage = "RECEIPT_ISSUED" => c \in Receipts
  BY <1>2, ReadingFacts
<1>4. page \in PagesOf(Rows, Bookings) /\ Rows \in SUBSET Call
  BY BeforeStep
<1>5. e \in EventsOf(Bookings) /\ EventAgrees(e, c, server[c]) /\ sse.next \in 1 .. Len(S)
  <2>1. sse.next \in 1 .. Len(S)
    BY <1>2, <1>3
  <2>2. \A n \in 1 .. Len(S) : S[n] \in EventsOf(Bookings) /\ EventAgrees(S[n], c, server[c])
    BY <1>3 DEF StreamAgrees
  <2> QED
    BY <2>1, <2>2
<1> HIDE DEF filled, N, e
<1>6. \E f : /\ Follows(f, page, c, S, filled)
             /\ \A n \in 0 .. Len(filled) : f[n] \in PagesOf(Rows, Bookings)
             /\ p = f[Len(filled)]
  <2>1. filled \in Seq(1 .. Len(S)) /\ S \in Seq(EventsOf(Bookings)) /\ c \in Rows
    BY <1>2, <1>3
  <2> HIDE DEF c, S
  <2>2. BatchEnds(page, c, S, filled, Rows, Bookings)
    BY <1>4, <2>1, BatchValue
  <2> QED
    BY <2>2 DEF BatchEnds
<1>7. PICK f : /\ Follows(f, page, c, S, filled)
               /\ \A n \in 0 .. Len(filled) : f[n] \in PagesOf(Rows, Bookings)
               /\ p = f[Len(filled)]
  BY <1>6
<1> HIDE DEF p, c, S
<1>8. N + 1 \in 0 .. Len(filled) /\ N \in 0 .. Len(filled) /\ N + 1 \in 1 .. Len(filled)
      /\ N + 1 # 0 /\ (N + 1) - 1 = N
  BY <1>2, <1>3
<1>9. /\ p \in PagesOf(Rows, Bookings) /\ p.callId = c /\ p.lastSequence = sse.next
      /\ PageNames(page, Intents, Receipts) => PageNames(p, Intents, Receipts)
      /\ OwnFacts(page, c, server[c]) => OwnFacts(p, c, server[c])
      /\ page.receiptId # None => p.receiptId # None
  <2>1. BatchKept(f, page, c, filled, server[c], Intents, Receipts)
    BY <1>2, <1>3, <1>4, <1>7, BatchKeeps
  <2> QED
    BY <1>2, <1>3, <1>7, <1>8, <2>1 DEF BatchKept
<1>10. OnlyTold(page, f[N], FirstOf(S, filled, N))
  <2>1. \A n \in 1 .. N : ~Asks(S[filled[n]])
    BY <1>2, <1>3
  <2> QED
    BY <1>2, <1>3, <1>4, <1>7, <1>8, <2>1, BatchTells
<1>11. EventKeeps(f[N], e, sse.next, p)
  <2>1. p = ApplyServerEvent(f[N], c, e, sse.next)
    BY <1>2, <1>7, <1>8 DEF Follows, e
  <2>2. f[N] \in PagesOf(Rows, Bookings) /\ sse.next \in Nat
    BY <1>3, <1>7, <1>8
  <2> QED
    BY <1>3, <1>4, <1>5, <2>1, <2>2, EventsKeep
<1>12. /\ f[N].paymentIntentId = page.paymentIntentId /\ f[N].receiptId = page.receiptId
  BY <1>10 DEF OnlyTold
<1>13. /\ p.paymentIntentId # None =>
            Hints(e).paymentIntentId # None \/ page.paymentIntentId # None
       /\ p.receiptId # None => Hints(e).receiptId # None \/ page.receiptId # None
  BY <1>11, <1>12 DEF EventKeeps, Hints
<1>14. Hints(e) \in HintsOf(Bookings) /\ Hints(e).receiptId \in OrNone(Receipts)
  BY <1>3, <1>5, EventHints DEF Hints, EventAgrees, OrNone
<1>15. c \in OrNone(Rows) /\ "page" \in {"page", "sync", "nobody"} /\ c # None
  BY <1>2, <1>3 DEF OrNone
<1>16. CoFits(co, Rows, Bookings) /\ CoNames(co, Intents, Receipts)
  BY <1>14, <1>15, BeforeStep, RequestFits, RequestNames
<1>17. \A owes, row, settled : Asked(co) /\ Agrees(p, co, owes, c, row, settled)
  BY <1>3, <1>13, <1>14, BeforeStep, AskedAgrees
<1> HIDE DEF co
<1>18. InPlace(sse', batch', c, p.lastSequence, S)
  <2>1. Len(batch') = 0 /\ p.lastSequence # 0 /\ p.lastSequence < sse'.next
    BY <1>1, <1>2, <1>3, <1>9
  <2>2. 1 .. Len(batch') = {}
    BY <2>1
  <2> QED
    BY <1>2, <2>1, <2>2 DEF InPlace
<1>19. ASSUME ~failed', ~foreign', ~missed'
       PROVE  OwnFacts(p, c, server[c]) /\ ReceiptComes(p, sse', S, server[c])
  <2>1. OwnFacts(page, c, server[c]) /\ ReceiptComes(page, sse, S, server[c])
    BY <1>1, <1>3, <1>15, <1>19, BeforeStep DEF Guarded, S
  <2>2. \A n \in sse.next .. Len(S) : n = sse.next \/ n \in sse'.next .. Len(S)
    BY <1>2, <1>3
  <2>3. S[sse.next].event = "receipt.verified" => p.receiptId # None
    <3>1. e = S[sse.next]
      BY DEF e, S
    <3>2. e.event = "receipt.verified" => e.bookingId = c
      BY <1>5 DEF EventAgrees
    <3> QED
      BY <1>11, <1>15, <3>1, <3>2 DEF EventKeeps
  <2>4. ReceiptComes(p, sse', S, server[c])
    BY <1>9, <2>1, <2>2, <2>3 DEF ReceiptComes
  <2> QED
    BY <1>9, <2>1, <2>4
<1>20. Lands(p, co)
  BY <1>9, <1>16, <1>17, <1>18, <1>19, BeforeStep DEF Lands, S
<1>21. Dispatch(p, co, req)
  BY <1>1 DEF co, p, c, S, e, filled
<1> QED
  BY <1>1, <1>9, <1>16, <1>20, <1>21, BeforeStep, DispatchFollows

(* A batch without a gap is every event after the last one applied.        *)
LEMMA NoGapNoneMissing ==
  ASSUME NEW b, Len(b) \in Nat, b # <<>>, NEW p, p.lastSequence \in Nat, NEW N \in Nat,
         b \in Seq(1 .. N), Rises(b, p.lastSequence), ~Gap(p, b),
         p.lastSequence = 0 => b[1] = 1
  PROVE  \A m \in p.lastSequence + 1 .. b[Len(b)] : \E n \in 1 .. Len(b) : b[n] = m
<1> SUFFICES ASSUME NEW m \in p.lastSequence + 1 .. b[Len(b)]
             PROVE  \E n \in 1 .. Len(b) : b[n] = m
  OBVIOUS
<1> DEFINE From == {n \in 1 .. Len(b) : b[n] >= m}
<1>1. \A n \in 1 .. Len(b) : b[n] \in Nat /\ b[n] > p.lastSequence
  BY DEF Rises
<1>2. Len(b) \in 1 .. Len(b)
  BY EmptySeq
<1>3. From \in SUBSET Nat /\ From # {}
  BY <1>1, <1>2
<1>4. PICK n \in From : \A k \in From : n <= k
  BY <1>3, LeastNumber
<1>5. n \in 1 .. Len(b) /\ b[n] >= m /\ DOMAIN b = 1 .. Len(b)
  BY <1>4
<1>6. CASE n = 1
  <2>1. p.lastSequence = 0 \/ ~(b[1] > p.lastSequence + 1)
    BY <1>5, <1>6 DEF Gap
  <2>2. b[1] = m
    BY <1>1, <1>5, <1>6, <2>1
  <2> QED
    BY <1>5, <1>6, <2>2
<1>7. CASE n # 1
  <2>1. n - 1 \in 1 .. Len(b) /\ ~(n <= n - 1)
    BY <1>5, <1>7
  <2>2. n - 1 \notin From
    BY <1>4, <2>1
  <2>3. b[n - 1] < m /\ b[n - 1] # 0
    BY <1>1, <2>1, <2>2
  <2>4. ~(b[n] > b[n - 1] + 1)
    BY <1>5, <1>7, <2>3 DEF Gap
  <2> QED
    BY <1>1, <1>5, <2>1, <2>3, <2>4
<1> QED
  BY <1>6, <1>7

(* The batch is applied.                                                   *)
LEMMA FlushFollows == WebInv /\ FollowInv /\ Flush => FollowInv'
<1> SUFFICES ASSUME WebInv, FollowInv, Flush PROVE FollowInv'
  OBVIOUS
<1> DEFINE c == sse.callId
           S == stream[c]
           N == Len(batch)
           last == page.lastSequence
           p == ApplyServerEvents(page, c, S, batch)
<1>1. /\ batch # <<>> /\ batch' = <<>> /\ Dispatch(p, Co, req) /\ ApiStays
      /\ sse' = sse /\ failed' = failed /\ foreign' = foreign
      /\ missed' = (missed \/ (page.needsRecovery /\ Gap(page, batch)))
  BY DEF Flush, ApiStays
<1>2. c # None
  BY <1>1 DEF WebInv, ReadsFit
<1>3. /\ page.callId = c /\ c \in Rows /\ sse.next \in Nat \ {0} /\ N \in Nat
      /\ S \in Seq(EventsOf(Bookings)) /\ Len(S) \in Nat
      /\ batch \in Seq(1 .. sse.next - 1) /\ batch \in Seq(1 .. Len(S))
      /\ last \in Nat /\ last < sse.next /\ Rises(batch, last)
      /\ last = 0 => batch[1] = 1
      /\ \A n \in 1 .. N : ~Asks(S[batch[n]])
      /\ StreamAgrees(S, c, server[c])
      /\ server[c].stage \in PaidStage => c \in Intents
      /\ server[c].stage = "RECEIPT_ISSUED" => c \in Receipts
  BY <1>1, <1>2, ReadingFacts
<1>4. page \in PagesOf(Rows, Bookings) /\ Rows \in SUBSET Call
  BY BeforeStep
<1>5. \E f : /\ Follows(f, page, c, S, batch)
             /\ \A n \in 0 .. Len(batch) : f[n] \in PagesOf(Rows, Bookings)
             /\ p = f[Len(batch)]
  <2> HIDE DEF c, S
  <2>1. BatchEnds(page, c, S, batch, Rows, Bookings)
    BY <1>3, <1>4, BatchValue
  <2> QED
    BY <2>1 DEF BatchEnds
<1>6. PICK f : /\ Follows(f, page, c, S, batch)
               /\ \A n \in 0 .. Len(batch) : f[n] \in PagesOf(Rows, Bookings)
               /\ p = f[Len(batch)]
  BY <1>5
<1>7. N \in 0 .. N /\ N \in 1 .. N /\ N # 0
  BY <1>1, <1>3, EmptySeq
<1> HIDE DEF p, c, S
<1>8. /\ p \in PagesOf(Rows, Bookings) /\ p.callId = c /\ p.lastSequence = batch[N]
      /\ PageNames(page, Intents, Receipts) => PageNames(p, Intents, Receipts)
      /\ OwnFacts(page, c, server[c]) => OwnFacts(p, c, server[c])
      /\ \A k \in 1 .. N :
           LET before == IF k = 1 THEN last ELSE batch[k - 1]
           IN  before # 0 /\ batch[k] > before + 1 => p.needsRecovery
  <2>1. BatchKept(f, page, c, batch, server[c], Intents, Receipts)
    BY <1>3, <1>4, <1>6, BatchKeeps
  <2> QED
    BY <1>3, <1>6, <1>7, <2>1 DEF BatchKept
<1>9. OnlyTold(page, p, FirstOf(S, batch, N))
  BY <1>3, <1>4, <1>6, <1>7, BatchTells
<1>10. Gap(page, batch) => p.needsRecovery
  <2>1. DOMAIN batch = 1 .. N
    BY <1>3
  <2> QED
    BY <1>8, <2>1 DEF Gap
<1>11. batch[N] \in 1 .. sse.next - 1
  BY <1>3, <1>7
<1> HIDE DEF N
<1>12. InPlace(sse', batch', c, p.lastSequence, S)
  <2>1. Len(batch') = 0 /\ p.lastSequence # 0 /\ p.lastSequence < sse'.next
    BY <1>1, <1>3, <1>8, <1>11
  <2>2. 1 .. Len(batch') = {}
    BY <2>1
  <2> QED
    BY <1>1, <2>1, <2>2 DEF InPlace, c
<1>13. ASSUME ~Gap(page, batch)
       PROVE  /\ \A m \in last + 1 .. p.lastSequence : \E n \in 1 .. N : batch[n] = m
              /\ Owes(sse, batch, last, S) => Owes(sse', batch', p.lastSequence, S)
  <2>1. \A m \in last + 1 .. batch[Len(batch)] : \E n \in 1 .. Len(batch) : batch[n] = m
    <3>1. sse.next - 1 \in Nat /\ Len(batch) \in Nat
      BY <1>3
    <3> QED
      BY <1>1, <1>3, <1>13, <3>1, NoGapNoneMissing
  <2>2. \A m \in last + 1 .. p.lastSequence : \E n \in 1 .. N : batch[n] = m
    BY <1>8, <2>1 DEF N
  <2>3. Unnoticed(sse, batch, last) => Unnoticed(sse', batch', p.lastSequence)
    <3> SUFFICES ASSUME Unnoticed(sse, batch, last)
                 PROVE  Unnoticed(sse', batch', p.lastSequence)
      OBVIOUS
    <3>1. PICK m \in last + 1 .. sse.next - 1 : \A n \in 1 .. Len(batch) : batch[n] # m
      BY DEF Unnoticed
    <3>2. m \notin last + 1 .. p.lastSequence
      BY <2>2, <3>1 DEF N
    <3>3. m \in p.lastSequence + 1 .. sse.next - 1
      BY <1>3, <1>8, <1>11, <3>1, <3>2
    <3>4. 1 .. Len(batch') = {}
      BY <1>1
    <3> QED
      BY <1>1, <3>3, <3>4 DEF Unnoticed
  <2> QED
    BY <1>1, <2>2, <2>3 DEF Owes
<1>14. ASSUME ~failed', ~foreign', ~missed'
       PROVE  /\ \/ p.needsRecovery /\ ~page.needsRecovery
                 \/ Agrees(p, Co, Owes(sse', batch', p.lastSequence, S), c, server[c],
                           SettledTurns(c))
              /\ OwnFacts(p, c, server[c]) /\ ReceiptComes(p, sse', S, server[c])
              /\ page.needsRecovery => Asked(Co)
  <2>1. /\ Agrees(page, Co, Owes(sse, batch, last, S), c, server[c], SettledTurns(c))
        /\ OwnFacts(page, c, server[c]) /\ ReceiptComes(page, sse, S, server[c])
        /\ page.needsRecovery => Asked(Co)
    BY <1>1, <1>2, <1>3, <1>14, BeforeStep DEF Guarded, S
  <2>2. ReceiptComes(p, sse', S, server[c])
    BY <1>1, <1>9, <2>1 DEF ReceiptComes, OnlyTold
  <2>3. ASSUME ~(p.needsRecovery /\ ~page.needsRecovery)
        PROVE  Agrees(p, Co, Owes(sse', batch', p.lastSequence, S), c, server[c],
                      SettledTurns(c))
    <3>1. ~Gap(page, batch)
      BY <1>1, <1>10, <1>14, <2>3
    <3>2. SUFFICES ASSUME ~Owes(sse', batch', p.lastSequence, S), ~Queued(Co), ~Elsewhere(Co, c)
                   PROVE  UpToDate(p, active, c, server[c], SettledTurns(c))
      BY DEF Agrees, Co
    <3>3. UpToDate(page, active, c, server[c], SettledTurns(c))
      BY <1>13, <2>1, <3>1, <3>2 DEF Agrees, Co
    <3>4. \A n \in 1 .. N : Tells(S[batch[n]], server[c])
      <4> SUFFICES ASSUME NEW n \in 1 .. N
                   PROVE  Tells(S[batch[n]], server[c])
        OBVIOUS
      <4>1. batch[n] \in 1 .. Len(S) /\ batch[n] > last
        BY <1>3 DEF N, Rises
      <4>2. last \in Nat /\ sse.next \in Nat /\ Len(S) \in Nat
        BY <1>3
      <4>3. ASSUME AsksLater(S, batch[n]) PROVE FALSE
        <5>1. PICK m \in batch[n] + 1 .. Len(S) : Asks(S[m])
          BY <4>3 DEF AsksLater
        <5>2. ~(m \in sse.next .. Len(S))
          BY <1>1, <3>2, <5>1 DEF Owes, Ahead
        <5>3. m \in last + 1 .. sse.next - 1
          BY <4>1, <4>2, <5>2
        <5>4. \E k \in 1 .. N : batch[k] = m
          <6>1. ~Unnoticed(sse', batch', p.lastSequence)
            BY <3>2 DEF Owes
          <6>2. 1 .. Len(batch') = {} /\ sse' = sse
            BY <1>1
          <6>3. ~(m \in p.lastSequence + 1 .. sse.next - 1)
            BY <6>1, <6>2 DEF Unnoticed
          <6>4. m \in last + 1 .. p.lastSequence
            BY <1>3, <1>8, <1>11, <5>3, <6>3
          <6> QED
            BY <1>13, <3>1, <6>4
        <5> QED
          BY <1>3, <5>1, <5>4 DEF N
      <4> QED
        BY <1>3, <4>1, <4>3 DEF StreamAgrees
    <3>5. \A ev \in FirstOf(S, batch, N) : Tells(ev, server[c])
      BY <3>4 DEF FirstOf
    <3>6. ShowsCall(page, server[c]) => ShowsCall(p, server[c])
      BY <1>9, <3>5 DEF OnlyTold, ShowsCall, Tells
    <3>7. ShowsGate(page, server[c]) => ShowsGate(p, server[c])
      BY <1>9, <3>5 DEF OnlyTold, ShowsGate, Tells
    <3>8. /\ ShowsTurns(page, c, SettledTurns(c)) => ShowsTurns(p, c, SettledTurns(c))
          /\ ShowsBooking(page, c, server[c]) => ShowsBooking(p, c, server[c])
          /\ ShowsPayment(page, server[c]) => ShowsPayment(p, server[c])
          /\ ShowsReceipt(page) => ShowsReceipt(p)
      BY <1>9 DEF OnlyTold, ShowsTurns, ShowsBooking, ShowsPayment, ShowsReceipt
    <3> QED
      BY <3>3, <3>6, <3>7, <3>8 DEF UpToDate
  <2> QED
    BY <1>8, <2>1, <2>2, <2>3
<1>15. Lands(p, Co)
  BY <1>8, <1>12, <1>14, BeforeStep DEF Lands, S
<1>16. Dispatch(p, Co, req)
  BY <1>1 DEF p, c, S
<1> QED
  BY <1>1, <1>8, <1>15, <1>16, BeforeStep, DispatchFollows
-----------------------------------------------------------------------------
(***************************************************************************)
(* Answers arrive.                                                         *)
(***************************************************************************)
(* What the answer to a read of the run makes of the page. *)
SyncedAs(p, run, q) ==
  /\ q.callId = p.callId /\ q.lastSequence = p.lastSequence
  /\ q.needsRecovery = p.needsRecovery /\ q.paymentIntent = p.paymentIntent
  /\ q.callStatus = IF run.get = 1 THEN run.answer.status ELSE p.callStatus
  /\ q.transcript = IF run.get = 2 THEN {<<run.callId, t>> : t \in run.answer.turns}
                    ELSE p.transcript
  /\ q.paymentGate = IF run.get = 3 THEN run.answer.gate ELSE p.paymentGate
  /\ q.booking = IF run.get = 4 THEN [of |-> BookingOf(run), status |-> run.answer.stage]
                 ELSE p.booking
  /\ q.bookingId = IF run.get = 1 /\ run.answer.hasBooking THEN run.callId
                   ELSE IF run.get = 4 THEN BookingOf(run) ELSE p.bookingId
  /\ IF run.get = 5 /\ run.answer.stage \notin {"AGREEMENT_READY", "AGREEMENT_LOCKED"}
     THEN q.paymentStatus = run.answer.stage /\ q.paymentIntentId = BookingOf(run)
     ELSE q.paymentStatus = p.paymentStatus /\ q.paymentIntentId = p.paymentIntentId
  /\ IF run.get = 6 THEN q.receipt = ReceiptOf(run) /\ q.receiptId = ReceiptOf(run)
     ELSE q.receipt = p.receipt /\ q.receiptId = p.receiptId

(* It does. *)
LEMMA SyncedKeeps ==
  ASSUME NEW R, NEW B, NEW p \in PagesOf(R, B), NEW run, run.get \in 1 .. 6
  PROVE  SyncedAs(p, run, Synced(p, run))
<1> DEFINE a == run.answer
<1>1. CASE run.get = 1
  <2> DEFINE b == IF a.hasBooking THEN run.callId ELSE p.bookingId
  <2>1. Synced(p, run) = [p EXCEPT !.callStatus = a.status, !.bookingId = b]
    BY <1>1, GetNames DEF Synced, CallSynced
  <2> HIDE DEF b
  <2>2. SyncedAs(p, run, [p EXCEPT !.callStatus = a.status, !.bookingId = b])
    BY <1>1 DEF SyncedAs, PagesOf, b
  <2> QED
    BY <2>1, <2>2
<1>2. CASE run.get = 2
  <2> DEFINE turns == {<<run.callId, t>> : t \in a.turns}
             q == [p EXCEPT !.transcript = turns]
  <2>1. Synced(p, run) = Completed(q)
    BY <1>2, GetNames DEF Synced, TranscriptSynced
  <2> HIDE DEF turns
  <2>2. SyncedAs(p, run, q)
    BY <1>2 DEF SyncedAs, PagesOf, turns
  <2>3. SyncedAs(p, run, [q EXCEPT !.postCallTranscriptSync = "COMPLETE"])
    BY <1>2 DEF SyncedAs, PagesOf, turns
  <2> HIDE DEF q
  <2> QED
    BY <2>1, <2>2, <2>3 DEF Completed
<1>3. CASE run.get = 3
  <2>1. Synced(p, run) = [p EXCEPT !.paymentGate = a.gate]
    BY <1>3, GetNames DEF Synced, RiskSynced
  <2>2. SyncedAs(p, run, [p EXCEPT !.paymentGate = a.gate])
    BY <1>3 DEF SyncedAs, PagesOf
  <2> QED
    BY <2>1, <2>2
<1>4. CASE run.get = 4
  <2> DEFINE booking == [of |-> BookingOf(run), status |-> a.stage]
             id == BookingOf(run)
  <2>1. Synced(p, run) = [p EXCEPT !.booking = booking, !.bookingId = id]
    BY <1>4, GetNames DEF Synced, BookingSynced
  <2> HIDE DEF booking, id
  <2>2. SyncedAs(p, run, [p EXCEPT !.booking = booking, !.bookingId = id])
    BY <1>4 DEF SyncedAs, PagesOf, booking, id
  <2> QED
    BY <2>1, <2>2
<1>5. CASE run.get = 5
  <2> DEFINE id == BookingOf(run)
             shown == p.showPaymentDrawer /\ a.stage # "RECEIPT_ISSUED"
             q == [p EXCEPT !.paymentStatus = a.stage, !.paymentIntentId = id,
                            !.showPaymentDrawer = shown]
  <2>1. Synced(p, run) = IF a.stage \in {"AGREEMENT_READY", "AGREEMENT_LOCKED"} THEN p ELSE q
    BY <1>5, GetNames DEF Synced, PaymentStatusSynced, PaymentStatusOf
  <2> HIDE DEF id, shown
  <2>2. a.stage \in {"AGREEMENT_READY", "AGREEMENT_LOCKED"} => SyncedAs(p, run, p)
    BY <1>5 DEF SyncedAs
  <2>3. a.stage \notin {"AGREEMENT_READY", "AGREEMENT_LOCKED"} => SyncedAs(p, run, q)
    BY <1>5 DEF SyncedAs, PagesOf, id
  <2> HIDE DEF q
  <2> QED
    BY <2>1, <2>2, <2>3
<1>6. CASE run.get = 6
  <2> DEFINE id == ReceiptOf(run)
  <2>1. Synced(p, run) = [p EXCEPT !.receipt = id, !.receiptId = id]
    BY <1>6, GetNames DEF Synced, ReceiptSynced
  <2> HIDE DEF id
  <2>2. SyncedAs(p, run, [p EXCEPT !.receipt = id, !.receiptId = id])
    BY <1>6 DEF SyncedAs, PagesOf, id
  <2> QED
    BY <2>1, <2>2
<1> QED
  BY <1>1, <1>2, <1>3, <1>4, <1>5, <1>6

(* The answer shows what was read, and what is not wanted is not there:    *)
(* the page agrees with what the run has read, as it did.                  *)
LEMMA AnswerTells ==
  ASSUME NEW p, NEW run, run.get \in 1 .. 6, run.answer # None, Wanted(run, run.get),
         NEW run2, run # None, run2 # None, NextRun(run, run2), NEW q, SyncedAs(p, run, q),
         NEW c, c # None, run.callId = c, Subject(run) = c, NEW row, NEW settled,
         p.paymentIntentId # None => row.stage \in PaidStage,
         UpToDate(p, run, c, row, settled)
  PROVE  UpToDate(q, run2, c, row, settled)
<1> DEFINE g == run.get
           g2 == run2.get
<1>1. /\ g2 \in g + 1 .. 7 /\ run2.callId = c /\ run2.answer = None
      /\ \A m \in g + 1 .. g2 - 1 : ~Wanted(run2, m)
      /\ run2.hints = run.hints /\ run2.state = run.state
  BY DEF NextRun
<1>2. OfCall(run, c) /\ OfCall(run2, c)
  BY <1>1 DEF OfCall
<1>3. /\ AsksForPayment(run2) = AsksForPayment(run) /\ ReceiptOf(run2) = ReceiptOf(run)
  BY <1>1 DEF AsksForPayment, ReceiptOf
<1>4. Current(run, row, settled)
  BY <1>2 DEF UpToDate
<1>5. /\ g = 2 => settled \subseteq run.answer.turns
      /\ g # 2 => run.answer = Answer(Get[g], row)
  BY <1>4, GetNames DEF Current
<1>6. run2.hasBooking = (row.stage # None)
  <2>1. CASE g = 1
    BY <1>5, <2>1, GetNames DEF NextRun, Answer
  <2>2. CASE g # 1
    <3>1. g > 1 /\ Get[g] # "call"
      BY <2>2, GetNames
    <3> QED
      BY <1>4, <3>1 DEF NextRun, Current
  <2> QED
    BY <2>1, <2>2
<1>7. \A n \in 1 .. 6 :
        \/ Reads(run2, c, n)
        \/ n # g /\ ~Reads(run, c, n)
        \/ n = g
        \/ n # g /\ n # 1 /\ ~Wanted(run2, n)
  BY <1>1, <1>2 DEF Reads
<1>8. 1 \in 1 .. 6 /\ 2 \in 1 .. 6 /\ 3 \in 1 .. 6 /\ 4 \in 1 .. 6 /\ 5 \in 1 .. 6 /\ 6 \in 1 .. 6
  OBVIOUS
<1>9. BookingOf(run2) = None => row.stage = None
  BY <1>1, <1>6 DEF BookingOf
<1>10. /\ Reads(run, c, 1) \/ ShowsCall(p, row)
       /\ Reads(run, c, 2) \/ ShowsTurns(p, c, settled)
       /\ Reads(run, c, 3) \/ ShowsGate(p, row)
       /\ Reads(run, c, 4) \/ ShowsBooking(p, c, row)
       /\ (Reads(run, c, 5) /\ AsksForPayment(run)) \/ ShowsPayment(p, row)
       /\ (Reads(run, c, 6) /\ ReceiptOf(run) # None) \/ ShowsReceipt(p)
  BY DEF UpToDate
<1> HIDE DEF g, g2
<1>11. Reads(run2, c, 1) \/ ShowsCall(q, row)
  <2>1. g = 1 => ShowsCall(q, row)
    BY <1>5, GetNames DEF g, Answer, SyncedAs, ShowsCall
  <2>2. g # 1 /\ ShowsCall(p, row) => ShowsCall(q, row)
    BY DEF g, SyncedAs, ShowsCall
  <2> QED
    BY <1>7, <1>8, <1>10, <2>1, <2>2
<1>12. Reads(run2, c, 2) \/ ShowsTurns(q, c, settled)
  <2>1. Wanted(run2, 2)
    BY GetNames DEF Wanted
  <2>2. g = 2 => ShowsTurns(q, c, settled)
    BY <1>5 DEF g, SyncedAs, ShowsTurns
  <2>3. g # 2 /\ ShowsTurns(p, c, settled) => ShowsTurns(q, c, settled)
    BY DEF g, SyncedAs, ShowsTurns
  <2> QED
    BY <1>7, <1>8, <1>10, <2>1, <2>2, <2>3
<1>13. Reads(run2, c, 3) \/ ShowsGate(q, row)
  <2>1. ~Wanted(run2, 3) => ShowsGate(q, row)
    BY <1>6, GetNames DEF Wanted, ShowsGate
  <2>2. g = 3 => ShowsGate(q, row)
    BY <1>5, GetNames DEF g, Answer, SyncedAs, ShowsGate
  <2>3. g # 3 /\ ShowsGate(p, row) => ShowsGate(q, row)
    BY DEF g, SyncedAs, ShowsGate
  <2> QED
    BY <1>7, <1>8, <1>10, <2>1, <2>2, <2>3
<1>14. Reads(run2, c, 4) \/ ShowsBooking(q, c, row)
  <2>1. ~Wanted(run2, 4) => ShowsBooking(q, c, row)
    BY <1>9, GetNames DEF Wanted, ShowsBooking
  <2>2. g = 4 => ShowsBooking(q, c, row)
    <3>1. g = 4 => BookingOf(run) = c /\ run.answer.stage = row.stage
      BY <1>5, GetNames DEF g, Answer, Subject
    <3> QED
      BY <3>1 DEF g, SyncedAs, ShowsBooking
  <2>3. g # 4 /\ ShowsBooking(p, c, row) => ShowsBooking(q, c, row)
    BY DEF g, SyncedAs, ShowsBooking
  <2> QED
    BY <1>7, <1>8, <1>10, <2>1, <2>2, <2>3
<1>15. (Reads(run2, c, 5) /\ AsksForPayment(run2)) \/ ShowsPayment(q, row)
  <2>1. g # 5 => (ShowsPayment(p, row) => ShowsPayment(q, row))
                 /\ q.paymentIntentId = p.paymentIntentId
    BY DEF g, SyncedAs, ShowsPayment
  <2>2. g # 5 /\ BookingOf(run2) = None => ShowsPayment(q, row)
    BY <1>9, <2>1, NoneAssumption DEF ShowsPayment, PaidStage, BookingStage
  <2>3. g = 5 => ShowsPayment(q, row)
    <3> SUFFICES ASSUME g = 5 PROVE ShowsPayment(q, row)
      OBVIOUS
    <3>1. run.answer.stage = row.stage
      BY <1>5, GetNames DEF g, Answer
    <3>2. CASE row.stage \in {"AGREEMENT_READY", "AGREEMENT_LOCKED"}
      BY <3>1, <3>2 DEF SyncedAs, ShowsPayment, PaidStage
    <3>3. CASE row.stage \notin {"AGREEMENT_READY", "AGREEMENT_LOCKED"}
      BY <3>1, <3>3 DEF g, SyncedAs, ShowsPayment
    <3> QED
      BY <3>2, <3>3
  <2>4. ~Wanted(run2, 5) => BookingOf(run2) = None \/ ~AsksForPayment(run2)
    BY GetNames DEF Wanted
  <2>5. ~AsksForPayment(run2) => ShowsPayment(p, row)
    BY <1>3, <1>10
  <2> QED
    BY <1>7, <1>8, <1>10, <2>1, <2>2, <2>3, <2>4, <2>5
<1>16. (Reads(run2, c, 6) /\ ReceiptOf(run2) # None) \/ ShowsReceipt(q)
  <2>1. g # 6 => (ShowsReceipt(p) => ShowsReceipt(q))
    BY DEF g, SyncedAs, ShowsReceipt
  <2>2. g = 6 => ShowsReceipt(q)
    BY DEF g, SyncedAs, ShowsReceipt
  <2>3. ~Wanted(run2, 6) => ReceiptOf(run2) = None
    BY GetNames DEF Wanted
  <2>4. ReceiptOf(run2) = None => ShowsReceipt(p)
    BY <1>3, <1>10
  <2> QED
    BY <1>7, <1>8, <1>10, <2>1, <2>2, <2>3, <2>4
<1>17. Current(run2, row, settled)
  BY <1>1, <1>6 DEF Current
<1> QED
  BY <1>11, <1>12, <1>13, <1>14, <1>15, <1>16, <1>17 DEF UpToDate

(* An answer arrives.                                                      *)
LEMMA AnswerFollows == WebInv /\ FollowInv /\ AnswerArrives => FollowInv'
<1> SUFFICES ASSUME WebInv, FollowInv, AnswerArrives PROVE FollowInv'
  OBVIOUS
<1> DEFINE c == page.callId
           S == stream[c]
           p == Synced(page, active)
<1>1. /\ ApiStays /\ sse' = sse /\ batch' = batch
      /\ failed' = failed /\ missed' = missed
      /\ foreign' = (foreign \/ c # active.callId \/ Subject(active) # active.callId)
  BY DEF AnswerArrives, ApiStays
<1>2. /\ active # None /\ RunFits(active, Rows, Bookings) /\ active.answer # None
      /\ Get[active.get] # "twin" /\ p \in PagesOf(Rows, Bookings)
      /\ \E run2 : /\ NextRun(active, run2) /\ run2 # None
                   /\ CoFits([active |-> run2, queued |-> queued], Rows, Bookings)
                   /\ Dispatch(p, [active |-> run2, queued |-> queued], req)
  BY RunGoesOn
<1>3. PICK run2 : /\ NextRun(active, run2) /\ run2 # None
                  /\ CoFits([active |-> run2, queued |-> queued], Rows, Bookings)
                  /\ Dispatch(p, [active |-> run2, queued |-> queued], req)
  BY <1>2
<1> DEFINE co == [active |-> run2, queued |-> queued]
<1>4. /\ active.get \in 1 .. 6 /\ Wanted(active, active.get) /\ AnswerFits(active, Bookings)
      /\ active.hints \in HintsOf(Bookings) /\ active.state \in HintsOf(Bookings)
      /\ active.callId # None
  <2>1. active.get \in 1 .. 7 /\ active.callId \in Rows
    BY <1>2, GetNames DEF RunFits, RunsOf
  <2>2. active.get # 7
    BY <1>2, GetNames
  <2> QED
    BY <1>2, <2>1, <2>2, BeforeStep, NoneAssumption DEF RunFits, RunsOf
<1>5. SyncedAs(page, active, p)
  BY <1>4, BeforeStep, SyncedKeeps
<1> HIDE DEF p
<1>6. RunNames(active, Intents, Receipts)
  BY <1>2, BeforeStep DEF CoNames, Co
<1>7. ReceiptOf(active) \in OrNone(Receipts)
  BY <1>6 DEF RunNames, ReceiptOf
<1>8. active.get = 5 /\ active.answer.stage \notin {"AGREEMENT_READY", "AGREEMENT_LOCKED"}
        => BookingOf(active) \in Intents
  <2> SUFFICES ASSUME active.get = 5,
                      active.answer.stage \notin {"AGREEMENT_READY", "AGREEMENT_LOCKED"}
               PROVE  BookingOf(active) \in Intents
    OBVIOUS
  <2>1. active.answer.stage \in BookingStage
    BY <1>4, GetNames DEF AnswerFits
  <2>2. active.answer.stage \in PaidStage
    BY <2>1 DEF BookingStage, PaidStage
  <2> QED
    BY <1>2, <1>6, <2>2, GetNames DEF RunNames
<1>9. active.get = 3 => active.answer.gate # "MANUAL_REVIEW_REQUIRED"
  BY <1>2, <1>6, GetNames DEF RunNames
<1>10. p.callId = c /\ p.lastSequence = page.lastSequence /\ p.needsRecovery = page.needsRecovery
  BY <1>5 DEF SyncedAs
<1>11. PageNames(p, Intents, Receipts)
  BY <1>5, <1>7, <1>8, BeforeStep DEF SyncedAs, PageNames, OrNone
<1>12. CoNames(co, Intents, Receipts)
  BY <1>3, <1>6, BeforeStep DEF CoNames, RunNames, NextRun, Co
<1>13. InPlace(sse', batch', c, page.lastSequence, S)
  BY <1>1, BeforeStep
<1>14. ASSUME ~failed', ~foreign', ~missed', c # None
       PROVE  /\ Agrees(p, co, Owes(sse', batch', page.lastSequence, S), c, server[c],
                        SettledTurns(c))
              /\ OwnFacts(p, c, server[c])
              /\ Asked(co)
              /\ ReceiptComes(p, sse', S, server[c])
  <2>1. active.callId = c /\ Subject(active) = c /\ Guarded
    BY <1>1, <1>14 DEF Guarded
  <2>2. /\ Agrees(page, Co, Owes(sse, batch, page.lastSequence, S), c, server[c],
                  SettledTurns(c))
        /\ OwnFacts(page, c, server[c]) /\ ReceiptComes(page, sse, S, server[c])
    BY <2>1, BeforeStep
  <2>3. /\ active.get = 4 \/ active.get = 5 => BookingOf(active) = c
        /\ active.get = 6 => ReceiptOf(active) = c
    BY <2>1, GetNames DEF Subject
  <2>4. OwnFacts(p, c, server[c])
    BY <1>5, <1>9, <1>14, <2>1, <2>2, <2>3 DEF SyncedAs, OwnFacts
  <2>5. Asked(co)
    BY <1>3, <1>4 DEF Asked, NextRun
  <2>6. ReceiptComes(p, sse', S, server[c])
    BY <1>1, <1>5, <1>14, <2>2, <2>3 DEF SyncedAs, ReceiptComes
  <2>7. page.paymentIntentId # None => server[c].stage \in PaidStage
    <3>1. page.paymentIntentId # None => c \in Intents
      BY <2>2, BeforeStep DEF OwnFacts, PageNames, OrNone
    <3> QED
      BY <3>1 DEF Intents, At
  <2>8. ASSUME UpToDate(page, active, c, server[c], SettledTurns(c))
        PROVE  UpToDate(p, run2, c, server[c], SettledTurns(c))
    <3> DEFINE row == server[c]
               settled == SettledTurns(c)
    <3>1. /\ UpToDate(page, active, c, row, settled)
          /\ page.paymentIntentId # None => row.stage \in PaidStage
      BY <2>7, <2>8
    <3> HIDE DEF row, settled, c
    <3>2. UpToDate(p, run2, c, row, settled)
      BY <1>2, <1>3, <1>4, <1>5, <1>14, <2>1, <3>1, AnswerTells
    <3> QED
      BY <3>2 DEF row, settled
  <2>9. ~Elsewhere(Co, c)
    BY <2>1 DEF Elsewhere, Co
  <2>10. Queued(Co) => Queued(co)
    BY DEF Queued, Co
  <2>11. Co.active = active /\ co.active = run2
    BY DEF Co
  <2> HIDE DEF co, c, S
  <2>12. Agrees(p, co, Owes(sse', batch', page.lastSequence, S), c, server[c], SettledTurns(c))
    BY <1>1, <2>2, <2>8, <2>9, <2>10, <2>11 DEF Agrees
  <2> QED
    BY <2>4, <2>5, <2>6, <2>12
<1> HIDE DEF co, c, S
<1>15. Lands(p, co)
  BY <1>10, <1>11, <1>12, <1>13, <1>14 DEF Lands, S
<1>16. Dispatch(p, co, req) /\ CoFits(co, Rows, Bookings)
  BY <1>3 DEF co
<1> QED
  BY <1>1, <1>2, <1>15, <1>16, BeforeStep, DispatchFollows
-----------------------------------------------------------------------------
(***************************************************************************)
(* A run is over.                                                          *)
(***************************************************************************)
(* A run that has read everything leaves a page that agrees; the one that  *)
(* waited begins.                                                          *)
LEMMA OverFollows ==
  ASSUME WebInv, FollowInv, ApiStays, sse' = sse, batch' = batch,
         active # None, NEW p \in PagesOf(Rows, Bookings), SameShown(page, p),
         NEW complete, RunOver(p, complete),
         ~failed' => /\ ~failed /\ missed' = missed
                     /\ \/ active.callId = None /\ p.needsRecovery = page.needsRecovery
                        \/ active.get = 7 /\ ~p.needsRecovery
  PROVE  FollowInv'
<1> DEFINE c == page.callId
           S == stream[c]
<1>1. foreign => foreign'
  BY DEF RunOver
<1>2. PICK q \in PagesOf(Rows, Bookings) :
        /\ SameShown(p, q) /\ q.needsRecovery = p.needsRecovery
        /\ CoFits([active |-> After(q), queued |-> None], Rows, Bookings)
        /\ Dispatch(q, [active |-> After(q), queued |-> None], req)
  BY RunIsOver
<1> DEFINE co == [active |-> After(q), queued |-> None]
           run == After(q)
<1>3. SameShown(page, q) /\ q.callId = c /\ q.lastSequence = page.lastSequence
  BY <1>2 DEF SameShown
<1>4. /\ queued = None => run = None
      /\ queued # None => run # None /\ FreshRun(run, q, queued.callId, queued.hints)
  <2>1. queued = None => run = None
    BY DEF After
  <2>2. ASSUME queued # None
        PROVE  run # None /\ FreshRun(run, q, queued.callId, queued.hints)
    <3>1. queued \in [callId : OrNone(Rows), hints : HintsOf(Bookings)]
      BY <2>2, BeforeStep DEF CoFits, QueuedFits, Co
    <3>2. run = Run(q, queued.callId, queued.hints)
      BY <2>2 DEF After
    <3>3. run \in RunsOf(Rows, Bookings)
      BY <3>1, <3>2, RunBegins DEF RunFits
    <3> QED
      BY <3>2, <3>3, RunIsFresh, RunsAreSome, BeforeStep
  <2> QED
    BY <2>1, <2>2
<1> HIDE DEF run
<1>5. PageNames(q, Intents, Receipts)
  BY <1>3, BeforeStep, SameFollows
<1>6. CoNames(co, Intents, Receipts)
  <2>1. queued # None => queued.hints.receiptId \in OrNone(Receipts)
    BY BeforeStep DEF CoNames, Co
  <2>2. run # None => RunNames(run, Intents, Receipts)
    BY <1>4, <1>5, <2>1 DEF FreshRun, RunNames, PageNames
  <2> QED
    BY <2>2 DEF CoNames, run
<1>7. InPlace(sse', batch', c, page.lastSequence, S)
  BY BeforeStep
<1>8. ASSUME ~failed', ~foreign', ~missed', c # None
      PROVE  /\ Agrees(q, co, Owes(sse', batch', page.lastSequence, S), c, server[c],
                       SettledTurns(c))
             /\ OwnFacts(q, c, server[c]) /\ ReceiptComes(q, sse', S, server[c])
             /\ q.needsRecovery => Asked(co)
  <2>1. Guarded
    BY <1>1, <1>8 DEF Guarded
  <2>2. /\ Agrees(page, Co, Owes(sse, batch, page.lastSequence, S), c, server[c],
                  SettledTurns(c))
        /\ OwnFacts(page, c, server[c]) /\ ReceiptComes(page, sse, S, server[c])
        /\ page.needsRecovery => Asked(Co)
    BY <2>1, BeforeStep
  <2>3. OwnFacts(q, c, server[c]) /\ ReceiptComes(q, sse', S, server[c])
    BY <1>3, <2>2, SameFollows
  <2>4. Queued(Co) => Asked(co)
    BY <1>4 DEF Queued, Asked, Co, FreshRun, run
  <2>5. q.needsRecovery => Asked(co)
    BY <1>2, <1>8, <2>2, <2>4 DEF Asked, Co
  <2>6. ~Elsewhere(Co, c) /\ \A n \in 1 .. 6 : ~Reads(active, c, n)
    BY <1>8 DEF Elsewhere, Co, Reads, OfCall
  <2>7. ASSUME NEW row, NEW settled, OfCall(run, c)
        PROVE  UpToDate(q, run, c, row, settled)
    <3>1. run # None /\ FreshRun(run, q, c, queued.hints)
      BY <1>4, <2>7 DEF OfCall, FreshRun
    <3> HIDE DEF c
    <3> QED
      BY <3>1, FreshReads
  <2>8. ASSUME NEW row, NEW settled, UpToDate(page, active, c, row, settled)
        PROVE  UpToDate(q, run, c, row, settled)
    <3>1. UpToDate(q, active, c, row, settled)
      <4>1. Agrees(page, [active |-> active, queued |-> None], FALSE, c, row, settled)
        BY <2>8 DEF Agrees
      <4>2. Agrees(q, [active |-> active, queued |-> None], FALSE, c, row, settled)
        BY <1>3, <4>1, SameFollows
      <4>3. ~Elsewhere([active |-> active, queued |-> None], c)
        BY <2>6 DEF Elsewhere, Co
      <4> QED
        BY <4>2, <4>3 DEF Agrees, Queued
    <3>2. /\ 1 \in 1 .. 6 /\ 2 \in 1 .. 6 /\ 3 \in 1 .. 6
          /\ 4 \in 1 .. 6 /\ 5 \in 1 .. 6 /\ 6 \in 1 .. 6
      OBVIOUS
    <3>3. CASE OfCall(run, c)
      BY <2>7, <3>3
    <3>4. CASE ~OfCall(run, c)
      BY <2>6, <3>1, <3>2, <3>4 DEF UpToDate
    <3> QED
      BY <3>3, <3>4
  <2>9. Queued(Co) => OfCall(run, c) \/ Elsewhere(co, c)
    BY <1>4 DEF Queued, OfCall, Elsewhere, Co, FreshRun, run
  <2>10. co.active = run /\ Co.active = active
    BY DEF Co, run
  <2> HIDE DEF co, c, S
  <2>11. Agrees(q, co, Owes(sse', batch', page.lastSequence, S), c, server[c], SettledTurns(c))
    BY <2>2, <2>6, <2>7, <2>8, <2>9, <2>10 DEF Agrees
  <2> QED
    BY <2>3, <2>5, <2>11
<1> HIDE DEF co, c
<1>9. Lands(q, co)
  BY <1>3, <1>5, <1>6, <1>7, <1>8 DEF Lands, S
<1>10. Dispatch(q, co, req) /\ CoFits(co, Rows, Bookings)
  BY <1>2 DEF co
<1> QED
  BY <1>9, <1>10, BeforeStep, DispatchFollows

(* The recovery is complete, has no call to read, or fails.                *)
LEMMA RecoveryOverFollows ==
  WebInv /\ FollowInv /\ (RecoveryEnds \/ RecoveryFails) => FollowInv'
<1> SUFFICES ASSUME WebInv, FollowInv, RecoveryEnds \/ RecoveryFails PROVE FollowInv'
  OBVIOUS
<1>1. /\ ApiStays /\ sse' = sse /\ batch' = batch /\ missed' = missed
      /\ active # None
  BY DEF RecoveryEnds, RecoveryFails, ApiStays
<1>2. /\ page \in PagesOf(Rows, Bookings) /\ RecoveryComplete(page) \in PagesOf(Rows, Bookings)
      /\ Failed(page) \in PagesOf(Rows, Bookings)
  BY BeforeStep, SyncedPages, RepliedPages
<1>3. /\ SameShown(page, page) /\ SameShown(page, Failed(page))
      /\ SameShown(page, RecoveryComplete(page)) /\ ~RecoveryComplete(page).needsRecovery
  BY <1>2 DEF PagesOf, SameShown, Failed, RecoveryComplete
<1>4. CASE RecoveryEnds
  <2>1. failed' = failed
    BY <1>4 DEF RecoveryEnds
  <2>2. \/ active.callId = None /\ RunOver(page, FALSE)
        \/ Get[active.get] = "twin" /\ RunOver(RecoveryComplete(page), active.complete)
    BY <1>4 DEF RecoveryEnds
  <2>3. active.get \in 1 .. 7
    BY <1>1, BeforeStep, GetNames DEF CoFits, RunFits, RunsOf, Co
  <2>4. Get[active.get] = "twin" => active.get = 7
    BY <2>3, GetNames
  <2> QED
    BY <1>1, <1>2, <1>3, <2>1, <2>2, <2>4, OverFollows
<1>5. CASE RecoveryFails
  <2>1. failed' /\ RunOver(IF active.heard THEN Failed(page) ELSE page, FALSE)
    BY <1>5 DEF RecoveryFails
  <2> QED
    BY <1>1, <1>2, <1>3, <2>1, OverFollows
<1> QED
  BY <1>4, <1>5
-----------------------------------------------------------------------------
(***************************************************************************)
(* The API commits.                                                        *)
(***************************************************************************)
(* What agrees with a row agrees with one that says the same. *)
LEMMA UpToDateStays ==
  ASSUME NEW p, NEW run, NEW c, NEW row, NEW row2, NEW settled, NEW settled2,
         row2.status = row.status, row2.gate = row.gate, row2.stage = row.stage,
         settled2 \subseteq settled, UpToDate(p, run, c, row, settled)
  PROVE  UpToDate(p, run, c, row2, settled2)
<1>1. /\ ShowsCall(p, row) => ShowsCall(p, row2)
      /\ ShowsTurns(p, c, settled) => ShowsTurns(p, c, settled2)
      /\ ShowsGate(p, row) => ShowsGate(p, row2)
      /\ ShowsBooking(p, c, row) => ShowsBooking(p, c, row2)
      /\ ShowsPayment(p, row) => ShowsPayment(p, row2)
  BY DEF ShowsCall, ShowsTurns, ShowsGate, ShowsBooking, ShowsPayment
<1>2. Current(run, row, settled) => Current(run, row2, settled2)
  <2>1. Get[run.get] # "transcript" => Answer(Get[run.get], row2) = Answer(Get[run.get], row)
    BY DEF Answer
  <2> QED
    BY <2>1 DEF Current
<1> QED
  BY <1>1, <1>2 DEF UpToDate

(* What is named stays named while the calls move on. *)
LEMMA NamesMove ==
  ASSUME CallsAdvance
  PROVE  Intents \subseteq Intents' /\ Receipts \subseteq Receipts' /\ Reviews \subseteq Reviews'
<1>1. \A d \in Call : server[d] # None =>
        /\ server'[d] # None
        /\ server[d].stage \in PaidStage => server'[d].stage \in PaidStage
        /\ server[d].stage = "RECEIPT_ISSUED" => server'[d].stage = "RECEIPT_ISSUED"
        /\ server[d].stage = "MANUAL_REVIEW_REQUIRED" =>
             server'[d].stage = "MANUAL_REVIEW_REQUIRED"
  BY DEF CallsAdvance, Advances
<1> QED
  BY <1>1 DEF Intents, Receipts, Reviews, At

(* The rows and streams of the calls move on, and the page is what it was. *)
LEMMA MovesFollow ==
  ASSUME WebInv, WebInv', FollowInv, CallsAdvance, Rows' = Rows,
         UNCHANGED <<page, storage, sse, batch, active, queued, failed, foreign, missed>>,
         ReqNames(req', Intents', Receipts', Reviews')
  PROVE  FollowInv'
<1> DEFINE c == page.callId
           S == stream[c]
           S2 == stream'[c]
           row == server[c]
           row2 == server'[c]
<1>1. StreamsAgree' /\ StoreFollows'
  BY AdvancedAgree DEF FollowInv, StoreFollows, StoreOf
<1>2. Intents \subseteq Intents' /\ Receipts \subseteq Receipts' /\ Reviews \subseteq Reviews'
  BY NamesMove
<1>3. NamesKnown'
  <2>1. PageNames(page, Intents, Receipts) /\ StoreNames(storage, Intents)
        /\ CoNames(Co, Intents, Receipts)
    BY DEF FollowInv, NamesKnown
  <2>2. PageNames(page, Intents', Receipts') /\ StoreNames(storage, Intents')
        /\ CoNames(Co, Intents', Receipts')
    BY <1>2, <2>1, NamesGrow
  <2>3. page' = page /\ storage' = storage /\ Co' = Co
    BY DEF Co
  <2> QED
    BY <2>2, <2>3 DEF NamesKnown
<1>4. InPlace(sse, batch, c, page.lastSequence, S) /\ sse.callId = c
  BY BeforeStep
<1>5. c # None =>
        /\ c \in Rows /\ Advances(S, row, S2, row2, c)
        /\ Len(S) \in Nat /\ sse.next \in Nat /\ sse.next <= Len(S) + 1
        /\ batch \in Seq(1 .. sse.next - 1)
        /\ Len(S2) \in Nat /\ DOMAIN S2 = 1 .. Len(S2) /\ DOMAIN S = 1 .. Len(S)
  <2> SUFFICES ASSUME c # None
               PROVE  /\ c \in Rows /\ Advances(S, row, S2, row2, c)
                      /\ Len(S) \in Nat /\ sse.next \in Nat /\ sse.next <= Len(S) + 1
                      /\ batch \in Seq(1 .. sse.next - 1)
                      /\ Len(S2) \in Nat /\ DOMAIN S2 = 1 .. Len(S2) /\ DOMAIN S = 1 .. Len(S)
    OBVIOUS
  <2>1. c \in Rows /\ c \in Call /\ S \in Seq(EventsOf(Bookings))
        /\ sse.next \in Nat /\ sse.next <= Len(S) + 1 /\ batch \in Seq(1 .. sse.next - 1)
    BY <1>4, ReadFacts
  <2>2. S2 \in Seq(EventsOf(Bookings'))
    BY <2>1 DEF WebInv, ServerFits
  <2>3. Advances(S, row, S2, row2, c)
    BY <2>1 DEF CallsAdvance, Rows
  <2> HIDE DEF S, S2, c
  <2> QED
    BY <2>1, <2>2, <2>3, LenProperties
<1>6. InPlace(sse, batch, c, page.lastSequence, S2)
  <2> SUFFICES ASSUME c # None
               PROVE  \A n \in 1 .. Len(batch) : ~Asks(S2[batch[n]])
    BY <1>4 DEF InPlace
  <2>1. \A n \in 1 .. Len(batch) : batch[n] \in 1 .. Len(S)
    <3>1. \A n \in 1 .. Len(batch) : batch[n] \in 1 .. sse.next - 1
      BY <1>5
    <3> HIDE DEF S, c
    <3> QED
      BY <1>5, <3>1
  <2> QED
    BY <1>4, <1>5, <2>1 DEF InPlace, Advances
<1>7. ReadsInPlace'
  BY <1>6 DEF ReadsInPlace
<1>8. ASSUME Guarded'
      PROVE  Follow(page, Co, sse, batch, page.callId)'
  <2> DEFINE last == page.lastSequence
             settled == SettledTurns(c)
             settled2 == SettledTurns(c)'
  <2>1. Guarded /\ c # None
    BY <1>8 DEF Guarded
  <2>2. /\ Agrees(page, Co, Owes(sse, batch, last, S), c, row, settled)
        /\ OwnFacts(page, c, row) /\ ReceiptComes(page, sse, S, row)
        /\ page.needsRecovery => Asked(Co)
    BY <2>1, BeforeStep
  <2>3. /\ Advances(S, row, S2, row2, c) /\ Len(S) \in Nat /\ sse.next \in Nat
        /\ sse.next <= Len(S) + 1 /\ Len(S2) \in Nat /\ Len(S) <= Len(S2)
        /\ \A n \in 1 .. Len(S) : S2[n] = S[n]
    BY <1>5, <2>1 DEF Advances
  <2>4. \A n \in Len(S) + 1 .. Len(S2) : n \in sse.next .. Len(S2)
    BY <2>3
  <2>5. \A n \in sse.next .. Len(S) : n \in sse.next .. Len(S2) /\ (n # 0 => S2[n] = S[n])
    BY <2>3
  <2>6. sse.next # 0
    BY <1>4, <2>1, ReadFacts
  <2>7. \A n \in sse.next .. Len(S) : n \in sse.next .. Len(S2) /\ S2[n] = S[n]
    BY <2>3, <2>5, <2>6
  <2> HIDE DEF S, S2, row, row2, c, last
  <2>8. OwnFacts(page, c, row2)
    BY <2>2, <2>3 DEF OwnFacts, Advances
  <2>9. ReceiptComes(page, sse, S2, row2)
    BY <2>2, <2>3, <2>4, <2>7 DEF ReceiptComes, Advances
  <2>10. Agrees(page, Co, Owes(sse, batch, last, S2), c, row2, settled2)
    <3>1. CASE \E n \in Len(S) + 1 .. Len(S2) : Asks(S2[n])
      BY <2>4, <3>1 DEF Agrees, Owes, Ahead
    <3>2. CASE ~ \E n \in Len(S) + 1 .. Len(S2) : Asks(S2[n])
      <4>1. row2.status = row.status /\ row2.gate = row.gate /\ row2.stage = row.stage
        BY <2>3, <3>2 DEF Advances
      <4>2. settled2 \subseteq settled
        <5> SUFFICES ASSUME NEW t \in settled2 PROVE t \in settled
          OBVIOUS
        <5>1. t \in Turn /\ \E n \in DOMAIN S2 :
                /\ S2[n].event = "transcript.turn.created" /\ S2[n].data = t
                /\ \E m \in n + 1 .. Len(S2) : Asks(S2[m])
          BY DEF SettledTurns, S2, Asks, c
        <5>2. PICK n \in 1 .. Len(S2) :
                /\ S2[n].event = "transcript.turn.created" /\ S2[n].data = t
                /\ \E m \in n + 1 .. Len(S2) : Asks(S2[m])
          BY <1>5, <2>1, <5>1
        <5>3. PICK m \in n + 1 .. Len(S2) : Asks(S2[m])
          BY <5>2
        <5>4. m \in n + 1 .. Len(S) /\ m \in 1 .. Len(S) /\ n \in 1 .. Len(S)
          BY <2>3, <3>2, <5>3
        <5>5. /\ S[n].event = "transcript.turn.created" /\ S[n].data = t
              /\ Asks(S[m]) /\ n \in DOMAIN S
          BY <1>5, <2>1, <2>3, <5>2, <5>3, <5>4
        <5> QED
          BY <5>1, <5>4, <5>5 DEF SettledTurns, S, Asks, c
      <4> HIDE DEF settled, settled2
      <4>3. UpToDate(page, active, c, row, settled) => UpToDate(page, active, c, row2, settled2)
        BY <4>1, <4>2, UpToDateStays
      <4>4. Owes(sse, batch, last, S) => Owes(sse, batch, last, S2)
        BY <2>7 DEF Owes, Ahead
      <4>5. Co.active = active
        BY DEF Co
      <4> QED
        BY <2>2, <4>3, <4>4, <4>5 DEF Agrees
    <3> QED
      BY <3>1, <3>2
  <2> HIDE DEF settled, settled2
  <2>11. page' = page /\ sse' = sse /\ batch' = batch /\ Co' = Co
    BY DEF Co
  <2>12. Follow(page, Co, sse, batch, page.callId)'
         = (/\ Agrees(page, Co, Owes(sse, batch, last, S2), c, row2, settled2)
            /\ OwnFacts(page, c, row2)
            /\ page.needsRecovery => Asked(Co)
            /\ ReceiptComes(page, sse, S2, row2))
    BY <2>11 DEF Follow, S2, row2, c, last, settled2
  <2> QED
    BY <2>2, <2>8, <2>9, <2>10, <2>12
<1> QED
  BY <1>1, <1>3, <1>7, <1>8 DEF FollowInv

(* What the API has executed is as the reply will say. *)
LEMMA ExecutedNames ==
  ASSUME WebInv, NEW k \in Command, NEW b \in Bookings, NEW state \in Outcome,
         Executes(k, b, state)
  PROVE  /\ k \in {"confirm", "create"} => state \in {"ok", "refused"}
         /\ k = "create" /\ state = "ok" => b \in Intents'
         /\ k = "verify" /\ state = "ok" => b \in Receipts'
         /\ k = "verify" /\ state = "rejected" => b \in Reviews'
<1>1. b \in Call /\ server[b] # None /\ server[b] \in ServerRow
  BY DEF Bookings, WebInv, ServerFits
<1>2. k \in {"confirm", "create"} => state \in {"ok", "refused"}
  BY DEF Executes, Outcome
<1>3. ASSUME NEW stage \in BookingStage,
             server' = [server EXCEPT ![b] = [server[b] EXCEPT !.stage = stage]]
      PROVE  server'[b] # None /\ server'[b].stage = stage
  <2>1. server \in [Call -> ServerRow \cup {None}]
    BY DEF WebInv, ServerFits
  <2>2. server'[b] = [server[b] EXCEPT !.stage = stage]
    BY <1>1, <1>3, <2>1
  <2>3. server'[b] \in ServerRow /\ server'[b].stage = stage
    BY <1>1, <2>2 DEF ServerRow
  <2> QED
    BY <2>3, NoneAssumption
<1>4. /\ "PAYMENT_PENDING" \in BookingStage /\ "RECEIPT_ISSUED" \in BookingStage
      /\ "MANUAL_REVIEW_REQUIRED" \in BookingStage
  BY DEF BookingStage
<1>5. ASSUME k = "create", state = "ok"
      PROVE  b \in Intents'
  <2>1. server' = [server EXCEPT ![b] = [server[b] EXCEPT !.stage = "PAYMENT_PENDING"]]
    BY <1>5 DEF Executes, Opened, Commit
  <2> QED
    BY <1>1, <1>3, <1>4, <2>1 DEF Intents, At, PaidStage
<1>6. ASSUME k = "verify", state = "ok"
      PROVE  b \in Receipts'
  <2>1. server' = [server EXCEPT ![b] = [server[b] EXCEPT !.stage = "RECEIPT_ISSUED"]]
    BY <1>6 DEF Executes, Confirmed, Commit
  <2> QED
    BY <1>1, <1>3, <1>4, <2>1 DEF Receipts, At
<1>7. ASSUME k = "verify", state = "rejected"
      PROVE  b \in Reviews'
  <2>1. server' = [server EXCEPT ![b] = [server[b] EXCEPT !.stage = "MANUAL_REVIEW_REQUIRED"]]
    BY <1>7 DEF Executes, Rejected, Commit
  <2> QED
    BY <1>1, <1>3, <1>4, <2>1 DEF Reviews, At
<1> QED
  BY <1>2, <1>5, <1>6, <1>7

(* A commit of the API, by itself or for a request of the page. *)
LEMMA ApiFollows == WebInv /\ FollowInv /\ ApiSide => FollowInv'
<1> SUFFICES ASSUME WebInv, FollowInv, ApiSide PROVE FollowInv'
  OBVIOUS
<1>1. CallsAdvance /\ Rows' = Rows
  BY ApiAdvances DEF FollowInv
<1>2. UNCHANGED <<page, storage, sse, batch, active, queued, failed, foreign, missed>>
  BY DEF ApiSide, ApiStep, Unseen, ApiExecutes, ApiExecutesLate
<1>3. WebInv'
  BY ApiSteps DEF ApiSide
<1>4. /\ req \in Requests(Bookings) /\ ReqNames(req, Intents, Receipts, Reviews)
      /\ ReqNames(req, Intents', Receipts', Reviews')
  <2>1. Intents \subseteq Intents' /\ Receipts \subseteq Receipts' /\ Reviews \subseteq Reviews'
    BY <1>1, NamesMove
  <2>2. ReqNames(req, Intents, Receipts, Reviews) /\ req \in Requests(Bookings)
    BY BeforeStep
  <2>3. ReqNames(req, Intents', Receipts', Reviews')
    BY <2>1, <2>2, NamesGrow
  <2> QED
    BY <2>2, <2>3
<1>5. ReqNames(req', Intents', Receipts', Reviews')
  <2>1. CASE req' = req
    BY <1>4, <2>1
  <2>2. ASSUME NEW k \in Command, ApiExecutes(k)
        PROVE  ReqNames(req', Intents', Receipts', Reviews')
    <3>1. PICK state \in Outcome : /\ Executes(k, req[k].booking, state)
                                   /\ req' = [req EXCEPT ![k].state = state]
      BY <2>2 DEF ApiExecutes
    <3> DEFINE b == req[k].booking
    <3>2. b \in Bookings
      <4>1. req[k].state = "sent" /\ "sent" # "idle"
        BY <2>2 DEF ApiExecutes
      <4> QED
        BY <1>4, <4>1 DEF Requests
    <3>3. /\ k \in {"confirm", "create"} => state \in {"ok", "refused"}
          /\ k = "create" /\ state = "ok" => b \in Intents'
          /\ k = "verify" /\ state = "ok" => b \in Receipts'
          /\ k = "verify" /\ state = "rejected" => b \in Reviews'
      BY <3>1, <3>2, ExecutedNames
    <3>4. /\ req'[k].state = state /\ req'[k].booking = b
          /\ \A j \in Command : j # k => req'[j] = req[j]
      BY <1>4, <3>1 DEF Requests
    <3> HIDE DEF b
    <3>5. "confirm" \in Command /\ "create" \in Command /\ "verify" \in Command
      BY DEF Command
    <3> QED
      BY <1>4, <3>3, <3>4, <3>5 DEF ReqNames, Command
  <2>3. (\E k \in Command : ApiExecutes(k)) \/ req' = req
    BY DEF ApiSide, ApiStep, Unseen, ApiExecutesLate
  <2> QED
    BY <2>1, <2>2, <2>3
<1> QED
  BY <1>1, <1>2, <1>3, <1>5, MovesFollow
-----------------------------------------------------------------------------
(***************************************************************************)
(* Another call, a reset, a reload.                                        *)
(***************************************************************************)
(* A reset forgets the call. *)
LEMMA ResetFollows == WebInv /\ FollowInv /\ Reset => FollowInv'
<1> SUFFICES ASSUME WebInv, FollowInv, Reset PROVE FollowInv'
  OBVIOUS
<1>1. /\ page' = InitialPage /\ storage' = None /\ sse' = NoStream /\ batch' = <<>>
      /\ ApiStays /\ active' = active /\ queued' = queued /\ req' = req
  BY DEF Reset, ApiStays
<1>2. page'.callId = None /\ page'.paymentIntentId = None /\ page'.receiptId = None
  BY <1>1 DEF InitialPage
<1>3. sse'.callId = None
  BY <1>1 DEF NoStream
<1>4. StreamsAgree' /\ StoreFollows' /\ ReadsInPlace'
  <2>1. StreamsAgree'
    BY <1>1, NamesStay DEF FollowInv, StreamsAgree
  <2>2. StoreFollows' /\ ReadsInPlace'
    BY <1>2, <1>3 DEF StoreFollows, ReadsInPlace, InPlace
  <2> QED
    BY <2>1, <2>2
<1>5. PageNames(page', Intents, Receipts) /\ StoreNames(storage', Intents)
  BY <1>1, <1>2 DEF PageNames, StoreNames, OrNone
<1>6. NamesKnown'
  BY <1>1, <1>5, NamesStay DEF FollowInv, NamesKnown, Co
<1>7. ~Guarded'
  BY <1>2 DEF Guarded
<1> QED
  BY <1>4, <1>6, <1>7 DEF FollowInv

(* Another call is connected: none of the runs is about it. *)
LEMMA ConnectFollows ==
  ASSUME WebInv, FollowInv, NEW c \in Call, ConnectLiveCall(c)
  PROVE  FollowInv'
<1> DEFINE p == Connected(c)
           row == [status |-> "CREATED", turns |-> {}, stage |-> None, gate |-> "LOCKED"]
<1>1. /\ CallsAdvance /\ StreamsAgree' /\ server[c] = None
      /\ stream'[c] = CreatedEvents /\ server'[c] = row
  BY ConnectAdvances DEF FollowInv
<1>2. /\ sse' = [callId |-> c, next |-> 1, up |-> TRUE] /\ batch' = <<>>
      /\ Dispatch(p, Co, req)
  BY DEF ConnectLiveCall, Connect
<1>3. /\ p.callId = c /\ p.callStatus = "CREATED" /\ p.bookingId = None
      /\ p.paymentIntentId = None /\ p.receiptId = None /\ p.booking = None
      /\ p.paymentStatus = None /\ p.paymentGate = "LOCKED" /\ p.lastSequence = 0
      /\ p.needsRecovery = FALSE
  BY DEF Connected, InitialPage
<1>4. c # None /\ c \notin Rows /\ c \notin Bookings
  BY <1>1, NoneAssumption DEF Rows, Bookings
<1> HIDE DEF p
<1>5. /\ page' = p /\ storage' = StoreOf(p)
      /\ active' = active /\ queued' = queued /\ req' = req
  <2>1. /\ page' = p /\ storage' = Persisted(p, storage)
        /\ active' = GapAsks(Co, p).active /\ queued' = GapAsks(Co, p).queued
        /\ req' = IntentAsked(req, p)
    BY <1>2 DEF Dispatch
  <2>2. GapAsks(Co, p) = Co /\ IntentAsked(req, p) = req
    BY <1>3 DEF GapAsks, IntentAsked, WantsIntent
  <2>3. Persisted(p, storage) = StoreOf(p)
    BY <1>3, <1>4 DEF Persisted, StoreOf, ShouldPersist
  <2> QED
    BY <2>1, <2>2, <2>3 DEF Co
<1>6. NamesKnown'
  <2>1. /\ CoNames(Co, Intents, Receipts) /\ ReqNames(req, Intents, Receipts, Reviews)
    BY BeforeStep
  <2>2. Intents \subseteq Intents' /\ Receipts \subseteq Receipts' /\ Reviews \subseteq Reviews'
    BY <1>1, NamesMove
  <2>3. CoNames(Co, Intents', Receipts') /\ ReqNames(req, Intents', Receipts', Reviews')
    BY <2>1, <2>2, NamesGrow
  <2>4. PageNames(p, Intents', Receipts') /\ StoreNames(storage', Intents')
    BY <1>3, <1>5 DEF PageNames, StoreNames, StoreOf, OrNone
  <2>5. Co' = Co
    BY <1>5 DEF Co
  <2> QED
    BY <1>5, <2>3, <2>4, <2>5 DEF NamesKnown
<1>7. StoreFollows' /\ ReadsInPlace'
  <2>1. StoreFollows'
    BY <1>5 DEF StoreFollows, StoreOf
  <2>2. ReadsInPlace'
    BY <1>2, <1>3, <1>5 DEF ReadsInPlace, InPlace
  <2> QED
    BY <2>1, <2>2
<1>8. Follow(page, Co, sse, batch, page.callId)'
  <2>1. row.status = "CREATED" /\ row.stage = None /\ row.gate = "LOCKED"
    OBVIOUS
  <2>2. SettledTurns(c)' = {}
    <3>1. Len(CreatedEvents) = 1
      BY DEF CreatedEvents
    <3>2. \A n \in DOMAIN CreatedEvents : n + 1 .. Len(CreatedEvents) = {}
      BY <3>1 DEF CreatedEvents
    <3> QED
      BY <1>1, <3>2 DEF SettledTurns
  <2>3. ~OfCall(active, c)
    <3>1. active # None => active.callId \in OrNone(Rows)
      BY BeforeStep DEF CoFits, RunFits, RunsOf, Co
    <3> QED
      BY <1>4, <3>1 DEF OfCall, OrNone
  <2> DEFINE settled == SettledTurns(c)'
             owes == Owes(sse', batch', p.lastSequence, stream'[c])
  <2>4. UpToDate(p, active, c, row, {})
    <3>1. "RECEIPT_ISSUED" # None
      BY NoneAssumption DEF BookingStage
    <3> QED
      BY <1>3, <2>1, <2>3 DEF UpToDate, ShowsCall, ShowsTurns, ShowsGate, ShowsBooking,
         ShowsPayment, ShowsReceipt
  <2>5. OwnFacts(p, c, row)
    BY <1>3 DEF OwnFacts
  <2>6. ReceiptComes(p, sse', stream'[c], row)
    BY <2>1, NoneAssumption DEF ReceiptComes, BookingStage
  <2> HIDE DEF row, owes
  <2>7. Agrees(p, Co, owes, c, row, {})
    BY <2>4 DEF Agrees, Co
  <2>8. Co' = Co
    BY <1>5 DEF Co
  <2>9. Follow(page, Co, sse, batch, page.callId)'
        = (/\ Agrees(p, Co, owes, c, row, settled)
           /\ OwnFacts(p, c, row)
           /\ p.needsRecovery => Asked(Co)
           /\ ReceiptComes(p, sse', stream'[c], row))
    BY <1>1, <1>3, <1>5, <2>8 DEF Follow, row, owes
  <2> QED
    BY <1>3, <2>2, <2>5, <2>6, <2>7, <2>9
<1> QED
  BY <1>1, <1>6, <1>7, <1>8 DEF FollowInv

(* A reload resumes the stored call: its run reads whatever the page lacks. *)
LEMMA ReloadFollows == WebInv /\ FollowInv /\ Reload => FollowInv'
<1> SUFFICES ASSUME WebInv, FollowInv, Reload PROVE FollowInv'
  OBVIOUS
<1> DEFINE c == storage.callId
           hints == [NoHints EXCEPT !.bookingId = storage.bookingId,
                                    !.paymentIntentId = storage.paymentIntentId]
           run == Run(InitialPage, c, hints)
<1>1. /\ page' = PageOf(storage) /\ sse' = StreamOf(storage)
      /\ active' = RecoveryOf(storage) /\ queued' = None /\ batch' = <<>>
      /\ req' = [k \in Command |-> Idle] /\ storage' = storage
      /\ ApiStays
      /\ foreign' = (storage # None /\ \E f \in {"bookingId", "paymentIntentId"} :
                                         storage[f] \notin {None, c})
  BY DEF Reload, ApiStays
<1>2. StreamsAgree'
  BY <1>1, NamesStay DEF FollowInv, StreamsAgree
<1>3. ReqNames(req', Intents, Receipts, Reviews)
  <2>1. \A k \in Command : req'[k].state = "idle"
    BY <1>1 DEF Idle
  <2> QED
    BY <2>1 DEF ReqNames, Command
<1>4. CASE storage = None
  <2>1. /\ page' = InitialPage /\ sse' = NoStream /\ active' = None
    BY <1>1, <1>4 DEF PageOf, StreamOf, RecoveryOf
  <2>2. page'.callId = None /\ page'.paymentIntentId = None /\ page'.receiptId = None
    BY <2>1 DEF InitialPage
  <2>3. StoreFollows' /\ ReadsInPlace'
    BY <2>1, <2>2 DEF StoreFollows, ReadsInPlace, InPlace, NoStream
  <2>4. PageNames(page', Intents, Receipts) /\ StoreNames(storage', Intents)
    BY <1>1, <1>4, <2>2 DEF PageNames, StoreNames, OrNone
  <2>5. CoNames(Co', Intents, Receipts)
    BY <1>1, <2>1 DEF CoNames, Co
  <2>6. NamesKnown'
    BY <1>1, <1>3, <2>4, <2>5, NamesStay DEF NamesKnown
  <2>7. ~Guarded'
    BY <2>2 DEF Guarded
  <2> QED
    BY <1>2, <2>3, <2>6, <2>7 DEF FollowInv
<1>5. CASE storage # None
  <2> DEFINE p == Resumed(storage)
             run2 == [run EXCEPT !.heard = TRUE]
  <2>1. /\ storage \in [callId : Rows, bookingId : OrNone(Bookings),
                        paymentIntentId : OrNone(Bookings)]
        /\ c \in Rows /\ c \in Call /\ c # None /\ server[c] # None
    <3>1. storage \in [callId : Rows, bookingId : OrNone(Bookings),
                       paymentIntentId : OrNone(Bookings)]
      BY <1>5 DEF WebInv, PageFits, StoredOf
    <3>2. c \in Rows
      BY <3>1
    <3> QED
      BY <3>1, <3>2, RowsAreCalls, NoneAssumption DEF Rows
  <2>2. /\ p.callId = c /\ p.bookingId = storage.bookingId
        /\ p.paymentIntentId = storage.paymentIntentId /\ p.receiptId = None
        /\ p.paymentStatus = None /\ p.paymentGate = "LOCKED" /\ p.lastSequence = 0
        /\ p.needsRecovery = FALSE
    BY DEF Resumed, InitialPage
  <2>3. /\ page' = p /\ active' = run2
        /\ sse'.callId = c /\ sse'.next = 1 /\ sse'.up = TRUE
    BY <1>1, <1>5 DEF PageOf, StreamOf, RecoveryOf
  <2>4. /\ hints.bookingId = storage.bookingId /\ hints.receiptId = None
        /\ hints.paymentIntentId = storage.paymentIntentId /\ hints \in HintsOf(Bookings)
    BY <2>1 DEF NoHints, HintsOf, OrNone
  <2> HIDE DEF hints, p
  <2>5. run \in RunsOf(Rows, Bookings) /\ FreshRun(run, InitialPage, c, hints)
    <3>1. c \in OrNone(Rows)
      BY <2>1 DEF OrNone
    <3>2. RunFits(run, Rows, Bookings)
      BY <2>4, <3>1, FreshPages, RunBegins
    <3> QED
      BY <3>2, RunIsFresh DEF RunFits
  <2> HIDE DEF run
  <2>6. run2 # None /\ FreshRun(run2, InitialPage, c, hints)
    <3>1. /\ run2 \in RunsOf(Rows, Bookings) /\ run2.get = run.get /\ run2.hints = run.hints
          /\ run2.state = run.state /\ run2.callId = run.callId
          /\ run2.hasBooking = run.hasBooking /\ run2.answer = run.answer
          /\ run2.complete = run.complete
      BY <2>5 DEF RunsOf
    <3> HIDE DEF run2
    <3>2. run2 # None
      BY <3>1, RowsAreCalls, RunsAreSome
    <3> QED
      BY <2>5, <3>1, <3>2 DEF FreshRun
  <2> HIDE DEF run2
  <2>7. StoreFollows'
    <3>1. StoreOf(p) = [callId |-> c, bookingId |-> storage.bookingId,
                        paymentIntentId |-> storage.paymentIntentId]
      BY <2>1, <2>2 DEF StoreOf, ShouldPersist
    <3>2. storage = StoreOf(p)
      BY <2>1, <3>1
    <3> QED
      BY <1>1, <2>3, <3>2 DEF StoreFollows, StoreOf
  <2>8. ReadsInPlace'
    BY <1>1, <2>2, <2>3 DEF ReadsInPlace, InPlace
  <2>9. NamesKnown'
    <3>1. StoreNames(storage, Intents)
      BY DEF FollowInv, NamesKnown
    <3>2. PageNames(p, Intents, Receipts)
      BY <1>5, <2>2, <3>1 DEF StoreNames, PageNames, OrNone
    <3>3. InitialPage.receiptId = None
      BY DEF InitialPage
    <3>4. RunNames(run2, Intents, Receipts)
      BY <2>4, <2>6, <3>3 DEF RunNames, FreshRun, OrNone
    <3>5. CoNames(Co', Intents, Receipts)
      BY <1>1, <2>3, <3>4 DEF CoNames, Co
    <3> QED
      BY <1>1, <1>3, <2>3, <3>1, <3>2, <3>5, NamesStay DEF NamesKnown
  <2>10. ASSUME Guarded'
         PROVE  Follow(page, Co, sse, batch, page.callId)'
    <3> DEFINE S == stream[c]
               row == server[c]
               settled == SettledTurns(c)
               owes == Owes(sse', batch', p.lastSequence, S)
               co == Co'
    <3>1. storage.bookingId \in {None, c} /\ storage.paymentIntentId \in {None, c}
      <4>1. \A f \in {"bookingId", "paymentIntentId"} : storage[f] \in {None, c}
        BY <1>1, <1>5, <2>10 DEF Guarded
      <4> QED
        BY <4>1
    <3>2. OwnFacts(p, c, row)
      BY <2>2, <3>1 DEF OwnFacts
    <3>3. ReceiptComes(p, sse', S, row)
      <4>1. StreamAgrees(S, c, row)
        BY <2>1 DEF FollowInv, StreamsAgree
      <4> QED
        BY <2>3, <4>1 DEF StreamAgrees, ReceiptComes
    <3> HIDE DEF row, S, settled, owes
    <3>4. UpToDate(p, run2, c, row, settled)
      BY <2>2, <2>4, <2>6, FreshReads
    <3>5. co.active = run2
      BY <2>3 DEF Co
    <3>6. Agrees(p, co, owes, c, row, settled)
      BY <3>4, <3>5 DEF Agrees
    <3> HIDE DEF co
    <3>7. Follow(page, Co, sse, batch, page.callId)'
          = (/\ Agrees(p, co, owes, c, row, settled)
             /\ OwnFacts(p, c, row)
             /\ p.needsRecovery => Asked(co)
             /\ ReceiptComes(p, sse', S, row))
      BY <1>1, <2>2, <2>3, NamesStay DEF Follow, co, row, S, settled, owes
    <3> QED
      BY <2>2, <3>2, <3>3, <3>6, <3>7
  <2> QED
    BY <1>2, <2>7, <2>8, <2>9, <2>10 DEF FollowInv
<1> QED
  BY <1>4, <1>5
-----------------------------------------------------------------------------
(***************************************************************************)
(* The start.                                                              *)
(***************************************************************************)
(* What a page at the start shows of its call. *)
StartsAs(p, c, stage) ==
  /\ p.callId = c /\ p.callStatus = RowAt(stage).status /\ p.paymentGate = RowAt(stage).gate
  /\ p.transcript = {<<c, t>> : t \in RowAt(stage).turns}
  /\ p.bookingId = IF stage = None THEN None ELSE c
  /\ p.booking = IF stage = None THEN None ELSE [of |-> c, status |-> stage]
  /\ p.paymentIntentId = IF stage = "PAYMENT_PENDING" THEN c ELSE None
  /\ p.paymentStatus = IF stage = "PAYMENT_PENDING" THEN stage ELSE None
  /\ p.receiptId = None /\ p.needsRecovery = FALSE
  /\ p.lastSequence = Len(EventsAt(stage, c)) /\ p.postCallTranscriptSync = "IDLE"

(* It shows what the API has. *)
LEMMA SettledShows ==
  ASSUME NEW c \in Call, NEW stage \in Started
  PROVE  StartsAs(Settled(c, stage), c, stage)
<1> DEFINE B == {c}
           row == RowAt(stage)
           last == Len(EventsAt(stage, c))
           seen == [Connected(c) EXCEPT !.lastSequence = last]
           called == CallSynced(seen, c, Answer("call", row))
           told == TranscriptSynced(called, c, row)
           read == RiskSynced(told, row)
           booked == BookingSynced(read, c, row)
           opened == PaymentIntentCreated(booked, c)
           paid == PaymentStatusSynced(opened, c, row)
           Same(p, q) == /\ q.callId = p.callId /\ q.receiptId = p.receiptId
                         /\ q.needsRecovery = p.needsRecovery
                         /\ q.lastSequence = p.lastSequence
                         /\ q.postCallTranscriptSync = p.postCallTranscriptSync
<1>1. /\ row \in ServerRow /\ row.stage = stage
      /\ row.status \in {"CREATED", "ACTIVE", "ENDED"} /\ row.turns \in SUBSET Turn
      /\ row.gate \in PageGate /\ row.stage \in BookingStage \cup {None}
  BY StartedAssumption DEF RowAt, ServerRow, Turn, PageGate, BookingStage
<1>2. {c} \in SUBSET Call /\ c \in B /\ None # "PAYMENT_PENDING"
  BY NoneAssumption DEF BookingStage
<1>3. last \in Nat
  BY <1>2, StartedEvents, LenProperties
<1>4. /\ Answer("call", row).status = row.status
      /\ Answer("call", row).hasBooking = (stage # None)
  BY <1>1 DEF Answer
<1>5. Connected(c) \in PagesOf({c}, B)
  BY FreshPages
<1> HIDE DEF last
<1>6. seen \in PagesOf({c}, B)
  BY <1>3, <1>5 DEF PagesOf
<1>7. /\ seen.callId = c /\ seen.receiptId = None /\ seen.needsRecovery = FALSE
      /\ seen.lastSequence = last /\ seen.bookingId = None /\ seen.booking = None
      /\ seen.paymentIntentId = None /\ seen.paymentStatus = None
      /\ seen.postCallTranscriptSync = "IDLE"
  BY DEF Connected, InitialPage
<1> HIDE DEF seen, row, B
<1>8. called \in PagesOf({c}, B)
  BY <1>1, <1>2, <1>4, <1>6, SyncedPages
<1>9. /\ Same(seen, called) /\ called.callStatus = row.status
      /\ called.bookingId = IF stage = None THEN None ELSE c
      /\ called.booking = None /\ called.paymentIntentId = None /\ called.paymentStatus = None
  BY <1>4, <1>6, <1>7 DEF CallSynced, PagesOf
<1> HIDE DEF called
<1>10. told \in PagesOf({c}, B)
  BY <1>1, <1>2, <1>8, SyncedPages
<1>11. /\ Same(called, told) /\ told.callStatus = called.callStatus
       /\ told.bookingId = called.bookingId /\ told.booking = called.booking
       /\ told.paymentIntentId = called.paymentIntentId
       /\ told.paymentStatus = called.paymentStatus
       /\ told.transcript = {<<c, t>> : t \in row.turns}
  <2> DEFINE turns == {<<c, t>> : t \in row.turns}
             q == [called EXCEPT !.transcript = turns]
  <2>1. told = Completed(q)
    BY DEF TranscriptSynced
  <2> HIDE DEF turns
  <2>2. /\ Same(called, q) /\ q.callStatus = called.callStatus
        /\ q.bookingId = called.bookingId /\ q.booking = called.booking
        /\ q.paymentIntentId = called.paymentIntentId
        /\ q.paymentStatus = called.paymentStatus /\ q.transcript = turns
    BY <1>8 DEF PagesOf
  <2>3. /\ Same(q, told) /\ told.callStatus = q.callStatus
        /\ told.bookingId = q.bookingId /\ told.booking = q.booking
        /\ told.paymentIntentId = q.paymentIntentId
        /\ told.paymentStatus = q.paymentStatus /\ told.transcript = q.transcript
    BY <1>7, <1>9, <2>1, <2>2 DEF Completed
  <2> HIDE DEF q
  <2> QED
    BY <2>2, <2>3 DEF turns
<1> HIDE DEF told
<1>12. read \in PagesOf({c}, B)
  BY <1>1, <1>2, <1>10, SyncedPages
<1>13. /\ Same(told, read) /\ read.callStatus = told.callStatus
       /\ read.bookingId = told.bookingId /\ read.booking = told.booking
       /\ read.paymentIntentId = told.paymentIntentId
       /\ read.paymentStatus = told.paymentStatus /\ read.transcript = told.transcript
       /\ read.paymentGate = row.gate
  BY <1>10 DEF RiskSynced, PagesOf
<1> HIDE DEF read
<1>14. ASSUME stage # None
       PROVE  booked \in PagesOf({c}, B)
  <2>1. row.stage \in BookingStage
    BY <1>1, <1>14
  <2> QED
    BY <1>2, <1>12, <2>1, SyncedPages
<1>15. /\ Same(read, booked) /\ booked.callStatus = read.callStatus
       /\ booked.bookingId = c /\ booked.booking = [of |-> c, status |-> stage]
       /\ booked.paymentIntentId = read.paymentIntentId
       /\ booked.paymentStatus = read.paymentStatus /\ booked.transcript = read.transcript
       /\ booked.paymentGate = read.paymentGate
  BY <1>1, <1>12 DEF BookingSynced, PagesOf
<1> HIDE DEF booked
<1>16. ASSUME stage # None
       PROVE  /\ Same(booked, paid) /\ paid.callStatus = booked.callStatus
              /\ paid.bookingId = booked.bookingId /\ paid.booking = booked.booking
              /\ paid.paymentIntentId = c /\ paid.paymentStatus = stage
              /\ paid.transcript = booked.transcript /\ paid.paymentGate = booked.paymentGate
  <2>1. booked \in PagesOf({c}, B)
    BY <1>14, <1>16
  <2>2. /\ opened \in PagesOf({c}, B) /\ Same(booked, opened)
        /\ opened.callStatus = booked.callStatus /\ opened.bookingId = booked.bookingId
        /\ opened.booking = booked.booking /\ opened.transcript = booked.transcript
        /\ opened.paymentGate = booked.paymentGate
    <3>1. opened \in PagesOf({c}, B)
      BY <1>2, <2>1, RepliedPages
    <3> QED
      BY <2>1, <3>1 DEF PaymentIntentCreated, PagesOf
  <2> HIDE DEF opened
  <2> QED
    BY <1>1, <2>2 DEF PaymentStatusSynced, PaymentStatusOf, PagesOf
<1> HIDE DEF paid
<1>17. Settled(c, stage) = IF stage = "PAYMENT_PENDING" THEN paid
                           ELSE IF stage # None THEN booked ELSE read
  BY DEF Settled, row, seen, called, told, read, booked, opened, paid, last
<1>18. CASE stage = "PAYMENT_PENDING"
  BY <1>2, <1>7, <1>9, <1>11, <1>13, <1>15, <1>16, <1>17, <1>18 
     DEF StartsAs, row, last
<1>19. CASE stage # "PAYMENT_PENDING" /\ stage # None
  BY <1>7, <1>9, <1>11, <1>13, <1>15, <1>17, <1>19 
     DEF StartsAs, row, last
<1>20. CASE stage = None
  BY <1>2, <1>7, <1>9, <1>11, <1>13, <1>17, <1>20 
     DEF StartsAs, row, last
<1> QED
  BY <1>18, <1>19, <1>20

(* The invariant holds at the start. *)
LEMMA FollowStarts == WebInit => FollowInv
<1> SUFFICES ASSUME WebInit PROVE FollowInv
  OBVIOUS
<1>1. WebInv /\ StreamsAgree
  BY WebInitFits, StreamsStart
<1>2. /\ storage = Persisted(page, None) /\ batch = <<>> /\ active = None /\ queued = None
      /\ req = [k \in Command |-> IF k = "create" /\ WantsIntent(page)
                                  THEN [state |-> "sent", booking |-> page.bookingId] ELSE Idle]
  BY DEF WebInit
<1>3. ReqNames(req, Intents, Receipts, Reviews)
  <2>1. \A k \in Command : req[k].state \in {"idle", "sent"}
    BY <1>2 DEF Idle
  <2> QED
    BY <2>1 DEF ReqNames, Command
<1>4. CoNames(Co, Intents, Receipts)
  BY <1>2 DEF CoNames, Co
<1>5. CASE page = InitialPage /\ sse = NoStream
  <2>1. page.callId = None /\ page.paymentIntentId = None /\ page.receiptId = None
    BY <1>5 DEF InitialPage
  <2>2. StoreFollows /\ ReadsInPlace /\ ~Guarded
    BY <1>5, <2>1 DEF StoreFollows, ReadsInPlace, InPlace, NoStream, Guarded
  <2>3. PageNames(page, Intents, Receipts) /\ StoreNames(storage, Intents)
    BY <1>2, <2>1 DEF PageNames, StoreNames, OrNone, Persisted, ShouldPersist
  <2> QED
    BY <1>1, <1>3, <1>4, <2>2, <2>3 DEF FollowInv, NamesKnown
<1>6. CASE \E c \in Call, stage \in Started :
             /\ server = [d \in Call |-> IF d = c THEN RowAt(stage) ELSE None]
             /\ stream = [d \in Call |-> IF d = c THEN EventsAt(stage, c) ELSE <<>>]
             /\ page = Settled(c, stage)
             /\ sse = [callId |-> c, next |-> Len(stream[c]) + 1, up |-> TRUE]
  <2>1. PICK c \in Call, stage \in Started :
             /\ server = [d \in Call |-> IF d = c THEN RowAt(stage) ELSE None]
             /\ stream = [d \in Call |-> IF d = c THEN EventsAt(stage, c) ELSE <<>>]
             /\ page = Settled(c, stage)
             /\ sse = [callId |-> c, next |-> Len(stream[c]) + 1, up |-> TRUE]
    BY <1>6
  <2> DEFINE row == RowAt(stage)
             S == EventsAt(stage, c)
             settled == SettledTurns(c)
  <2>2. /\ row.stage = stage /\ row # None /\ c # None
        /\ stage \in {None, "AGREEMENT_READY", "AGREEMENT_LOCKED", "PAYMENT_PENDING"}
    BY StartedAssumption, NoneAssumption
       DEF RowAt, ServerRow, Turn, PageGate, BookingStage
  <2>3. /\ server[c] = row /\ stream[c] = S /\ c \in Rows
    BY <2>1, <2>2 DEF Rows
  <2>4. /\ page.callId = c /\ page.callStatus = row.status /\ page.paymentGate = row.gate
        /\ page.transcript = {<<c, t>> : t \in row.turns}
        /\ page.bookingId = IF stage = None THEN None ELSE c
        /\ page.booking = IF stage = None THEN None ELSE [of |-> c, status |-> stage]
        /\ page.paymentIntentId = IF stage = "PAYMENT_PENDING" THEN c ELSE None
        /\ page.paymentStatus = IF stage = "PAYMENT_PENDING" THEN stage ELSE None
        /\ page.receiptId = None /\ page.needsRecovery = FALSE
        /\ page.lastSequence = Len(S)
    <3>1. StartsAs(page, c, stage)
      BY <2>1, SettledShows
    <3> QED
      BY <3>1 DEF StartsAs
  <2>5. StreamAgrees(S, c, row) /\ row.gate # "MANUAL_REVIEW_REQUIRED"
    BY <1>1, <2>2, <2>3 DEF StreamsAgree, StreamAgrees
  <2>6. sse.callId = c /\ sse.next = Len(S) + 1 /\ sse.up = TRUE
    BY <2>1, <2>3
  <2>7. S \in Seq(EventsOf(Call)) /\ Len(S) \in Nat
    <3>1. S \in Seq(EventsOf(Call))
      BY StartedEvents
    <3> QED
      BY <3>1, LenProperties
  <2>8. settled \subseteq row.turns
    <3>1. Len(stream[c]) \in Nat /\ stream[c] \in Seq(EventsOf(Call))
      BY <2>3, <2>7
    <3> QED
      BY <1>1, <2>3, <3>1, SettledAreTurns
  <2>9. StoreFollows
    BY <1>2, <2>2, <2>4 DEF StoreFollows, StoreOf, Persisted, ShouldPersist
  <2> HIDE DEF S, row, settled
  <2>10. ReadsInPlace
    BY <1>2, <2>3, <2>4, <2>6, <2>7 DEF ReadsInPlace, InPlace
  <2>11. PageNames(page, Intents, Receipts) /\ StoreNames(storage, Intents)
    <3>1. stage = "PAYMENT_PENDING" => c \in Intents
      BY <2>2, <2>3 DEF Intents, At, PaidStage
    <3>2. PageNames(page, Intents, Receipts)
      BY <2>4, <3>1 DEF PageNames, OrNone
    <3> QED
      BY <1>2, <3>2 DEF PageNames, StoreNames, Persisted
  <2>12. Follow(page, Co, sse, batch, c)
    <3>1. ShowsTurns(page, c, settled)
      BY <2>4, <2>8 DEF ShowsTurns
    <3>2. UpToDate(page, None, c, row, settled)
      BY <2>2, <2>4, <3>1
         DEF UpToDate, OfCall, ShowsCall, ShowsGate, ShowsBooking, ShowsPayment, ShowsReceipt
    <3>3. OwnFacts(page, c, row)
      BY <2>4, <2>5, NoneAssumption DEF OwnFacts
    <3>4. ReceiptComes(page, sse, S, row)
      BY <2>2, NoneAssumption DEF ReceiptComes, BookingStage
    <3>5. Co.active = None
      BY <1>2 DEF Co
    <3> QED
      BY <2>3, <2>4, <3>2, <3>3, <3>4, <3>5 DEF Follow, Agrees, settled
  <2> QED
    BY <1>1, <1>3, <1>4, <2>4, <2>9, <2>10, <2>11, <2>12 DEF FollowInv, NamesKnown
<1> QED
  BY <1>5, <1>6 DEF WebInit
-----------------------------------------------------------------------------
(***************************************************************************)
(* Every step, and what it says of a page at rest.                         *)
(***************************************************************************)
(* Every step keeps it. *)
LEMMA FollowStep == WebInv /\ FollowInv /\ [WebNext]_vars => FollowInv'
<1> SUFFICES ASSUME WebInv, FollowInv, [WebNext]_vars PROVE FollowInv'
  OBVIOUS
<1>1. CASE ApiSide
  BY <1>1, ApiFollows
<1>2. CASE \E c \in Call : ConnectLiveCall(c)
  BY <1>2, ConnectFollows
<1>3. CASE PageSide
  <2>1. CASE ApiAnswers
    BY <2>1, AnswersFollow
  <2>2. CASE AnswerArrives
    BY <2>2, AnswerFollows
  <2>3. CASE RecoveryEnds \/ RecoveryFails
    BY <2>3, RecoveryOverFollows
  <2>4. CASE Receive
    BY <2>4, JoinsFollow, AskingEventFollows
  <2>5. CASE Flush
    BY <2>5, FlushFollows
  <2>6. CASE Skip
    BY <2>6, SkipFollows
  <2>7. CASE Drop \/ UNCHANGED vars \/ \E k \in Command : RequestLost(k)
    BY <2>7, LossesFollow
  <2>8. CASE Reconnect \/ StartPostCallTranscriptSync \/ TimerFires
    BY <2>8, AsksFollow
  <2>9. CASE Reset
    BY <2>9, ResetFollows
  <2>10. CASE Reload
    BY <2>10, ReloadFollows
  <2>11. CASE ConfirmAgreementFromWeb \/ SimulateWalletPayment
    BY <2>11, SendsFollow
  <2>12. CASE \E k \in Command : ReplyArrives(k)
    BY <2>12, RepliesFollow
  <2> QED
    BY <1>3, <2>1, <2>2, <2>3, <2>4, <2>5, <2>6, <2>7, <2>8, <2>9, <2>10, <2>11, <2>12
       DEF PageSide
<1> QED
  BY <1>1, <1>2, <1>3, Sides

(* At rest a page that nothing was lost to shows its call. *)
LEMMA RestShows ==
  ASSUME WebInv, FollowInv, Quiet, ~failed, ~foreign, ~missed
  PROVE  /\ page.callId \in Rows /\ ~page.needsRecovery
         /\ OwnFacts(page, page.callId, server[page.callId])
         /\ UpToDate(page, None, page.callId, server[page.callId], SettledTurns(page.callId))
         /\ server[page.callId].stage = "RECEIPT_ISSUED" => page.receiptId # None
<1> DEFINE c == page.callId
           S == stream[c]
           last == page.lastSequence
<1>1. /\ active = None /\ batch = <<>> /\ c # None /\ sse.up /\ last = Len(S)
  BY DEF Quiet
<1>2. Guarded
  BY <1>1 DEF Guarded
<1>3. /\ Agrees(page, Co, Owes(sse, batch, last, S), c, server[c], SettledTurns(c))
      /\ OwnFacts(page, c, server[c]) /\ ReceiptComes(page, sse, S, server[c])
      /\ page.needsRecovery => Asked(Co)
      /\ InPlace(sse, batch, c, last, S) /\ sse.callId = c /\ c \in Rows
      /\ CoFits(Co, Rows, Bookings)
  BY <1>1, <1>2, BeforeStep
<1>4. Co.active = None /\ Co.queued = None
  BY <1>1, <1>3 DEF Co, CoFits
<1>5. ~Queued(Co) /\ ~Elsewhere(Co, c) /\ ~Asked(Co)
  BY <1>4 DEF Queued, Elsewhere, Asked
<1>6. sse.next \in Nat /\ sse.next = Len(S) + 1 /\ Len(S) \in Nat
  <2>1. sse.next \in Nat /\ Len(S) \in Nat /\ sse.next <= Len(S) + 1
    BY <1>1, <1>3, ReadFacts
  <2>2. Len(S) < sse.next
    BY <1>1, <1>3 DEF InPlace
  <2> QED
    BY <2>1, <2>2
<1> HIDE DEF S, last, c
<1>7. sse.next .. Len(S) = {} /\ last + 1 .. sse.next - 1 = {}
  BY <1>1, <1>6
<1>8. ~Owes(sse, batch, last, S)
  BY <1>1, <1>7 DEF Owes, Unnoticed, Ahead
<1>9. UpToDate(page, None, c, server[c], SettledTurns(c))
  BY <1>3, <1>4, <1>5, <1>8 DEF Agrees
<1>10. server[c].stage = "RECEIPT_ISSUED" => page.receiptId # None
  BY <1>3, <1>7 DEF ReceiptComes
<1> QED
  BY <1>3, <1>5, <1>9, <1>10 DEF c

(* A page at rest shows what the API holds about its call, whatever the    *)
(* order in which events and answers came, across skipped events, broken   *)
(* connections and reloads (useServerSessionRecovery, recoverActiveCall).  *)
THEOREM PageConverges == WebSpec => []Converged
<1>1. WebInv /\ FollowInv => Converged
  <2> SUFFICES ASSUME WebInv, FollowInv, Quiet, ~failed, ~foreign, ~missed
               PROVE  LET row == server[page.callId]
                      IN  /\ page.callStatus = row.status
                          /\ {<<page.callId, t>> : t \in SettledTurns(page.callId)}
                               \subseteq page.transcript
                          /\ row.stage # None =>
                               /\ page.booking = [of |-> page.callId, status |-> row.stage]
                               /\ page.paymentGate = row.gate
                          /\ page.paymentIntentId # None =>
                               \/ page.paymentStatus = PaymentStatusOf(row)
                               \/ /\ page.paymentStatus = None
                                  /\ page.paymentIntent = page.paymentIntentId
                          /\ page.receiptId # None => page.receipt = page.receiptId
                          /\ ~page.needsRecovery
    BY DEF Converged
  <2> DEFINE c == page.callId
             row == server[c]
             settled == SettledTurns(c)
  <2>1. ~page.needsRecovery /\ UpToDate(page, None, c, row, settled)
    BY RestShows
  <2> HIDE DEF settled, row
  <2>2. /\ ShowsCall(page, row) /\ ShowsTurns(page, c, settled) /\ ShowsGate(page, row)
        /\ ShowsBooking(page, c, row) /\ ShowsPayment(page, row) /\ ShowsReceipt(page)
    BY <2>1 DEF UpToDate, Reads, OfCall
  <2>3. {<<c, t>> : t \in settled} \subseteq page.transcript
    BY <2>2 DEF ShowsTurns
  <2> QED
    BY <2>1, <2>2, <2>3 DEF ShowsCall, ShowsGate, ShowsBooking, ShowsPayment, ShowsReceipt,
       PaymentStatusOf, settled, row
<1> QED
  BY WebInitFits, WebStepFits, FollowStarts, FollowStep, <1>1, PTL DEF WebSpec

(* At rest a reload resumes the call on the page as long as nothing is     *)
(* decided, and resumes nothing once the receipt is issued                 *)
(* (useServerSessionRecovery, persistActiveCallSession).                   *)
THEOREM OpenCallIsResumed == WebSpec => []ResumesOpenCall
<1>1. WebInv /\ FollowInv => ResumesOpenCall
  <2> SUFFICES ASSUME WebInv, FollowInv, Quiet, ~failed, ~foreign, ~missed
               PROVE  LET stage == server[page.callId].stage
                      IN  /\ stage = "RECEIPT_ISSUED" => storage = None
                          /\ stage \notin {"RECEIPT_ISSUED", "MANUAL_REVIEW_REQUIRED"} =>
                                storage = [callId |-> page.callId, bookingId |-> page.bookingId,
                                           paymentIntentId |-> page.paymentIntentId]
    BY DEF ResumesOpenCall
  <2> DEFINE c == page.callId
             stage == server[c].stage
  <2>1. /\ OwnFacts(page, c, server[c]) /\ c # None
        /\ stage = "RECEIPT_ISSUED" => page.receiptId # None
    BY RestShows DEF Quiet
  <2>2. storage = StoreOf(page)
    BY <2>1 DEF FollowInv, StoreFollows
  <2>3. page.receiptId # None => stage = "RECEIPT_ISSUED"
    <3>1. page.receiptId \in OrNone(Receipts)
      BY DEF FollowInv, NamesKnown, PageNames
    <3>2. page.receiptId # None => c \in Receipts
      BY <2>1, <3>1 DEF OwnFacts, OrNone
    <3> QED
      BY <3>2 DEF Receipts, At
  <2>4. page.paymentGate = "MANUAL_REVIEW_REQUIRED" => stage = "MANUAL_REVIEW_REQUIRED"
    BY <2>1 DEF OwnFacts
  <2> QED
    BY <2>1, <2>2, <2>3, <2>4 DEF StoreOf, ShouldPersist
<1> QED
  BY WebInitFits, WebStepFits, FollowStarts, FollowStep, <1>1, PTL DEF WebSpec
-----------------------------------------------------------------------------
(***************************************************************************)
(* The waiting for the provider's history: of a page that waits, there is  *)
(* something left that will end it.                                        *)
(***************************************************************************)
(* A page that waits, one that shows both turns, and a chain of its call.  *)
Waits(p) == p.postCallTranscriptSync = "PENDING"
Shows(p) == HasCustomerAndAgentTurns({t[2] : t \in p.transcript})
SomeWait(chains) == \E n \in DOMAIN chains : chains[n].state = "waiting"
Own(p, chains) ==
  \E n \in DOMAIN chains : chains[n].state # "off" /\ chains[n].callId = p.callId

(* A run that has read a whole transcript has a call, and what it reads of *)
(* a transcript the API has.                                               *)
RunKnows(run, rows) ==
  /\ run.complete => run.get > 2 /\ run.callId # None
  /\ run.get = 2 /\ run.answer # None => run.answer.turns \subseteq rows[run.callId].turns

(* A page that waits has a call, and a recovery of a call still to come.   *)
HasCall(p, co) ==
  Waits(p) => /\ p.callId # None
              /\ co.queued # None => co.queued.callId # None
              /\ co.active # None /\ co.active.callId = None => co.queued # None

(* A run that has read the whole transcript of the page's call: whoever    *)
(* asked since then has queued another one.                                *)
WholeRead(p, co, rows) ==
  co.active # None /\ co.active.complete /\ co.active.callId = p.callId =>
    Shows(p) /\ rows[p.callId].turns = Turn /\ (Waits(p) => co.queued # None)

(* What is left to a page whose chains are over.                           *)
Left(p, co, rows, o) ==
  /\ Shows(p) /\ rows[p.callId].turns = Turn
  /\ co.queued # None \/ (co.active # None /\ co.active.get \in {1, 2}) \/ o
  /\ co.active # None /\ co.active.callId = p.callId /\ co.active.get = 2
     /\ co.active.answer # None => co.active.answer.turns = Turn

Attends(p, co, chains, rows, f, o) ==
  /\ SomeWait(chains) => co.active # None
  /\ co.active # None => RunKnows(co.active, rows)
  /\ HasCall(p, co)
  /\ ~f => /\ WholeRead(p, co, rows)
           /\ Waits(p) => Own(p, chains) \/ Left(p, co, rows, o)

AttendInv == Attends(page, Co, sync, server, foreign, failed)

(* A page that goes on with its call, and with what attends to it. *)
GoesOn(p, q, chains, chains2) ==
  /\ q.callId = p.callId /\ (Shows(p) => Shows(q))
  /\ Waits(q) => Own(q, chains2) \/ (Waits(p) /\ ~Own(p, chains))

(* Nobody asks for anything. *)
LEMMA PageAttends ==
  ASSUME NEW p, NEW q, NEW co, NEW chains, NEW chains2, NEW rows,
         NEW f, NEW f2, NEW o, NEW o2,
         Attends(p, co, chains, rows, f, o), f => f2, o => o2,
         GoesOn(p, q, chains, chains2), Waits(q) => Waits(p),
         SomeWait(chains2) => SomeWait(chains)
  PROVE  Attends(q, co, chains2, rows, f2, o2)
<1>1. HasCall(q, co)
  BY DEF Attends, HasCall, GoesOn
<1>2. ~f2 => WholeRead(q, co, rows)
  BY DEF Attends, WholeRead, GoesOn
<1>3. ~f2 /\ Waits(q) => Own(q, chains2) \/ Left(q, co, rows, o2)
  BY DEF Attends, Left, GoesOn
<1> QED
  BY <1>1, <1>2, <1>3 DEF Attends

(* Somebody asks for a recovery, of a call if the page waits. *)
LEMMA RequestAttends ==
  ASSUME NEW R \in SUBSET Call, NEW B \in SUBSET Call, NEW asker \in PagesOf(R, B),
         NEW c \in OrNone(R), NEW hints \in HintsOf(B), NEW by, NEW co, CoFits(co, R, B),
         NEW p, NEW q, NEW chains, NEW chains2, NEW rows,
         NEW f, NEW f2, NEW o, NEW o2,
         Attends(p, co, chains, rows, f, o), f => f2, o => o2,
         GoesOn(p, q, chains, chains2), Waits(q) => q.callId # None /\ c # None
  PROVE  Attends(q, Request(co, asker, c, hints, by), chains2, rows, f2, o2)
<1> DEFINE co2 == Request(co, asker, c, hints, by)
<1>1. /\ co2.active # None
      /\ co.active = None => FreshRun(co2.active, asker, c, hints) /\ co2.queued = None
      /\ co.active # None => /\ SameRun(co.active, co2.active)
                             /\ QueuedFor(co2.queued, co.queued, c, hints)
  BY RequestMakes
<1> HIDE DEF co2
<1>2. RunKnows(co2.active, rows)
  <2>1. CASE co.active = None
    BY <1>1, <2>1 DEF FreshRun, RunKnows
  <2>2. CASE co.active # None
    BY <1>1, <2>2 DEF SameRun, RunKnows, Attends
  <2> QED
    BY <2>1, <2>2
<1>3. HasCall(q, co2)
  BY <1>1 DEF HasCall, FreshRun, SameRun, QueuedFor
<1>4. ASSUME ~f2
      PROVE  WholeRead(q, co2, rows)
  <2>1. CASE co.active = None
    BY <1>1, <2>1 DEF FreshRun, WholeRead
  <2>2. CASE co.active # None
    <3>1. WholeRead(p, co, rows)
      BY <1>4 DEF Attends
    <3> QED
      BY <1>1, <2>2, <3>1 DEF SameRun, QueuedFor, WholeRead, GoesOn
  <2> QED
    BY <2>1, <2>2
<1>5. ASSUME ~f2, Waits(q), ~Own(q, chains2)
      PROVE  Left(q, co2, rows, o2)
  <2>1. Left(p, co, rows, o)
    BY <1>5 DEF Attends, GoesOn
  <2>2. CASE co.active = None
    BY <1>1, <2>1, <2>2 DEF FreshRun, Left, GoesOn
  <2>3. CASE co.active # None
    BY <1>1, <2>1, <2>3 DEF SameRun, QueuedFor, Left, GoesOn
  <2> QED
    BY <2>2, <2>3
<1>6. Attends(q, co2, chains2, rows, f2, o2)
  BY <1>1, <1>2, <1>3, <1>4, <1>5 DEF Attends
<1> QED
  BY <1>6 DEF co2

(* A dispatch goes on with what the page has come to. *)
LEMMA DispatchAttends ==
  ASSUME WebInv, ApiStays, NEW p \in PagesOf(Rows, Bookings),
         NEW co, CoFits(co, Rows, Bookings), NEW r, Dispatch(p, co, r),
         Attends(p, co, sync', server, foreign', failed')
  PROVE  AttendInv'
<1>1. /\ page' = p /\ active' = GapAsks(co, p).active /\ queued' = GapAsks(co, p).queued
      /\ server' = server
  BY DEF Dispatch, ApiStays
<1>2. Attends(p, GapAsks(co, p), sync', server, foreign', failed')
  <2>1. CASE GapAsks(co, p) = co
    BY <2>1
  <2>2. CASE GapAsks(co, p) # co
    <3>1. GapAsks(co, p) = Request(co, p, p.callId, NoHints, "page") /\ p.callId # None
      BY <2>2 DEF GapAsks
    <3>2. NoHints \in HintsOf(Bookings) /\ p.callId \in OrNone(Rows)
      BY DEF NoHints, HintsOf, OrNone, PagesOf
    <3>3. GoesOn(p, p, sync', sync')
      BY DEF GoesOn
    <3> QED
      BY <3>1, <3>2, <3>3, RowsAreCalls, RequestAttends
  <2> QED
    BY <2>1, <2>2
<1> DEFINE asked == GapAsks(co, p)
<1> HIDE DEF asked
<1>3. Co' = [active |-> asked.active, queued |-> asked.queued]
  BY <1>1 DEF Co, asked
<1>4. Attends(p, asked, sync', server, foreign', failed')
  BY <1>2 DEF asked
<1>5. Attends(p, [active |-> asked.active, queued |-> asked.queued], sync', server, foreign', failed')
  BY <1>4 DEF Attends, HasCall, WholeRead, Left
<1> QED
  BY <1>1, <1>3, <1>5 DEF AttendInv

(* What cancels timers leaves the chains that wait, and all of them while  *)
(* the page waits.                                                         *)
LEMMA ChainsStay ==
  ASSUME NEW R, NEW chains \in SyncsOf(R), NEW p
  PROVE  /\ SomeWait(Cancelled(chains)) => SomeWait(chains)
         /\ SomeWait(SyncAfter(p, chains)) => SomeWait(chains)
         /\ Waits(p) => SyncAfter(p, chains) = chains
<1>1. \A n \in DOMAIN chains : Cancelled(chains)[n].state = "waiting" => chains[n].state = "waiting"
  BY DEF Cancelled, SyncOff
<1>2. DOMAIN Cancelled(chains) = DOMAIN chains
  BY DEF Cancelled
<1>3. SomeWait(Cancelled(chains)) => SomeWait(chains)
  BY <1>1, <1>2 DEF SomeWait
<1> QED
  BY <1>3 DEF SyncAfter, Waits

(* What holds before a step. *)
LEMMA AttendFacts ==
  ASSUME WebInv, AttendInv
  PROVE  /\ page \in PagesOf(Rows, Bookings) /\ CoFits(Co, Rows, Bookings)
         /\ req \in Requests(Bookings) /\ sync \in SyncsOf(Rows)
         /\ Rows \in SUBSET Call /\ Bookings \in SUBSET Call
         /\ Co.active = active /\ Co.queued = queued
         /\ NoHints \in HintsOf(Bookings)
         /\ Attends(page, Co, sync, server, foreign, failed)
  BY RowsAreCalls DEF WebInv, PageFits, AsksFit, SendsFit, AttendInv, Co, NoHints, HintsOf, OrNone

(* A step that leaves the page, its recovery and its chains alone. *)
LEMMA RestAttends ==
  ASSUME WebInv, AttendInv, UNCHANGED <<server, page, active, queued, sync>>,
         foreign => foreign', failed => failed'
  PROVE  AttendInv'
<1>1. Attends(page, Co, sync, server, foreign', failed')
  BY PageAttends, AttendFacts DEF GoesOn
<1>2. Co' = Co
  BY DEF Co
<1> QED
  BY <1>1, <1>2 DEF AttendInv

(* The page moves on with its call, and the chains after it. *)
LEMMA MoveAttends ==
  ASSUME WebInv, AttendInv, ApiStays, NEW p \in PagesOf(Rows, Bookings),
         p.callId = page.callId, Shows(page) => Shows(p), Waits(p) => Waits(page),
         NEW r, Dispatch(p, Co, r), sync' = SyncAfter(p, sync),
         foreign => foreign', failed => failed'
  PROVE  AttendInv'
<1>1. GoesOn(page, p, sync, sync') /\ (SomeWait(sync') => SomeWait(sync))
  <2>1. (SomeWait(sync') => SomeWait(sync)) /\ (Waits(p) => sync' = sync)
    BY AttendFacts, ChainsStay
  <2> QED
    BY <2>1 DEF GoesOn, Own
<1>2. Attends(p, Co, sync', server, foreign', failed')
  BY <1>1, AttendFacts, PageAttends
<1> QED
  BY <1>2, AttendFacts, DispatchAttends

(* It asks for a recovery, too. *)
LEMMA AskAttends ==
  ASSUME WebInv, AttendInv, ApiStays,
         NEW p \in PagesOf(Rows, Bookings), GoesOn(page, p, sync, sync'),
         NEW asker \in PagesOf(Rows, Bookings), NEW c \in OrNone(Rows),
         NEW hints \in HintsOf(Bookings), NEW by \in {"page", "sync", "nobody"},
         Waits(p) => p.callId # None /\ c # None,
         NEW r, Dispatch(p, Request(Co, asker, c, hints, by), r),
         foreign => foreign', failed => failed'
  PROVE  AttendInv'
<1> DEFINE co == Request(Co, asker, c, hints, by)
<1>1. CoFits(co, Rows, Bookings)
  BY AttendFacts, RequestFits
<1>2. Attends(p, co, sync', server, foreign', failed')
  BY AttendFacts, RequestAttends
<1> HIDE DEF co
<1>3. Dispatch(p, co, r)
  BY DEF co
<1> QED
  BY <1>1, <1>2, <1>3, DispatchAttends

-----------------------------------------------------------------------------
(***************************************************************************)
(* The steps of the page.                                                  *)
(***************************************************************************)
(* What the reducer makes of an event: no waiting begins, and no turn goes. *)
Moves(p, q) ==
  q.callId = p.callId /\ (Waits(q) => Waits(p)) /\ p.transcript \subseteq q.transcript

(* A page with more turns shows what one with fewer shows. *)
LEMMA MoreShows ==
  ASSUME NEW R, NEW B, NEW p \in PagesOf(R, B), NEW q \in PagesOf(R, B),
         p.transcript \subseteq q.transcript
  PROVE  Shows(p) => Shows(q)
<1>1. {t[2] : t \in p.transcript} \subseteq {t[2] : t \in q.transcript}
  OBVIOUS
<1>2. \A t \in q.transcript : t[2] \in Turn
  BY DEF PagesOf
<1>3. {t[2] : t \in q.transcript} \subseteq Turn
  BY <1>2
<1> QED
  BY <1>1, <1>3 DEF Shows, HasCustomerAndAgentTurns

(* One event of the stream is such a move. *)
LEMMA EventMoves ==
  ASSUME NEW R \in SUBSET Call, NEW B, NEW p \in PagesOf(R, B), NEW c \in R,
         NEW e \in EventsOf(B), NEW n \in Nat
  PROVE  Moves(p, ApplyServerEvent(p, c, e, n))
<1> DEFINE id == IF e.bookingId # None THEN e.bookingId ELSE p.bookingId
           last == IF n > p.lastSequence THEN n ELSE p.lastSequence
           gap == p.needsRecovery \/ (p.lastSequence # 0 /\ n > p.lastSequence + 1)
           q == [p EXCEPT !.bookingId = id, !.lastSequence = last, !.needsRecovery = gap]
           q2 == ApplyServerEvent(p, c, e, n)
           Still(r) == /\ r.callId = q.callId /\ r.transcript = q.transcript
                       /\ r.postCallTranscriptSync = q.postCallTranscriptSync
<1> SUFFICES Moves(p, q2)
  OBVIOUS
<1>1. q2 = Applied(q, c, e)
  BY DEF ApplyServerEvent, Remembered
<1>2. id \in OrNone(B) /\ last \in Nat /\ gap \in BOOLEAN
  BY DEF PagesOf, EventsOf
<1> HIDE DEF id, last, gap, q2
<1>3. /\ q \in PagesOf(R, B) /\ q.callId = p.callId /\ q.transcript = p.transcript
      /\ q.postCallTranscriptSync = p.postCallTranscriptSync
  BY <1>2 DEF PagesOf
<1> HIDE DEF q
<1>4. CASE e.event = "transcript.turn.created"
  <2> DEFINE told == q.transcript \cup {<<c, e.data>>}
             r == [q EXCEPT !.transcript = told]
  <2>1. q2 = Completed(r)
    BY <1>1, <1>4 DEF Applied
  <2>2. e.data \in Turn /\ c \in Call
    BY <1>4 DEF EventsOf
  <2>3. told \in SUBSET (Call \X Turn) /\ q.transcript \subseteq told
    BY <1>3, <2>2 DEF PagesOf
  <2> HIDE DEF told
  <2>4. /\ r.callId = q.callId /\ r.transcript = told /\ r \in PagesOf(R, B)
        /\ r.postCallTranscriptSync = q.postCallTranscriptSync
    BY <1>3, <2>3 DEF PagesOf
  <2> HIDE DEF r
  <2>5. /\ q2.callId = r.callId /\ q2.transcript = r.transcript
        /\ q2.postCallTranscriptSync \in {r.postCallTranscriptSync, "COMPLETE"}
    BY <2>1, <2>4 DEF Completed, PagesOf
  <2> QED
    BY <1>3, <2>3, <2>4, <2>5 DEF Moves, Waits
<1>5. CASE e.event \in {"call.created", "call.ended"}
  <2>1. q2 = [q EXCEPT !.callStatus = e.data]
    BY <1>1, <1>5 DEF Applied
  <2>2. Still(q2)
    BY <1>3, <2>1 DEF PagesOf
  <2> QED
    BY <1>3, <2>2 DEF Moves, Waits
<1>6. CASE e.event = "risk.payment_gate.updated"
  <2>1. q2 = [q EXCEPT !.paymentGate = e.data]
    BY <1>1, <1>6 DEF Applied
  <2>2. Still(q2)
    BY <1>3, <2>1 DEF PagesOf
  <2> QED
    BY <1>3, <2>2 DEF Moves, Waits
<1>7. CASE e.event \in {"booking.updated", "agreement.locked"}
  <2> DEFINE status == IF e.event = "booking.updated" THEN e.data ELSE "AGREEMENT_LOCKED"
             booking == [of |-> IF q.booking = None THEN None ELSE q.booking.of,
                         status |-> status]
  <2>1. q2 = IF e.event = "booking.updated" THEN [q EXCEPT !.booking = booking]
             ELSE [[q EXCEPT !.booking = booking] EXCEPT !.paymentGate = "UNLOCKED"]
    BY <1>1, <1>7 DEF Applied, WithStatus, BookingConfirmed
  <2> HIDE DEF booking
  <2>2. Still(q2)
    BY <1>3, <2>1 DEF PagesOf
  <2> QED
    BY <1>3, <2>2 DEF Moves, Waits
<1>8. CASE e.event \in {"payment.intent.created", "payment.confirmed", "receipt.verified"}
  <2>1. q2 = IF e.event = "payment.intent.created" THEN [q EXCEPT !.paymentIntentId = e.bookingId]
             ELSE IF e.event = "payment.confirmed" THEN [q EXCEPT !.showPaymentDrawer = FALSE]
             ELSE [q EXCEPT !.receiptId = e.bookingId]
    BY <1>1, <1>8 DEF Applied
  <2>2. Still(q2)
    BY <1>3, <1>8, <2>1 DEF PagesOf
  <2> QED
    BY <1>3, <2>2 DEF Moves, Waits
<1>9. CASE e.event = "payment.failed"
  <2> DEFINE booking == IF q.booking = None THEN None
                        ELSE [q.booking EXCEPT !.status = "MANUAL_REVIEW_REQUIRED"]
  <2>1. q2 = [q EXCEPT !.paymentActionPending = FALSE, !.showPaymentDrawer = FALSE,
                       !.paymentGate = "MANUAL_REVIEW_REQUIRED", !.booking = booking]
    BY <1>1, <1>9 DEF Applied, ToManualReview
  <2> HIDE DEF booking
  <2>2. Still(q2)
    BY <1>3, <2>1 DEF PagesOf
  <2> QED
    BY <1>3, <2>2 DEF Moves, Waits
<1>10. CASE e.event = "transcript.analysis.updated"
  BY <1>1, <1>3, <1>10 DEF Applied, Moves, Waits
<1>11. e.event \in EventName
  BY DEF EventsOf
<1> QED
  BY <1>4, <1>5, <1>6, <1>7, <1>8, <1>9, <1>10, <1>11 DEF EventName

(* So does a batch. *)
LEMMA BatchMoves ==
  ASSUME WebInv, sse.callId # None, NEW seen \in Seq(1 .. Len(stream[sse.callId]))
  PROVE  Moves(page, ApplyServerEvents(page, sse.callId, stream[sse.callId], seen))
<1> DEFINE c == sse.callId
           S == stream[c]
           N == Len(seen)
<1>1. /\ page \in PagesOf(Rows, Bookings) /\ c \in Rows /\ Rows \in SUBSET Call
      /\ S \in Seq(EventsOf(Bookings)) /\ N \in Nat
      /\ \A n \in 1 .. N : seen[n] \in 1 .. Len(S) /\ S[seen[n]] \in EventsOf(Bookings)
  BY ReadFacts, RowsAreCalls DEF WebInv, PageFits
<1>2. BatchEnds(page, c, S, seen, Rows, Bookings)
  BY <1>1, BatchValue
<1>3. PICK f : /\ Follows(f, page, c, S, seen)
               /\ \A n \in 0 .. N : f[n] \in PagesOf(Rows, Bookings)
               /\ ApplyServerEvents(page, c, S, seen) = f[N]
  BY <1>2 DEF BatchEnds
<1> DEFINE Kept == {n \in 0 .. N : Moves(page, f[n])}
<1>4. 0 \in Kept
  BY <1>1, <1>3 DEF Follows, Moves
<1>5. ASSUME NEW n \in 1 .. N, n - 1 \in Kept
      PROVE  n \in Kept
  <2>1. /\ f[n - 1] \in PagesOf(Rows, Bookings)
        /\ f[n] = ApplyServerEvent(f[n - 1], c, S[seen[n]], seen[n]) /\ n \in 0 .. N
        /\ seen[n] \in Nat
    BY <1>1, <1>3, <1>5 DEF Follows
  <2>2. Moves(f[n - 1], f[n])
    BY <1>1, <2>1, EventMoves
  <2> QED
    BY <1>5, <2>1, <2>2 DEF Moves
<1> HIDE DEF Kept
<1>6. \A n \in 0 .. N : n \in Kept
  BY <1>1, <1>4, <1>5, RecursionKeeps
<1>7. N \in Kept
  BY <1>1, <1>6
<1> QED
  BY <1>3, <1>7 DEF Kept

(* The stream's steps. *)
LEMMA StreamAttends ==
  ASSUME WebInv, AttendInv, Receive \/ Flush \/ Reconnect
  PROVE  AttendInv'
<1> DEFINE c == sse.callId
           Batched(seen) == ApplyServerEvents(page, c, stream[c], seen)
<1>1. ApiStays /\ foreign' = foreign /\ failed' = failed
  BY DEF Receive, Flush, Reconnect, ApiStays
<1>2. ASSUME c # None, NEW seen \in Seq(1 .. Len(stream[c])), sync' = SyncAfter(Batched(seen), sync)
      PROVE  /\ Batched(seen) \in PagesOf(Rows, Bookings)
             /\ Batched(seen).callId = page.callId
             /\ Shows(page) => Shows(Batched(seen))
             /\ Waits(Batched(seen)) => Waits(page) /\ sync' = sync
             /\ GoesOn(page, Batched(seen), sync, sync')
  <2> DEFINE p == Batched(seen)
  <2>1. Moves(page, p) /\ p \in PagesOf(Rows, Bookings)
    BY <1>2, BatchMoves, BatchFits
  <2>2. Waits(p) => SyncAfter(p, sync) = sync
    BY AttendFacts, ChainsStay
  <2>3. sync' = SyncAfter(p, sync)
    BY <1>2
  <2> HIDE DEF p
  <2>4. /\ p \in PagesOf(Rows, Bookings) /\ p.callId = page.callId
        /\ Shows(page) => Shows(p)
        /\ Waits(p) => Waits(page) /\ sync' = sync
    BY <2>1, <2>2, <2>3, AttendFacts, MoreShows DEF Moves
  <2>5. GoesOn(page, p, sync, sync')
    BY <2>4 DEF GoesOn, Own
  <2> QED
    BY <2>4, <2>5 DEF p
<1>3. ASSUME Flush
      PROVE  AttendInv'
  <2>1. /\ c # None /\ Dispatch(Batched(batch), Co, req) /\ sync' = SyncAfter(Batched(batch), sync)
    BY <1>3 DEF Flush, WebInv, ReadsFit
  <2>2. batch \in Seq(1 .. Len(stream[c]))
    <3>1. /\ sse.next - 1 \in Nat /\ Len(stream[c]) \in Nat /\ sse.next - 1 <= Len(stream[c])
          /\ batch \in Seq(1 .. sse.next - 1)
      BY <2>1, ReadFacts
    <3> QED
      BY <3>1, BatchWithin
  <2> DEFINE p == Batched(batch)
  <2>3. /\ p \in PagesOf(Rows, Bookings) /\ p.callId = page.callId
        /\ Shows(page) => Shows(p)
        /\ Waits(p) => Waits(page)
    BY <1>2, <2>1, <2>2
  <2>4. Dispatch(p, Co, req) /\ sync' = SyncAfter(p, sync)
    BY <2>1
  <2> HIDE DEF p
  <2> QED
    BY <1>1, <2>3, <2>4, MoveAttends
<1>4. ASSUME Receive, stream[c][sse.next].event \notin RecoveryEvent
      PROVE  AttendInv'
  <2>1. UNCHANGED <<server, page, active, queued, sync>>
    BY <1>4 DEF Receive
  <2> QED
    BY <1>1, <2>1, RestAttends
<1>5. ASSUME Receive, stream[c][sse.next].event \in RecoveryEvent
      PROVE  AttendInv'
  <2> DEFINE filled == Append(batch, sse.next)
             e == stream[c][sse.next]
             p == Batched(filled)
  <2>1. /\ c # None /\ sse.next <= Len(stream[c])
        /\ Dispatch(p, Request(Co, page, c, Hints(e), "page"), req)
        /\ sync' = SyncAfter(p, sync)
    BY <1>5 DEF Receive, Awaits
  <2>2. /\ c \in Rows /\ sse.next \in 1 .. Len(stream[c]) /\ e \in EventsOf(Bookings)
        /\ filled \in Seq(1 .. Len(stream[c]))
    <3>1. /\ c \in Rows /\ sse.next \in Nat \ {0} /\ Len(stream[c]) \in Nat
          /\ stream[c] \in Seq(EventsOf(Bookings)) /\ batch \in Seq(1 .. sse.next - 1)
      BY <2>1, ReadFacts
    <3>2. sse.next \in 1 .. Len(stream[c]) /\ sse.next - 1 \in Nat /\ sse.next - 1 <= Len(stream[c])
      BY <2>1, <3>1
    <3>3. batch \in Seq(1 .. Len(stream[c]))
      BY <3>1, <3>2, BatchWithin
    <3> QED
      BY <3>1, <3>2, <3>3, AppendProperties
  <2>3. /\ p \in PagesOf(Rows, Bookings) /\ p.callId = page.callId
        /\ Waits(p) => Waits(page)
        /\ GoesOn(page, p, sync, sync')
    BY <1>2, <2>1, <2>2
  <2>4. Waits(p) => p.callId # None
    BY <2>3, AttendFacts DEF Attends, HasCall
  <2>5. Hints(e) \in HintsOf(Bookings) /\ c \in OrNone(Rows)
    BY <2>2, EventHints DEF OrNone
  <2> HIDE DEF p, e, filled
  <2> QED
    BY <1>1, <2>1, <2>3, <2>4, <2>5, AttendFacts, AskAttends
<1>6. ASSUME Reconnect
      PROVE  AttendInv'
  <2>1. /\ c # None /\ Dispatch(page, Request(Co, page, c, NoHints, "page"), req)
        /\ sync' = sync
    BY <1>6 DEF Reconnect
  <2>2. c \in OrNone(Rows)
    BY <2>1, ReadFacts DEF OrNone
  <2>3. GoesOn(page, page, sync, sync') /\ (Waits(page) => page.callId # None)
    BY <2>1, AttendFacts DEF GoesOn, Attends, HasCall
  <2> QED
    BY <1>1, <2>1, <2>2, <2>3, AttendFacts, AskAttends
<1> QED
  BY <1>3, <1>4, <1>5, <1>6

(* A page with the same call, turns and waiting. *)
Still(p, q) ==
  /\ q.callId = p.callId /\ q.transcript = p.transcript
  /\ q.postCallTranscriptSync = p.postCallTranscriptSync

(* So do a failure, the payment actions and the end of a recovery. *)
LEMMA RepliesStill ==
  ASSUME NEW R, NEW B, NEW p \in PagesOf(R, B)
  PROVE  /\ Still(p, Failed(p)) /\ Still(p, PaymentStillPending(p))
         /\ Still(p, PaymentActionStarted(p)) /\ Still(p, RecoveryComplete(p))
         /\ Still(p, BookingConfirmed(p)) /\ Still(p, PaymentRejected(p))
         /\ \A b : Still(p, PaymentIntentCreated(p, b)) /\ Still(p, PaymentVerified(p, b))
<1>1. /\ Still(p, Failed(p)) /\ Still(p, PaymentStillPending(p))
      /\ Still(p, PaymentActionStarted(p)) /\ Still(p, RecoveryComplete(p))
      /\ \A b : Still(p, PaymentIntentCreated(p, b)) /\ Still(p, PaymentVerified(p, b))
  BY DEF Still, PagesOf, Failed, PaymentStillPending, PaymentActionStarted, RecoveryComplete,
     PaymentIntentCreated, PaymentVerified
<1>2. Still(p, BookingConfirmed(p))
  <2> DEFINE booking == [of |-> IF p.booking = None THEN None ELSE p.booking.of,
                         status |-> "AGREEMENT_LOCKED"]
  <2>1. BookingConfirmed(p) = [[p EXCEPT !.booking = booking] EXCEPT !.paymentGate = "UNLOCKED"]
    BY DEF BookingConfirmed, WithStatus
  <2> HIDE DEF booking
  <2> QED
    BY <2>1 DEF Still, PagesOf
<1>3. Still(p, PaymentRejected(p))
  <2> DEFINE booking == IF p.booking = None THEN None
                        ELSE [p.booking EXCEPT !.status = "MANUAL_REVIEW_REQUIRED"]
  <2>1. PaymentRejected(p)
          = [[p EXCEPT !.paymentActionPending = FALSE, !.showPaymentDrawer = FALSE,
                       !.paymentGate = "MANUAL_REVIEW_REQUIRED", !.booking = booking]
               EXCEPT !.error = TRUE]
    BY DEF PaymentRejected, ToManualReview
  <2> HIDE DEF booking
  <2> QED
    BY <2>1 DEF Still, PagesOf
<1> QED
  BY <1>1, <1>2, <1>3

(* A command leaves the page, its reply arrives or is lost. *)
LEMMA CommandAttends ==
  ASSUME WebInv, AttendInv,
         \/ ConfirmAgreementFromWeb \/ SimulateWalletPayment
         \/ \E k \in Command : ReplyArrives(k)
  PROVE  AttendInv'
<1>1. /\ ApiStays /\ sync' = sync /\ failed' = failed /\ (foreign => foreign')
  <2>1. \A k, b, p : Send(k, b, p) =>
          ApiStays /\ sync' = sync /\ failed' = failed /\ foreign' = foreign
    BY DEF Send, ApiStays
  <2>2. \A k \in Command : ReplyArrives(k) =>
          ApiStays /\ sync' = sync /\ failed' = failed /\ (foreign => foreign')
    BY DEF ReplyArrives, ApiStays
  <2> QED
    BY <2>1, <2>2 DEF ConfirmAgreementFromWeb, SimulateWalletPayment
<1>2. ASSUME NEW p \in PagesOf(Rows, Bookings), Still(page, p), NEW r, Dispatch(p, Co, r)
      PROVE  AttendInv'
  <2>1. /\ p.callId = page.callId /\ (Shows(page) => Shows(p)) /\ (Waits(p) => Waits(page))
        /\ SyncAfter(p, sync) = sync
    BY <1>2 DEF Still, Shows, Waits, SyncAfter
  <2> QED
    BY <1>1, <1>2, <2>1, MoveAttends
<1>3. CASE ConfirmAgreementFromWeb
  <2>1. \E r : Dispatch(page, Co, r)
    BY <1>3 DEF ConfirmAgreementFromWeb, Send
  <2> QED
    BY <1>2, <2>1, AttendFacts DEF Still
<1>4. CASE SimulateWalletPayment
  <2>1. \E r : Dispatch(PaymentActionStarted(page), Co, r)
    BY <1>4 DEF SimulateWalletPayment, Send
  <2> QED
    BY <1>2, <2>1, AttendFacts, RepliesStill, RepliedPages
<1>5. ASSUME NEW k \in Command, ReplyArrives(k)
      PROVE  AttendInv'
  <2> DEFINE b == req[k].booking
             state == req[k].state
             p == Replied(k, req[k])
             hints == ReplyHints(k, b, state)
             by == IF state = "rejected" THEN "nobody" ELSE "page"
             rest == [req EXCEPT ![k] = Idle]
  <2>1. state # "idle" /\ b \in Bookings
    BY <1>5, AttendFacts DEF ReplyArrives, Requests
  <2>2. p \in {Failed(page), BookingConfirmed(page), PaymentIntentCreated(page, b),
               PaymentVerified(page, b), PaymentRejected(page), PaymentStillPending(page)}
    BY DEF Replied
  <2> HIDE DEF p
  <2>3. p \in PagesOf(Rows, Bookings) /\ Still(page, p)
    BY <2>1, <2>2, AttendFacts, RepliesStill, RepliedPages
  <2>4. Dispatch(p, IF AsksAfter(k, state) THEN Request(Co, page, page.callId, hints, by) ELSE Co,
                 rest)
    BY <1>5 DEF ReplyArrives, p
  <2>5. CASE ~AsksAfter(k, state)
    <3>1. Dispatch(p, Co, rest)
      BY <2>4, <2>5
    <3> QED
      BY <1>2, <2>3, <3>1
  <2>6. CASE AsksAfter(k, state)
    <3>1. hints \in HintsOf(Bookings) /\ by \in {"page", "sync", "nobody"}
      BY <2>1 DEF ReplyHints, HintsOf, OrNone
    <3>2. page.callId \in OrNone(Rows)
      BY AttendFacts DEF PagesOf
    <3>3. GoesOn(page, p, sync, sync')
      BY <1>1, <2>3 DEF GoesOn, Still, Own, Shows, Waits
    <3>4. Waits(p) => p.callId # None /\ page.callId # None
      BY <2>3, AttendFacts DEF Attends, HasCall, Still, Waits
    <3>5. Dispatch(p, Request(Co, page, page.callId, hints, by), rest)
      BY <2>4, <2>6
    <3> HIDE DEF hints, by, rest
    <3> QED
      BY <1>1, <2>3, <3>1, <3>2, <3>3, <3>4, <3>5, AttendFacts, AskAttends
  <2> QED
    BY <2>5, <2>6
<1> QED
  BY <1>3, <1>4, <1>5

(* The voice session has stopped, or a timer fires. *)
LEMMA SyncAttends ==
  ASSUME WebInv, AttendInv, StartPostCallTranscriptSync \/ TimerFires
  PROVE  AttendInv'
<1>1. ApiStays /\ foreign' = foreign /\ failed' = failed
  BY DEF StartPostCallTranscriptSync, TimerFires, SyncTimerFires, ApiStays
<1>2. CASE StartPostCallTranscriptSync
  <2> DEFINE p == [page EXCEPT !.postCallTranscriptSync = "PENDING"]
             begun == [state |-> "waiting", callId |-> page.callId, attempts |-> 0]
  <2>1. /\ page.callId # None
        /\ Dispatch(p, Request(Co, p, p.callId, NoHints, "sync"), req)
        /\ \E n \in DOMAIN sync : sync' = [Cancelled(sync) EXCEPT ![n] = begun]
    BY <1>2 DEF StartPostCallTranscriptSync
  <2>2. /\ p \in PagesOf(Rows, Bookings) /\ p.callId = page.callId
        /\ p.transcript = page.transcript
    BY AttendFacts DEF PagesOf, SyncStatus
  <2>3. Own(p, sync')
    <3>1. PICK n \in DOMAIN sync : sync' = [Cancelled(sync) EXCEPT ![n] = begun]
      BY <2>1
    <3>2. DOMAIN Cancelled(sync) = DOMAIN sync
      BY DEF Cancelled
    <3>3. n \in DOMAIN sync' /\ sync'[n] = begun
      BY <3>1, <3>2
    <3> QED
      BY <2>2, <3>3 DEF Own
  <2> HIDE DEF p
  <2>4. GoesOn(page, p, sync, sync') /\ p.callId \in OrNone(Rows)
    BY <2>2, <2>3 DEF GoesOn, Shows, PagesOf
  <2> QED
    BY <1>1, <2>1, <2>2, <2>4, AttendFacts, AskAttends
<1>3. CASE TimerFires
  <2>1. PICK n \in DOMAIN sync : SyncTimerFires(n)
    BY <1>3 DEF TimerFires
  <2>2. /\ sync[n].state \in {"timer", "adrift"}
        /\ Dispatch(page, Request(Co, page, sync[n].callId, NoHints, "sync"), req)
        /\ sync' = [sync EXCEPT ![n].state = "waiting"]
    BY <2>1 DEF SyncTimerFires
  <2>3. sync \in SyncsOf(Rows) /\ sync[n] \in ChainsOf(Rows)
    BY AttendFacts DEF SyncsOf
  <2>4. sync[n].callId \in Rows /\ sync[n].callId # None
    BY <2>2, <2>3, RowsAreCalls, NoneAssumption DEF ChainsOf
  <2>5. \A m \in DOMAIN sync : /\ m \in DOMAIN sync' /\ sync'[m].callId = sync[m].callId
                               /\ sync[m].state # "off" => sync'[m].state # "off"
    BY <2>2, <2>3 DEF SyncsOf, ChainsOf
  <2>6. GoesOn(page, page, sync, sync')
    BY <2>5 DEF GoesOn, Own
  <2>7. (Waits(page) => page.callId # None) /\ sync[n].callId \in OrNone(Rows)
    BY <2>4, AttendFacts DEF Attends, HasCall, OrNone
  <2> QED
    BY <1>1, <2>2, <2>4, <2>6, <2>7, AttendFacts, AskAttends
<1> QED
  BY <1>2, <1>3

(* The page forgets its call, or loads again. *)
LEMMA ResetAttends ==
  ASSUME WebInv, AttendInv, Reset
  PROVE  AttendInv'
<1>1. /\ page' = InitialPage /\ sync' = Cancelled(sync)
      /\ server' = server /\ Co' = Co /\ foreign' = foreign
  BY DEF Reset, Co
<1>2. ~Waits(InitialPage) /\ InitialPage.callId = None
  BY DEF InitialPage, Waits
<1>3. SomeWait(sync') => SomeWait(sync)
  BY <1>1, AttendFacts, ChainsStay
<1>4. WholeRead(InitialPage, Co, server)
  BY <1>2, AttendFacts DEF WholeRead, Attends, RunKnows
<1>5. Attends(InitialPage, Co, sync', server, foreign', failed')
  BY <1>2, <1>3, <1>4, AttendFacts DEF Attends, HasCall
<1> QED
  BY <1>1, <1>5 DEF AttendInv

(* Reload: the page that comes back waits for nothing, and has no chain. *)
LEMMA ReloadAttends ==
  ASSUME WebInv, AttendInv, Reload
  PROVE  AttendInv'
<1>1. /\ page' = PageOf(storage) /\ active' = RecoveryOf(storage) /\ queued' = None
      /\ sync' = [n \in DOMAIN sync |-> SyncOff]
  BY DEF Reload
<1>2. ~Waits(page')
  BY <1>1 DEF PageOf, InitialPage, Resumed, Waits
<1>3. ~SomeWait(sync')
  BY <1>1 DEF SomeWait, SyncOff
<1>4. active' # None => ~active'.complete /\ active'.get = 1
  BY <1>1 DEF RecoveryOf, Run
<1>5. Co' = [active |-> active', queued |-> queued']
  BY DEF Co
<1>6. Attends(page', Co', sync', server', foreign', failed')
  BY <1>2, <1>3, <1>4, <1>5 DEF Attends, RunKnows, HasCall, WholeRead
<1> QED
  BY <1>6 DEF AttendInv

(* Another call is connected: nothing under way is of it. *)
LEMMA ConnectAttends ==
  ASSUME WebInv, AttendInv, NEW c \in Call, ConnectLiveCall(c)
  PROVE  AttendInv'
<1> DEFINE p == Connected(c)
           row == [status |-> "CREATED", turns |-> {}, stage |-> None, gate |-> "LOCKED"]
<1>1. /\ server[c] = None /\ server' = [server EXCEPT ![c] = row]
      /\ Dispatch(p, Co, req) /\ sync' = SyncAfter(InitialPage, sync)
  BY DEF ConnectLiveCall
<1>2. p.callId = c /\ ~Waits(p) /\ p.needsRecovery = FALSE
  BY DEF Connected, InitialPage, Waits
<1>3. page' = p /\ Co' = Co
  BY <1>1, <1>2 DEF Dispatch, GapAsks, Co
<1>4. SomeWait(sync') => SomeWait(sync)
  BY <1>1, AttendFacts, ChainsStay
<1>5. ASSUME active # None
      PROVE  /\ active.callId # c
             /\ active.answer # None => active.callId \in Call /\ server'[active.callId] = server[active.callId]
  <2>1. /\ active.callId \in OrNone(Rows)
        /\ active.answer # None => active.callId \in Rows
    BY <1>5, AttendFacts DEF CoFits, RunFits, RunsOf
  <2>2. c \notin OrNone(Rows)
    BY <1>1, NoneAssumption DEF Rows, OrNone
  <2>3. \A d \in Rows : d \in Call /\ server'[d] = server[d]
    BY <1>1, <2>2 DEF Rows, OrNone, WebInv, ServerFits
  <2> QED
    BY <2>1, <2>2, <2>3
<1> HIDE DEF p, row
<1>6. Attends(p, Co, sync', server', foreign', failed')
  <2>1. active # None => RunKnows(active, server')
    BY <1>5, AttendFacts DEF Attends, RunKnows
  <2>2. WholeRead(p, Co, server')
    BY <1>2, <1>5, AttendFacts DEF WholeRead
  <2> QED
    BY <1>2, <1>4, <2>1, <2>2, AttendFacts DEF Attends, HasCall
<1> QED
  BY <1>3, <1>6 DEF AttendInv

(* The API commits: turns are never taken back. *)
LEMMA ApiAttends ==
  ASSUME WebInv, FollowInv, AttendInv, ApiSide
  PROVE  AttendInv'
<1>1. UNCHANGED <<page, active, queued, sync, foreign, failed>>
  <2>1. \A c \in Call : ApiStep(c) => UNCHANGED <<page, active, queued, sync, foreign, failed>>
    BY DEF ApiStep, Unseen
  <2>2. \A k \in Command : ApiExecutes(k) => UNCHANGED <<page, active, queued, sync, foreign, failed>>
    BY DEF ApiExecutes
  <2>3. ApiExecutesLate => UNCHANGED <<page, active, queued, sync, foreign, failed>>
    BY DEF ApiExecutesLate
  <2> QED
    BY <2>1, <2>2, <2>3 DEF ApiSide
<1>2. WebInv' /\ CallsAdvance /\ Rows' = Rows
  BY ApiAdvances, ApiSteps DEF FollowInv, ApiSide, ApiStep
<1>3. ASSUME NEW d \in Rows
      PROVE  /\ server[d].turns \subseteq server'[d].turns
             /\ server[d].turns = Turn => server'[d].turns = Turn
  <2>1. d \in Call /\ server[d] # None
    BY DEF Rows
  <2>2. server[d].turns \subseteq server'[d].turns
    BY <1>2, <2>1 DEF CallsAdvance, Advances
  <2>3. server'[d].turns \subseteq Turn
    <3>1. server'[d] \in ServerRow \cup {None} /\ server'[d] # None
      BY <1>2, <2>1 DEF WebInv, ServerFits, CallsAdvance
    <3> QED
      BY <3>1 DEF ServerRow
  <2> QED
    BY <2>2, <2>3
<1>4. Co' = Co
  BY <1>1 DEF Co
<1>5. page.callId # None => page.callId \in Rows
  BY AttendFacts DEF PagesOf, OrNone
<1>6. active # None => RunKnows(active, server')
  <2> SUFFICES ASSUME active # None PROVE RunKnows(active, server')
    OBVIOUS
  <2>1. RunKnows(active, server)
    BY AttendFacts DEF Attends
  <2>2. active.answer # None => active.callId \in Rows
    BY AttendFacts DEF CoFits, RunFits
  <2> QED
    BY <1>3, <2>1, <2>2 DEF RunKnows
<1>7. ASSUME ~foreign
      PROVE  WholeRead(page, Co, server')
  <2>1. WholeRead(page, Co, server) /\ (active # None => RunKnows(active, server))
    BY <1>7, AttendFacts DEF Attends
  <2> QED
    BY <1>3, <1>5, <2>1, AttendFacts DEF WholeRead, RunKnows
<1>8. ASSUME ~foreign, Waits(page), ~Own(page, sync)
      PROVE  Left(page, Co, server', failed)
  <2>1. Left(page, Co, server, failed) /\ page.callId # None
    BY <1>8, AttendFacts DEF Attends, HasCall
  <2> QED
    BY <1>3, <1>5, <2>1 DEF Left
<1>9. Attends(page, Co, sync, server', foreign, failed)
  BY <1>6, <1>7, <1>8, AttendFacts DEF Attends
<1> QED
  BY <1>1, <1>4, <1>9 DEF AttendInv

(* It answers a read of the recovery. *)
LEMMA AnswersAttend ==
  ASSUME WebInv, AttendInv, ApiAnswers
  PROVE  AttendInv'
<1> DEFINE row == server[Subject(active)]
<1>1. /\ active # None /\ active' # None /\ active.callId \in Rows
      /\ AnsweredRun(active, active', row)
  BY RunAnswered
<1>2. UNCHANGED <<server, page, queued, sync, foreign, failed>> /\ active.answer = None
  BY DEF ApiAnswers
<1>3. active.get = 2 => active'.answer.turns = server[active.callId].turns
  BY <1>1, GetNames DEF AnsweredRun, Answer, Subject
<1>4. /\ active'.callId = active.callId /\ active'.get = active.get
      /\ active'.complete = active.complete
  BY <1>1 DEF AnsweredRun
<1>5. Co' = [active |-> active', queued |-> queued]
  BY <1>2 DEF Co
<1> DEFINE co == [active |-> active', queued |-> queued]
<1>6. co.active = active' /\ co.queued = queued
  OBVIOUS
<1> HIDE DEF row, co
<1>7. RunKnows(active', server)
  BY <1>1, <1>3, <1>4, AttendFacts DEF Attends, RunKnows
<1>8. HasCall(page, co)
  BY <1>1, <1>4, <1>6, AttendFacts DEF Attends, HasCall
<1>9. ~foreign => WholeRead(page, co, server)
  BY <1>1, <1>4, <1>6, AttendFacts DEF Attends, WholeRead
<1>10. ~foreign /\ Waits(page) => Own(page, sync) \/ Left(page, co, server, failed)
  BY <1>1, <1>3, <1>4, <1>6, AttendFacts DEF Attends, Left
<1>11. Attends(page, co, sync, server, foreign, failed)
  BY <1>1, <1>6, <1>7, <1>8, <1>9, <1>10 DEF Attends
<1> QED
  BY <1>2, <1>5, <1>11 DEF AttendInv, co

(* An answer begins no waiting, and a complete transcript ends it. *)
LEMMA SyncedWaits ==
  ASSUME NEW R, NEW B, NEW p \in PagesOf(R, B), NEW run, run.get \in 1 .. 6
  PROVE  /\ Waits(Synced(p, run)) => Waits(p)
         /\ run.get = 2 /\ Shows(Synced(p, run)) => ~Waits(Synced(p, run))
<1> DEFINE a == run.answer
<1>1. CASE run.get = 2
  <2> DEFINE turns == {<<run.callId, t>> : t \in a.turns}
             q == [p EXCEPT !.transcript = turns]
             q2 == [q EXCEPT !.postCallTranscriptSync = "COMPLETE"]
  <2>1. Synced(p, run) = Completed(q)
    BY <1>1, GetNames DEF Synced, TranscriptSynced
  <2> HIDE DEF turns
  <2>2. /\ q.postCallTranscriptSync = p.postCallTranscriptSync
        /\ q2.postCallTranscriptSync = "COMPLETE"
    BY DEF PagesOf
  <2> HIDE DEF q, q2
  <2>3. Completed(q) = IF Waits(q) /\ Shows(q) THEN q2 ELSE q
    BY DEF Completed, Waits, Shows, q2
  <2> QED
    BY <2>1, <2>2, <2>3 DEF Waits
<1>2. CASE run.get \in {1, 3, 4}
  <2> DEFINE has == IF a.hasBooking THEN run.callId ELSE p.bookingId
             booking == [of |-> BookingOf(run), status |-> a.stage]
             id == BookingOf(run)
  <2>1. Synced(p, run) = IF run.get = 1 THEN [p EXCEPT !.callStatus = a.status, !.bookingId = has]
                         ELSE IF run.get = 3 THEN [p EXCEPT !.paymentGate = a.gate]
                         ELSE [p EXCEPT !.booking = booking, !.bookingId = id]
    BY <1>2, GetNames DEF Synced, CallSynced, RiskSynced, BookingSynced
  <2> HIDE DEF has, booking, id
  <2>2. Synced(p, run).postCallTranscriptSync = p.postCallTranscriptSync
    BY <1>2, <2>1 DEF PagesOf
  <2> QED
    BY <1>2, <2>2 DEF Waits
<1>3. CASE run.get = 5
  <2> DEFINE id == BookingOf(run)
             shown == p.showPaymentDrawer /\ a.stage # "RECEIPT_ISSUED"
             q == [p EXCEPT !.paymentStatus = a.stage, !.paymentIntentId = id,
                            !.showPaymentDrawer = shown]
  <2>1. Synced(p, run) = IF a.stage \in {"AGREEMENT_READY", "AGREEMENT_LOCKED"} THEN p ELSE q
    BY <1>3, GetNames DEF Synced, PaymentStatusSynced, PaymentStatusOf
  <2> HIDE DEF id, shown
  <2>2. q.postCallTranscriptSync = p.postCallTranscriptSync
    BY DEF PagesOf
  <2> HIDE DEF q
  <2> QED
    BY <1>3, <2>1, <2>2 DEF Waits
<1>4. CASE run.get = 6
  <2> DEFINE id == ReceiptOf(run)
  <2>1. Synced(p, run) = [p EXCEPT !.receipt = id, !.receiptId = id]
    BY <1>4, GetNames DEF Synced, ReceiptSynced
  <2> HIDE DEF id
  <2>2. Synced(p, run).postCallTranscriptSync = p.postCallTranscriptSync
    BY <2>1 DEF PagesOf
  <2> QED
    BY <1>4, <2>2 DEF Waits
<1> QED
  BY <1>1, <1>2, <1>3, <1>4

(* An answer arrives: a run that has read the whole transcript has ended   *)
(* the waiting of its page.                                                *)
LEMMA AnswerAttends ==
  ASSUME WebInv, AttendInv, AnswerArrives
  PROVE  AttendInv'
<1> DEFINE p == Synced(page, active)
<1>1. /\ active # None /\ RunFits(active, Rows, Bookings) /\ active.answer # None
      /\ Get[active.get] # "twin" /\ p \in PagesOf(Rows, Bookings)
      /\ \E run2 : /\ NextRun(active, run2) /\ run2 # None
                   /\ CoFits([active |-> run2, queued |-> queued], Rows, Bookings)
                   /\ Dispatch(p, [active |-> run2, queued |-> queued], req)
  BY RunGoesOn
<1>2. PICK run2 : /\ NextRun(active, run2) /\ run2 # None
                  /\ CoFits([active |-> run2, queued |-> queued], Rows, Bookings)
                  /\ Dispatch(p, [active |-> run2, queued |-> queued], req)
  BY <1>1
<1>3. ApiStays /\ sync' = SyncAfter(p, sync) /\ failed' = failed
      /\ foreign' = (foreign \/ page.callId # active.callId \/ Subject(active) # active.callId)
  BY DEF AnswerArrives, ApiStays
<1>4. /\ active.get \in 1 .. 6 /\ active.callId \in Rows /\ active.callId # None
      /\ active.get = 2 => active.answer.turns \subseteq Turn
  <2>1. active.get \in 1 .. 7 /\ active.get # 7
    BY <1>1, GetNames DEF RunFits, RunsOf
  <2>2. active.callId \in Rows /\ AnswerFits(active, Bookings)
    BY <1>1 DEF RunFits
  <2>3. active.callId # None
    BY <2>2, RowsAreCalls, NoneAssumption
  <2> QED
    BY <2>1, <2>2, <2>3, GetNames DEF AnswerFits
<1>5. SyncedAs(page, active, p)
  BY <1>4, AttendFacts, SyncedKeeps
<1>6. /\ Waits(p) => Waits(page)
      /\ active.get = 2 /\ Shows(p) => ~Waits(p)
  BY <1>4, AttendFacts, SyncedWaits
<1>7. /\ SomeWait(sync') => SomeWait(sync)
      /\ Waits(p) => sync' = sync
  BY <1>3, AttendFacts, ChainsStay
<1>8. RunKnows(active, server) /\ HasCall(page, Co)
  BY <1>1, AttendFacts DEF Attends
<1> DEFINE co == [active |-> run2, queued |-> queued]
<1>9. co.active = run2 /\ co.queued = queued
  OBVIOUS
<1> HIDE DEF p, co
<1>10. /\ run2.callId = active.callId /\ run2.answer = None /\ run2.get \in active.get + 1 .. 7
       /\ run2.complete = IF active.get = 2 THEN active.answer.turns = Turn ELSE active.complete
       /\ active.get = 1 => run2.get = 2
  <2>1. /\ run2.callId = active.callId /\ run2.answer = None /\ run2.get \in active.get + 1 .. 7
        /\ \A m \in active.get + 1 .. run2.get - 1 : ~Wanted(run2, m)
    BY <1>2 DEF NextRun
  <2>2. run2.complete = IF active.get = 2 THEN active.answer.turns = Turn ELSE active.complete
    BY <1>2, <1>4, GetNames DEF NextRun, HasCustomerAndAgentTurns
  <2>3. Wanted(run2, 2)
    BY GetNames DEF Wanted
  <2>4. active.get = 1 => run2.get = 2
    BY <2>1, <2>3
  <2> QED
    BY <2>1, <2>2, <2>4
<1>11. RunKnows(run2, server)
  <2>1. run2.complete => run2.get > 2
    BY <1>4, <1>8, <1>10 DEF RunKnows
  <2> QED
    BY <1>4, <1>10, <2>1 DEF RunKnows
<1>12. HasCall(p, co)
  BY <1>4, <1>5, <1>6, <1>8, <1>9, <1>10, AttendFacts DEF HasCall, SyncedAs
<1>13. active.get = 2 => Shows(p) = (active.answer.turns = Turn)
  <2> SUFFICES ASSUME active.get = 2 PROVE Shows(p) = (active.answer.turns = Turn)
    OBVIOUS
  <2>1. p.transcript = {<<active.callId, t>> : t \in active.answer.turns}
    BY <1>5 DEF SyncedAs
  <2> DEFINE turns == active.answer.turns
             c == active.callId
  <2> HIDE DEF turns, c
  <2>2. p.transcript = {<<c, t>> : t \in turns}
    BY <2>1 DEF turns, c
  <2>3. {t[2] : t \in p.transcript} = turns
    <3>1. \A u \in turns : <<c, u>> \in p.transcript /\ <<c, u>>[2] = u
      BY <2>2
    <3>2. \A t \in p.transcript : t[2] \in turns
      BY <2>2
    <3> QED
      BY <3>1, <3>2
  <2> QED
    BY <2>3 DEF Shows, HasCustomerAndAgentTurns, turns
<1>14. active.get # 2 => Shows(p) = Shows(page)
  BY <1>5 DEF SyncedAs, Shows
<1>15. ASSUME ~foreign'
       PROVE  WholeRead(p, co, server)
  <2>1. ~foreign /\ page.callId = active.callId /\ p.callId = page.callId
    BY <1>3, <1>5, <1>15 DEF SyncedAs
  <2>2. WholeRead(page, Co, server)
    BY <2>1, AttendFacts DEF Attends
  <2>3. CASE active.get = 2
    <3>1. run2.complete => Shows(p) /\ ~Waits(p) /\ server[active.callId].turns = Turn
      <4>1. server[active.callId].turns \subseteq Turn
        BY <1>4 DEF Rows, WebInv, ServerFits, ServerRow
      <4> QED
        BY <1>1, <1>6, <1>8, <1>10, <1>13, <2>3, <4>1 DEF RunKnows
    <3> QED
      BY <1>9, <2>1, <3>1 DEF WholeRead
  <2>4. CASE active.get # 2
    BY <1>1, <1>6, <1>9, <1>10, <1>14, <2>1, <2>2, <2>4, AttendFacts DEF WholeRead
  <2> QED
    BY <2>3, <2>4
<1>16. ASSUME ~foreign', Waits(p), ~Own(p, sync')
       PROVE  Left(p, co, server, failed')
  <2>1. ~foreign /\ page.callId = active.callId /\ p.callId = page.callId
    BY <1>3, <1>5, <1>16 DEF SyncedAs
  <2>2. Left(page, Co, server, failed)
    <3>1. ~Own(page, sync)
      BY <1>7, <1>16, <2>1 DEF Own
    <3> QED
      BY <1>6, <1>16, <2>1, <3>1, AttendFacts DEF Attends
  <2>3. active.get # 2
    BY <1>1, <1>6, <1>13, <1>16, <2>1, <2>2, AttendFacts DEF Left
  <2>4. Shows(p) /\ server[p.callId].turns = Turn
    BY <1>14, <2>1, <2>2, <2>3 DEF Left
  <2>5. queued # None \/ run2.get = 2 \/ failed'
    BY <1>3, <1>4, <1>10, <2>2, <2>3, AttendFacts DEF Left
  <2> QED
    BY <1>2, <1>9, <1>10, <2>4, <2>5 DEF Left
<1>17. Attends(p, co, sync', server, foreign', failed')
  BY <1>2, <1>7, <1>9, <1>11, <1>12, <1>15, <1>16 DEF Attends
<1>18. p \in PagesOf(Rows, Bookings) /\ CoFits(co, Rows, Bookings) /\ Dispatch(p, co, req)
  BY <1>1, <1>2 DEF p, co
<1> QED
  BY <1>3, <1>17, <1>18, DispatchAttends

(* A run is over: the chains that waited for it set a timer, or give up    *)
(* together; those of a whole transcript leave it to the run that is       *)
(* queued.                                                                 *)
LEMMA OverAttends ==
  ASSUME WebInv, AttendInv, ApiStays, active # None,
         NEW p \in PagesOf(Rows, Bookings), Still(page, p), NEW complete \in BOOLEAN,
         RunOver(p, complete), complete => active.complete /\ active.callId # None,
         failed => failed', ~failed' => active.callId = None \/ active.get = 7
  PROVE  AttendInv'
<1> DEFINE gaveUp == GivingUp(complete)
           q == IF gaveUp # {} THEN [p EXCEPT !.postCallTranscriptSync = "TIMED_OUT"] ELSE p
           co == [active |-> After(q), queued |-> None]
           settled(last) == [n \in DOMAIN sync |-> SyncSettled(complete, last, n)]
<1>1. /\ Dispatch(q, co, req)
      /\ foreign => foreign'
      /\ ~foreign' /\ complete /\ page.callId # active.callId =>
           \A n \in Waiting : sync[n].callId # page.callId
  <2>1. Dispatch(q, co, req)
    BY DEF RunOver, After
  <2>2. foreign' = \/ foreign
                   \/ p # page /\ page.callId # active.callId
                   \/ \E n \in gaveUp : sync[n].callId # page.callId
                   \/ /\ complete /\ page.callId # active.callId
                      /\ \E n \in Waiting : sync[n].callId = page.callId
    BY DEF RunOver
  <2> HIDE DEF q, co, gaveUp
  <2> QED
    BY <2>1, <2>2
<1>2. PICK last : sync' = SyncAfter(q, settled(last))
  BY DEF RunOver
<1>3. /\ q \in PagesOf(Rows, Bookings) /\ q.callId = page.callId /\ q.transcript = page.transcript
      /\ Waits(q) => Waits(page) /\ gaveUp = {}
  <2>1. LET r == [p EXCEPT !.postCallTranscriptSync = "TIMED_OUT"]
        IN  /\ r \in PagesOf(Rows, Bookings) /\ r.callId = p.callId
            /\ r.transcript = p.transcript /\ ~Waits(r)
    BY DEF PagesOf, SyncStatus, Waits
  <2> HIDE DEF gaveUp
  <2> QED
    BY <2>1 DEF Still, Waits
<1> HIDE DEF q, co
<1>4. settled(last) \in SyncsOf(Rows) /\ sync \in SyncsOf(Rows)
  BY AttendFacts, SettledFits
<1>5. ~SomeWait(sync') /\ (Waits(q) => sync' = settled(last))
  <2>1. ~SomeWait(settled(last))
    <3>1. \A n \in DOMAIN sync : SyncSettled(complete, last, n).state # "waiting"
      <4> SUFFICES ASSUME NEW n \in DOMAIN sync PROVE SyncSettled(complete, last, n).state # "waiting"
        OBVIOUS
      <4>1. sync[n] \in ChainsOf(Rows)
        BY <1>4 DEF SyncsOf
      <4> QED
        BY <4>1 DEF SyncSettled, SyncOff, ChainsOf, Waiting
    <3> QED
      BY <3>1 DEF SomeWait
  <2> HIDE DEF settled
  <2> QED
    BY <1>2, <1>4, <2>1, ChainsStay
<1>6. co.active = After(q) /\ co.queued = None
  BY DEF co
<1>7. /\ After(q) # None => After(q).get = 1 /\ ~After(q).complete
      /\ queued # None => After(q) # None /\ After(q).callId = queued.callId
      /\ CoFits(co, Rows, Bookings)
  <2>1. queued # None => After(q) = Run(q, queued.callId, queued.hints)
    BY DEF After
  <2>2. queued = None => After(q) = None
    BY DEF After
  <2>3. queued # None =>
          RunFits(Run(q, queued.callId, queued.hints), Rows, Bookings)
    BY <1>3, AttendFacts, RunBegins DEF CoFits, QueuedFits
  <2>4. queued # None => After(q) # None
    BY <2>1, <2>3, RunsAreSome, RowsAreCalls DEF RunFits
  <2>5. queued # None => After(q).get = 1 /\ ~After(q).complete /\ After(q).callId = queued.callId
    BY <2>1 DEF Run
  <2>6. CoFits(co, Rows, Bookings)
    BY <1>6, <2>1, <2>2, <2>3 DEF CoFits, QueuedFits
  <2> QED
    BY <2>2, <2>4, <2>5, <2>6
<1>8. HasCall(page, Co)
  BY AttendFacts DEF Attends
<1>9. HasCall(q, co)
  <2>1. After(q) # None => queued # None
    BY DEF After
  <2> QED
    BY <1>3, <1>6, <1>7, <1>8, <2>1, AttendFacts DEF HasCall
<1>10. WholeRead(q, co, server) /\ (co.active # None => RunKnows(co.active, server))
  BY <1>6, <1>7 DEF WholeRead, RunKnows
<1>11. ASSUME ~foreign', Waits(q), ~Own(q, sync')
       PROVE  Left(q, co, server, failed')
  <2>1. Waits(page) /\ gaveUp = {} /\ sync' = settled(last) /\ ~foreign
    BY <1>1, <1>3, <1>5, <1>11
  <2>2. WholeRead(page, Co, server) /\ (Own(page, sync) \/ Left(page, Co, server, failed))
    BY <2>1, AttendFacts DEF Attends
  <2>3. CASE Own(page, sync)
    <3>1. PICK n \in DOMAIN sync : sync[n].state # "off" /\ sync[n].callId = page.callId
      BY <2>3 DEF Own
    <3>2. sync[n] \in ChainsOf(Rows)
      BY <1>4 DEF SyncsOf
    <3>3. n \in DOMAIN sync' /\ sync'[n] = SyncSettled(complete, last, n)
      BY <2>1
    <3>4. sync'[n].state = "off" \/ sync'[n].callId # page.callId
      BY <1>3, <1>11, <3>3 DEF Own
    <3>5. n \in Waiting /\ n \notin Retrying(complete)
      BY <3>1, <3>2, <3>3, <3>4 DEF SyncSettled, ChainsOf, Waiting, Retrying
    <3>6. complete
      BY <2>1, <3>5 DEF Retrying, GivingUp
    <3>7. active.complete /\ active.callId = page.callId
      BY <1>1, <1>11, <3>1, <3>5, <3>6
    <3>8. Shows(page) /\ server[page.callId].turns = Turn /\ queued # None
      BY <2>1, <2>2, <3>7, AttendFacts DEF WholeRead
    <3> QED
      BY <1>3, <1>6, <1>7, <3>8 DEF Left, Shows
  <2>4. CASE Left(page, Co, server, failed)
    <3>1. queued # None \/ failed'
      BY <1>8, <2>1, <2>4, AttendFacts DEF Left, HasCall
    <3> QED
      BY <1>3, <1>6, <1>7, <2>4, <3>1 DEF Left, Shows
  <2> QED
    BY <2>2, <2>3, <2>4
<1>12. Attends(q, co, sync', server, foreign', failed')
  BY <1>5, <1>9, <1>10, <1>11 DEF Attends
<1> QED
  BY <1>1, <1>3, <1>7, <1>12, DispatchAttends

(* A recovery ends or fails, and the queued one takes its place. *)
LEMMA RecoveryOverAttends ==
  ASSUME WebInv, AttendInv, RecoveryEnds \/ RecoveryFails
  PROVE  AttendInv'
<1>1. ApiStays /\ active # None
  BY DEF RecoveryEnds, RecoveryFails, ApiStays
<1>2. /\ page \in PagesOf(Rows, Bookings) /\ Still(page, page)
      /\ RecoveryComplete(page) \in PagesOf(Rows, Bookings) /\ Still(page, RecoveryComplete(page))
      /\ Failed(page) \in PagesOf(Rows, Bookings) /\ Still(page, Failed(page))
  <2>1. page \in PagesOf(Rows, Bookings) /\ Rows \in SUBSET Call
    BY AttendFacts
  <2>2. /\ RecoveryComplete(page) \in PagesOf(Rows, Bookings)
        /\ Failed(page) \in PagesOf(Rows, Bookings)
    BY <2>1, RepliedPages, SyncedPages
  <2> QED
    BY <2>1, <2>2, RepliesStill DEF Still
<1>3. CASE RecoveryEnds
  <2>1. failed' = failed
    BY <1>3 DEF RecoveryEnds
  <2>2. CASE active.callId = None /\ RunOver(page, FALSE)
    BY <1>1, <1>2, <2>1, <2>2, OverAttends
  <2>3. CASE /\ active.answer # None /\ Get[active.get] = "twin"
             /\ RunOver(RecoveryComplete(page), active.complete)
    <3>1. RunFits(active, Rows, Bookings)
      BY <1>1, AttendFacts DEF CoFits
    <3>2. active.complete \in BOOLEAN /\ active.get \in 1 .. 7
      BY <3>1, GetNames DEF RunFits, RunsOf
    <3>3. active.callId \in Rows /\ active.callId # None
      BY <2>3, <3>1, RowsAreCalls, NoneAssumption DEF RunFits
    <3>4. active.get = 7
      BY <2>3, <3>2, GetNames
    <3> QED
      BY <1>1, <1>2, <2>1, <2>3, <3>2, <3>3, <3>4, OverAttends
  <2> QED
    BY <1>3, <2>2, <2>3 DEF RecoveryEnds
<1>4. CASE RecoveryFails
  <2>1. failed' = TRUE /\ (RunOver(Failed(page), FALSE) \/ RunOver(page, FALSE))
    BY <1>4 DEF RecoveryFails
  <2> QED
    BY <1>1, <1>2, <2>1, OverAttends
<1> QED
  BY <1>3, <1>4

(* At the start nothing waits. *)
LEMMA AttendStarts == WebInit => AttendInv
<1> SUFFICES ASSUME WebInit PROVE AttendInv
  OBVIOUS
<1>1. /\ active = None /\ queued = None
      /\ sync = [n \in 1 .. MaxChains |-> SyncOff]
      /\ \/ page = InitialPage
         \/ \E c \in Call, stage \in Started : page = Settled(c, stage)
  BY DEF WebInit
<1>2. ~SomeWait(sync)
  BY <1>1 DEF SomeWait, SyncOff
<1>3. ASSUME NEW c \in Call, NEW stage \in Started
      PROVE  ~Waits(Settled(c, stage))
  BY SettledShows DEF StartsAs, Waits
<1>4. ~Waits(page)
  BY <1>1, <1>3 DEF InitialPage, Waits
<1>5. Co.active = None /\ Co.queued = None
  BY <1>1 DEF Co
<1> QED
  BY <1>2, <1>4, <1>5 DEF AttendInv, Attends, HasCall, WholeRead

(* Every step keeps AttendInv. *)
LEMMA AttendStep == WebInv /\ FollowInv /\ AttendInv /\ [WebNext]_vars => AttendInv'
<1> SUFFICES ASSUME WebInv, FollowInv, AttendInv, [WebNext]_vars PROVE AttendInv'
  OBVIOUS
<1>1. CASE ApiSide
  BY <1>1, ApiAttends
<1>2. CASE \E c \in Call : ConnectLiveCall(c)
  BY <1>2, ConnectAttends
<1>3. CASE PageSide
  <2>1. CASE Skip \/ Drop \/ (\E k \in Command : RequestLost(k)) \/ UNCHANGED vars
    <3>1. UNCHANGED <<server, page, active, queued, sync, foreign>> /\ (failed => failed')
      BY <2>1 DEF Skip, Drop, RequestLost, vars
    <3> QED
      BY <3>1, RestAttends
  <2> QED
    BY <1>3, <2>1, AnswersAttend, AnswerAttends, RecoveryOverAttends, StreamAttends,
       ResetAttends, ReloadAttends, CommandAttends, SyncAttends DEF PageSide
<1> QED
  BY <1>1, <1>2, <1>3, Sides

(* A page that waits for the provider's history has something under way    *)
(* that will end the waiting, however many stops, joined recoveries and    *)
(* other calls' chains there are (usePostCallTranscriptSync, the queue of  *)
(* useServerSessionRecovery).                                              *)
THEOREM WaitingIsAttended == WebSpec => []PendingIsAttended
<1>1. WebInv /\ AttendInv => PendingIsAttended
  <2> SUFFICES ASSUME WebInv, AttendInv, Waits(page), ~foreign,
                      ~\E n \in DOMAIN sync :
                         /\ sync[n].callId = page.callId
                         /\ \/ sync[n].state \in {"timer", "adrift"}
                            \/ sync[n].state = "waiting" /\ active # None
               PROVE  /\ BothShown
                      /\ \/ queued # None
                         \/ active # None /\ active.get \in {1, 2}
                         \/ failed
    BY DEF PendingIsAttended, Waits
  <2>1. ~Own(page, sync)
    <3> SUFFICES ASSUME NEW n \in DOMAIN sync, sync[n].state # "off", sync[n].callId = page.callId
                 PROVE  FALSE
      BY DEF Own
    <3>1. sync[n] \in ChainsOf(Rows)
      BY AttendFacts DEF SyncsOf
    <3>2. sync[n].state = "waiting"
      BY <3>1 DEF ChainsOf
    <3>3. active # None
      BY <3>2, AttendFacts DEF Attends, SomeWait
    <3> QED
      BY <3>2, <3>3
  <2>2. Left(page, Co, server, failed)
    BY <2>1, AttendFacts DEF Attends
  <2> QED
    BY <2>2, AttendFacts DEF Left, Shows, BothShown
<1> QED
  BY WebInitFits, WebStepFits, FollowStarts, FollowStep, AttendStarts, AttendStep, <1>1, PTL
     DEF WebSpec
=============================================================================
