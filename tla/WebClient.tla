----------------------------- MODULE WebClient -----------------------------
(***************************************************************************)
(* The operator's page of the web client against the API: the event stream *)
(* and its batches, the single-flight recovery that reloads the read       *)
(* models, the page's own commands, the synchronisation after a call, the  *)
(* session storage and a reload of the page                                *)
(* (apps/web/src/lib/sseClient.js, features/simulation/hooks).             *)
(*                                                                         *)
(* The API is reduced to what it answers and the events it appends;        *)
(* BookingFlow, TranscriptAdmission and EventLog model it.  A mishap is an *)
(* event the stream skips, a broken connection, a failed request, a reload *)
(* or a reset.  Budget bounds how many commits, stops of the voice session *)
(* and mishaps there are in all.                                           *)
(***************************************************************************)
EXTENDS WebPage, FiniteSets

CONSTANTS SyncAttempts,   \* attempts to complete a transcript after a call
          Budget,         \* bound: commits, stops and mishaps after the start, by the stage
                          \* the page's call has come to by then
          MaxChains       \* bound: synchronisations under way at a time

\* The stages a behaviour may start with; without a call it starts as with none.
Started == DOMAIN Budget

ASSUME SyncAttemptsAssumption == SyncAttempts \in Nat \ {0}
ASSUME StartedAssumption ==
    {None} \subseteq Started
      /\ Started \subseteq {None, "AGREEMENT_READY", "AGREEMENT_LOCKED", "PAYMENT_PENDING"}
ASSUME BudgetAssumption == Budget \in [Started -> Nat]
ASSUME MaxChainsAssumption == MaxChains \in Nat

Command == {"confirm", "create", "verify"}
Get == <<"call", "transcript", "risk", "booking", "payment", "receipt", "twin">>
Idle == [state |-> "idle", booking |-> None]
NoHints == [bookingId |-> None, paymentIntentId |-> None, receiptId |-> None]

VARIABLES
    server,     \* call -> what the API answers about it, None before it exists
    stream,     \* call -> its committed events
    page,       \* the reducer's state
    storage,    \* the session storage
    sse,        \* the SSE client: its call, the next event, whether it is connected
    batch,      \* events received and not yet dispatched, by sequence number
    active,     \* the recovery that runs, None when none does
    queued,     \* the recovery that runs next
    sync,       \* the chains of attempts after a call
    req,        \* command -> the page's request in flight
    late,       \* requests nobody waits for any more, still on their way
    budget,     \* commits, stops and mishaps that may still come
    failed,     \* history: a request has failed since the page was loaded
    foreign,    \* history: an answer about one call was taken for another's
    missed      \* history: the stream skipped an event that no recovery makes up for

vars == <<server, stream, page, storage, sse, batch, active, queued, sync,
          req, late, budget, failed, foreign, missed>>
serverVars == <<server, stream, budget>>
recoveryVars == <<active, queued>>

NoStream == [callId |-> None, next |-> 1, up |-> FALSE]

\* A chain of attempts: it waits for the recovery that runs, or for a timer.
\* cancel() knows the timer that was set last; one set earlier is adrift.
SyncOff == [state |-> "off", callId |-> None, attempts |-> 0]
Cancelled(chains) ==
    [n \in DOMAIN chains |-> IF chains[n].state = "timer" THEN SyncOff ELSE chains[n]]
Free(chains) == {n \in DOMAIN chains : chains[n].state = "off"}
Waiting == {n \in DOMAIN sync : sync[n].state = "waiting"}

\* A commit, a stop or a mishap, of which there may be so many.
Spent == budget > 0 /\ budget' = budget - 1

-----------------------------------------------------------------------------
(* The API commits.                                                        *)

Ev(name, c, data) == [event |-> name, bookingId |-> c, data |-> data]
CallEv(name, data) == [event |-> name, bookingId |-> None, data |-> data]

\* The events each commit appends, in the code's order; an event that only
\* repeats what another of the same commit says is left out.
CreatedEvents == <<CallEv("call.created", "CREATED")>>
GreetingEvents == <<CallEv("transcript.turn.created", "agent")>>
DraftEvents(c) == <<Ev("transcript.turn.created", c, "customer"),
                    Ev("booking.updated", c, "AGREEMENT_READY"),
                    Ev("risk.payment_gate.updated", c, "READY_FOR_CONFIRMATION"),
                    Ev("transcript.analysis.updated", c, None)>>
LockEvents(c) == <<Ev("agreement.locked", c, None),
                   Ev("risk.payment_gate.updated", c, "UNLOCKED")>>
IntentEvents(c) == <<Ev("payment.intent.created", c, None)>>
PaidEvents(c) == <<Ev("payment.confirmed", c, None), Ev("receipt.verified", c, None)>>

\* A call that has come to `stage` at the start, and its events: the agent has
\* greeted, or the customer has said all there is to say.
RowAt(stage) ==
    [status |-> IF stage = None THEN "CREATED" ELSE "ACTIVE",
     turns |-> IF stage = None THEN {"agent"} ELSE {"customer"}, stage |-> stage,
     gate |-> IF stage = None THEN "LOCKED"
              ELSE IF stage = "AGREEMENT_READY" THEN "READY_FOR_CONFIRMATION" ELSE "UNLOCKED"]
EventsAt(stage, c) ==
    CreatedEvents
    \o (IF stage = None THEN GreetingEvents ELSE DraftEvents(c))
    \o (IF stage \in {None, "AGREEMENT_READY"} THEN <<>> ELSE LockEvents(c))
    \o (IF stage = "PAYMENT_PENDING" THEN IntentEvents(c) ELSE <<>>)

Commit(c, row, events) ==
    /\ Spent
    /\ server' = [server EXCEPT ![c] = row]
    /\ stream' = [stream EXCEPT ![c] = @ \o events]

\* A final turn of the customer completes the booking.
CustomerTurn(c) ==
    /\ server[c] # None /\ server[c].status # "ENDED" /\ server[c].stage = None
    /\ Commit(c, [status |-> "ACTIVE", turns |-> server[c].turns \cup {"customer"},
                  stage |-> "AGREEMENT_READY", gate |-> "READY_FOR_CONFIRMATION"],
              DraftEvents(c))

\* A turn of the agent, live or from the provider's history after the end.
AgentTurn(c) ==
    /\ server[c] # None /\ "agent" \notin server[c].turns
    /\ Commit(c, [server[c] EXCEPT !.turns = @ \cup {"agent"}],
              <<Ev("transcript.turn.created", IF server[c].stage = None THEN None ELSE c,
                   "agent")>>)

Locked(c) ==
    /\ server[c] # None /\ server[c].stage = "AGREEMENT_READY"
    /\ Commit(c, [server[c] EXCEPT !.stage = "AGREEMENT_LOCKED", !.gate = "UNLOCKED"],
              LockEvents(c))

Opened(c) ==
    /\ server[c].stage = "AGREEMENT_LOCKED"
    /\ Commit(c, [server[c] EXCEPT !.stage = "PAYMENT_PENDING"], IntentEvents(c))

Confirmed(c) ==
    /\ server[c].stage = "PAYMENT_PENDING"
    /\ Commit(c, [server[c] EXCEPT !.stage = "RECEIPT_ISSUED"], PaidEvents(c))

\* The verification is rejected; no assessment is written, so the gate stays.
Rejected(c) ==
    /\ server[c].stage = "PAYMENT_PENDING"
    /\ Commit(c, [server[c] EXCEPT !.stage = "MANUAL_REVIEW_REQUIRED"],
              <<Ev("payment.failed", c, None)>>)

Ended(c) ==
    /\ server[c] # None /\ server[c].status # "ENDED"
    /\ Commit(c, [server[c] EXCEPT !.status = "ENDED"], <<CallEv("call.ended", "ENDED")>>)

-----------------------------------------------------------------------------
(* The single-flight recovery.                                             *)

\* A run of the recovery: whose call it reads, the ids it was given and those
\* it began with, the GET it is at and the answer to it.
IdHints == [bookingId : Ids, paymentIntentId : Ids, receiptId : Ids]
ApiAnswer == [status : {"CREATED", "ACTIVE", "ENDED"}, hasBooking : BOOLEAN]
             \cup [turns : SUBSET Turn] \cup [gate : PageGate]
             \cup [stage : BookingStage] \cup [found : BOOLEAN]
RunRow == [callId : Ids, hints : IdHints, get : 1 .. Len(Get), answer : ApiAnswer \cup {None},
           hasBooking : BOOLEAN, complete : BOOLEAN, state : IdHints, heard : BOOLEAN]

\* What waits for the run to end: whose call to read next, and with which ids.
QueuedRow == [callId : Ids, hints : IdHints]

ASSUME NoRunAssumption == None \notin RunRow \cup QueuedRow

\* A run keeps the ids the page had when it began.
Run(p, c, hints) ==
    [callId |-> c, hints |-> hints, get |-> 1, answer |-> None,
     hasBooking |-> FALSE, complete |-> FALSE,
     state |-> [bookingId |-> p.bookingId, paymentIntentId |-> p.paymentIntentId,
                receiptId |-> p.receiptId],
     heard |-> FALSE]

Merged(old, new) == [f \in DOMAIN new |-> IF new[f] # None THEN new[f] ELSE old[f]]

\* Mutant of Request: a request during a run is dropped.
RequestDropped(co, p, c, hints, by) ==
    LET run == IF co.active = None THEN Run(p, c, hints) ELSE co.active
    IN  [active |-> [run EXCEPT !.heard = @ \/ by = "page"],
         queued |-> co.queued]

\* request(): run now, or queue behind the run that is active; whoever asks
\* waits for the active run.  `by` is the page, which shows a failure, the
\* synchronisation, or a caller that ignores one.
Request(co, p, c, hints, by) ==
    LET run == IF co.active = None THEN Run(p, c, hints) ELSE co.active
    IN  [active |-> [run EXCEPT !.heard = @ \/ by = "page"],
         queued |-> IF co.active = None THEN co.queued
                    ELSE [callId |-> c,
                          hints |-> IF co.queued = None THEN hints
                                    ELSE Merged(co.queued.hints, hints)]]

Co == [active |-> active, queued |-> queued]

\* The page's effect: a gap asks for a recovery when needsRecovery is raised.
GapAsks(co, p) ==
    IF p.needsRecovery /\ ~page.needsRecovery /\ p.callId # None
    THEN Request(co, p, p.callId, NoHints, "page") ELSE co

\* The page's effect: a locked agreement with an open gate creates an intent.
WantsIntent(p) ==
    /\ p.booking # None /\ p.booking.status = "AGREEMENT_LOCKED"
    /\ p.paymentGate = "UNLOCKED" /\ p.paymentIntentId = None

IntentAsked(r, p) ==
    IF WantsIntent(p) /\ ~WantsIntent(page) /\ p.bookingId # None
       /\ r["create"].state = "idle"
    THEN [r EXCEPT !["create"] = [state |-> "sent", booking |-> p.bookingId]] ELSE r

\* A dispatch: the new page, its effects, and the requests the handler made.
Dispatch(p, co, r) ==
    /\ page' = p
    /\ storage' = Persisted(p, storage)
    /\ LET asked == GapAsks(co, p) IN active' = asked.active /\ queued' = asked.queued
    /\ req' = IntentAsked(r, p)

\* The synchronisation's effect: when its status changes, and not to PENDING, the
\* timer is cancelled.
SyncAfter(p, chains) ==
    IF p.postCallTranscriptSync \notin {page.postCallTranscriptSync, "PENDING"}
    THEN Cancelled(chains) ELSE chains

\* The booking a run asks for, and whether it asks for payment and receipt.
BookingOf(run) ==
    IF run.hints.bookingId # None THEN run.hints.bookingId
    ELSE IF run.hasBooking THEN run.callId ELSE run.state.bookingId
ReceiptOf(run) ==
    IF run.hints.receiptId # None THEN run.hints.receiptId ELSE run.state.receiptId
AsksForPayment(run) ==
    run.hints.paymentIntentId # None \/ run.state.paymentIntentId # None

Wanted(run, get) ==
    CASE Get[get] = "risk"    -> run.hasBooking
      [] Get[get] = "booking" -> BookingOf(run) # None
      [] Get[get] = "payment" -> BookingOf(run) # None /\ AsksForPayment(run)
      [] Get[get] = "receipt" -> ReceiptOf(run) # None
      [] OTHER                -> TRUE

\* The call or booking a GET of the run is about.
Subject(run) ==
    CASE Get[run.get] \in {"booking", "payment"} -> BookingOf(run)
      [] Get[run.get] = "receipt" -> ReceiptOf(run)
      [] OTHER -> run.callId

\* What a GET shows of a call's row.
Answer(get, row) ==
    CASE get = "call"       -> [status |-> row.status, hasBooking |-> row.stage # None]
      [] get = "transcript" -> [turns |-> row.turns]
      [] get = "risk"       -> [gate |-> row.gate]
      [] get \in {"booking", "payment"} -> [stage |-> row.stage]
      [] OTHER              -> [found |-> TRUE]

\* The API answers the run's GET with what it has committed by then.
ApiAnswers ==
    /\ active # None /\ active.callId # None /\ active.answer = None
    /\ active' = [active EXCEPT !.answer = Answer(Get[active.get], server[Subject(active)])]
    /\ UNCHANGED <<server, stream, budget, page, storage, sse, batch, queued, sync, req,
                   late, failed, foreign, missed>>

NextGet(run) == CHOOSE n \in run.get + 1 .. Len(Get) :
                /\ Wanted(run, n)
                /\ \A m \in run.get + 1 .. n - 1 : ~Wanted(run, m)

\* What the answer makes of the page.
Synced(p, run) ==
    CASE Get[run.get] = "call"       -> CallSynced(p, run.callId, run.answer)
      [] Get[run.get] = "transcript" -> TranscriptSynced(p, run.callId, run.answer)
      [] Get[run.get] = "risk"       -> RiskSynced(p, run.answer)
      [] Get[run.get] = "booking"    -> BookingSynced(p, BookingOf(run), run.answer)
      [] Get[run.get] = "payment"    ->
            IF run.answer.stage \in {"AGREEMENT_READY", "AGREEMENT_LOCKED"} THEN p
            ELSE PaymentStatusSynced(p, BookingOf(run), run.answer)
      [] Get[run.get] = "receipt"    -> ReceiptSynced(p, ReceiptOf(run))
      [] OTHER                       -> RecoveryComplete(p)

\* The answer arrives: dispatch it and send the next GET.
AnswerArrives ==
    /\ active # None /\ active.answer # None /\ Get[active.get] # "twin"
    /\ LET now == [active EXCEPT
                      !.hasBooking = IF Get[active.get] = "call" THEN active.answer.hasBooking
                                     ELSE @,
                      !.complete = IF Get[active.get] = "transcript"
                                   THEN HasCustomerAndAgentTurns(active.answer.turns) ELSE @]
           p == Synced(page, active)
       IN  /\ Dispatch(p, [Co EXCEPT !.active = [now EXCEPT !.get = NextGet(now), !.answer = None]],
                       req)
           /\ sync' = SyncAfter(p, sync)
    /\ foreign' = (foreign \/ page.callId # active.callId \/ Subject(active) # active.callId)
    /\ UNCHANGED <<server, stream, budget, sse, batch, late, failed, missed>>

\* Mutant of GivingUp: a chain that gives up says nothing to the page.
GivesUpInSilence(complete) == {}

GivesUp(chain) == chain.attempts + 1 >= SyncAttempts

\* The chains that fail with the run and set a timer, or give up.
Retrying(complete) == IF complete THEN {} ELSE {n \in Waiting : ~GivesUp(sync[n])}
GivingUp(complete) == IF complete THEN {} ELSE {n \in Waiting : GivesUp(sync[n])}

\* Chain n when the run is over, where chain `last` is the last to set its timer.
SyncSettled(complete, last, n) ==
    LET chain == sync[n]
    IN  IF n \in Retrying(complete)
        THEN [chain EXCEPT !.state = IF n = last THEN "timer" ELSE "adrift", !.attempts = @ + 1]
        ELSE IF n \in Waiting THEN SyncOff
        ELSE IF chain.state = "timer" /\ Retrying(complete) # {}
        THEN [chain EXCEPT !.state = "adrift"] ELSE chain

\* A run is over: the queued run begins, and the chains that waited go on.
RunOver(p, complete) ==
    LET gaveUp == GivingUp(complete)
        given  == IF gaveUp # {} THEN [p EXCEPT !.postCallTranscriptSync = "TIMED_OUT"] ELSE p
    IN  /\ Dispatch(given,
                    [active |-> IF queued = None THEN None
                                ELSE Run(given, queued.callId, queued.hints),
                     queued |-> None], req)
        /\ \E last \in IF Retrying(complete) = {} THEN {0} ELSE Retrying(complete) :
              sync' = SyncAfter(given, [n \in DOMAIN sync |-> SyncSettled(complete, last, n)])
        /\ foreign' = \/ foreign
                      \/ p # page /\ page.callId # active.callId
                      \/ \E n \in gaveUp : sync[n].callId # page.callId
                      \/ /\ complete /\ page.callId # active.callId
                         /\ \E n \in Waiting : sync[n].callId = page.callId

\* The last answer: the recovery is complete.  Without a call there is nothing to read.
RecoveryEnds ==
    /\ active # None
    /\ \/ /\ active.callId = None
          /\ RunOver(page, FALSE)
       \/ /\ active.answer # None /\ Get[active.get] = "twin"
          /\ RunOver(RecoveryComplete(page), active.complete)
    /\ UNCHANGED <<server, stream, budget, sse, batch, late, failed, missed>>

\* A GET fails: the run is over.  The page learns of it only when somebody
\* asked while this run was active; a queued run that nobody joined fails
\* in silence.  A failed payment status is ignored by the code.
RecoveryFails ==
    /\ Spent
    /\ active # None /\ active.callId # None /\ Get[active.get] # "payment"
    /\ failed' = TRUE
    /\ RunOver(IF active.heard THEN Failed(page) ELSE page, FALSE)
    /\ UNCHANGED <<server, stream, sse, batch, late, missed>>

-----------------------------------------------------------------------------
(* The event stream.                                                       *)

RecoveryEvent == {"transcript.analysis.updated", "booking.updated", "agreement.locked",
                  "payment.intent.created", "payment.confirmed", "payment.failed",
                  "receipt.verified", "call.ended"}

\* recoveryHintsForEvent: only opaque ids.
Hints(e) ==
    [bookingId |-> e.bookingId,
     paymentIntentId |-> IF e.event \in {"payment.intent.created", "payment.confirmed",
                                         "payment.failed"} THEN e.bookingId ELSE None,
     receiptId |-> IF e.event = "receipt.verified" THEN e.bookingId ELSE None]

Awaits == sse.callId # None /\ sse.up /\ sse.next <= Len(stream[sse.callId])

\* onEvent: the event joins the batch; one that needs the read models flushes
\* the batch and asks for a recovery.
Receive ==
    /\ Awaits
    /\ LET e == stream[sse.callId][sse.next]
           filled == Append(batch, sse.next)
       IN  IF e.event \notin RecoveryEvent
           THEN /\ batch' = filled
                /\ UNCHANGED <<page, storage, active, queued, req, sync>>
           ELSE LET p == ApplyServerEvents(page, sse.callId, stream[sse.callId], filled)
                IN  /\ batch' = <<>>
                    /\ Dispatch(p, Request(Co, page, sse.callId, Hints(e), "page"), req)
                    /\ sync' = SyncAfter(p, sync)
    /\ sse' = [sse EXCEPT !.next = @ + 1]
    /\ UNCHANGED <<server, stream, budget, late, failed, foreign, missed>>

\* The batch leaves a gap in the sequence numbers (rememberEvent).
Gap(p, sequences) ==
    \E n \in DOMAIN sequences :
        LET before == IF n = 1 THEN p.lastSequence ELSE sequences[n - 1]
        IN  before # 0 /\ sequences[n] > before + 1

\* The timer of 16 ms flushes the batch.  A gap asks for nothing while the page
\* waits for the recovery an earlier one has asked for.
Flush ==
    /\ batch # <<>>
    /\ LET p == ApplyServerEvents(page, sse.callId, stream[sse.callId], batch)
       IN  Dispatch(p, Co, req) /\ sync' = SyncAfter(p, sync)
    /\ batch' = <<>>
    /\ missed' = (missed \/ (page.needsRecovery /\ Gap(page, batch)))
    /\ UNCHANGED <<server, stream, budget, sse, late, failed, foreign>>

\* The stream skips an event (EventLog's event_lost), never the latest one nor
\* the first, which is committed with the call before a page knows its id.
\* Nothing but its event tells the page that there is a receipt.
Skip ==
    /\ Spent /\ Awaits /\ sse.next \in 2 .. Len(stream[sse.callId]) - 1
    /\ sse' = [sse EXCEPT !.next = @ + 1]
    /\ missed' = (missed \/ stream[sse.callId][sse.next].event = "receipt.verified")
    /\ UNCHANGED <<server, stream, page, storage, batch, active, queued, sync,
                   req, late, failed, foreign>>

Drop ==
    /\ Spent /\ sse.up
    /\ sse' = [sse EXCEPT !.up = FALSE]
    /\ UNCHANGED <<server, stream, page, storage, batch, active, queued, sync,
                   req, late, failed, foreign, missed>>

\* The client connects again from its Last-Event-ID and asks for a recovery.
Reconnect ==
    /\ sse.callId # None /\ ~sse.up
    /\ sse' = [sse EXCEPT !.up = TRUE]
    /\ Dispatch(page, Request(Co, page, sse.callId, NoHints, "page"), req)
    /\ UNCHANGED <<server, stream, budget, batch, sync, late, failed, foreign,
                   missed>>

-----------------------------------------------------------------------------
(* Calls, resets and reloads.                                              *)

Connect(c) == sse' = [callId |-> c, next |-> 1, up |-> TRUE] /\ batch' = <<>>

\* connectLiveCall, with the call the API has just created.  Nothing of the
\* page's earlier requests is cancelled.
ConnectLiveCall(c) ==
    /\ server[c] = None
    /\ server' = [server EXCEPT ![c] = [status |-> "CREATED", turns |-> {}, stage |-> None,
                                        gate |-> "LOCKED"]]
    /\ stream' = [stream EXCEPT ![c] = CreatedEvents]
    /\ Connect(c)
    /\ Dispatch(Connected(c), Co, req)
    /\ sync' = SyncAfter(InitialPage, sync)
    /\ failed' = FALSE /\ foreign' = FALSE /\ missed' = FALSE
    /\ UNCHANGED <<late, budget>>

\* resetSimulation ends the call without waiting and forgets it.
Reset ==
    /\ Spent /\ page.callId # None
    /\ late' = IF page.callStatus \in ClosedCall THEN late
               ELSE late \cup {[command |-> "end", booking |-> page.callId]}
    /\ page' = InitialPage /\ storage' = None
    /\ sse' = NoStream /\ batch' = <<>>
    /\ sync' = Cancelled(sync)
    /\ UNCHANGED <<server, stream, active, queued, req, failed, foreign, missed>>

Forgotten == {[command |-> k, booking |-> req[k].booking] :
                 k \in {k \in Command : req[k].state = "sent"}}

\* Opening the page: it resumes the stored call, reads its stream from the
\* beginning and recovers; without one it is empty.
PageOf(stored) == IF stored = None THEN InitialPage ELSE Resumed(stored)
StreamOf(stored) ==
    IF stored = None THEN NoStream ELSE [callId |-> stored.callId, next |-> 1, up |-> TRUE]
RecoveryOf(stored) ==
    IF stored = None THEN None
    ELSE [Run(InitialPage, stored.callId,
              [NoHints EXCEPT !.bookingId = stored.bookingId,
                              !.paymentIntentId = stored.paymentIntentId])
             EXCEPT !.heard = TRUE]

\* A reload: everything but the storage is gone.
Reload ==
    /\ Spent
    /\ page' = PageOf(storage) /\ sse' = StreamOf(storage)
    /\ active' = RecoveryOf(storage) /\ queued' = None
    /\ batch' = <<>> /\ sync' = [n \in DOMAIN sync |-> SyncOff]
    /\ failed' = FALSE /\ missed' = FALSE
    /\ late' = late \cup Forgotten
    /\ req' = [k \in Command |-> Idle]
    /\ foreign' = (storage # None /\ \E f \in {"bookingId", "paymentIntentId"} :
                                       storage[f] \notin {None, storage.callId})
    /\ UNCHANGED <<server, stream, storage>>

\* A page that has connected call c, received its events and read it again
\* since; its drawer is open while the payment is.
Settled(c, stage) ==
    LET row == RowAt(stage)
        seen == [Connected(c) EXCEPT !.lastSequence = Len(EventsAt(stage, c))]
        read == RiskSynced(TranscriptSynced(CallSynced(seen, c, Answer("call", row)), c, row), row)
    IN  IF stage = "PAYMENT_PENDING"
        THEN PaymentStatusSynced(PaymentIntentCreated(BookingSynced(read, c, row), c), c, row)
        ELSE IF stage # None THEN BookingSynced(read, c, row) ELSE read

\* The page has a call that has come some way, or none.
WebInit ==
    /\ \/ \E c \in Call, stage \in Started :
             /\ server = [d \in Call |-> IF d = c THEN RowAt(stage) ELSE None]
             /\ stream = [d \in Call |-> IF d = c THEN EventsAt(stage, c) ELSE <<>>]
             /\ page = Settled(c, stage) /\ budget = Budget[stage]
             /\ sse = [callId |-> c, next |-> Len(stream[c]) + 1, up |-> TRUE]
       \/ /\ server = [c \in Call |-> None] /\ stream = [c \in Call |-> <<>>]
          /\ page = InitialPage /\ sse = NoStream /\ budget = Budget[None]
    /\ storage = Persisted(page, None) /\ batch = <<>>
    /\ active = None /\ queued = None /\ sync = [n \in 1 .. MaxChains |-> SyncOff]
    /\ req = [k \in Command |-> IF k = "create" /\ WantsIntent(page)
                               THEN [state |-> "sent", booking |-> page.bookingId] ELSE Idle]
    /\ late = {} /\ failed = FALSE /\ foreign = FALSE /\ missed = FALSE

-----------------------------------------------------------------------------
(* The page's commands.                                                    *)

Send(k, b, p) ==
    /\ req[k].state = "idle"
    /\ Dispatch(p, Co, [req EXCEPT ![k] = [state |-> "sent", booking |-> b]])
    /\ UNCHANGED <<server, stream, budget, sse, batch, sync, late, failed,
                   foreign, missed>>

\* The customer's "yes" on the page.
ConfirmAgreementFromWeb ==
    /\ page.booking # None /\ page.booking.status = "AGREEMENT_READY"
    /\ page.booking.of # None
    /\ page.paymentGate = "READY_FOR_CONFIRMATION"
    /\ Send("confirm", page.booking.of, page)

\* The wallet button, and the poll of an opened wallet.
SimulateWalletPayment ==
    /\ page.paymentIntent # None /\ ~page.paymentActionPending /\ page.showPaymentDrawer
    /\ Send("verify", page.paymentIntent, PaymentActionStarted(page))

\* The API commits what a request asks for, or refuses it.
Executes(k, b, state) ==
    CASE k = "confirm" /\ state = "ok"       -> Locked(b)
      [] k = "create"  /\ state = "ok"       -> Opened(b)
      [] k = "verify"  /\ state = "ok"       -> Confirmed(b)
      [] k = "verify"  /\ state = "rejected" -> Rejected(b)
      [] k = "verify"  /\ state = "pending"  -> server[b].stage = "PAYMENT_PENDING"
                                                /\ UNCHANGED serverVars
      [] k = "confirm" /\ state = "refused"  -> server[b].stage # "AGREEMENT_READY"
                                                /\ UNCHANGED serverVars
      [] k = "create"  /\ state = "refused"  -> server[b].stage # "AGREEMENT_LOCKED"
                                                /\ UNCHANGED serverVars
      [] k = "verify"  /\ state = "refused"  -> server[b].stage # "PAYMENT_PENDING"
                                                /\ UNCHANGED serverVars
      [] OTHER -> FALSE

Outcome == {"ok", "rejected", "pending", "refused"}

ApiExecutes(k) ==
    /\ req[k].state = "sent"
    /\ \E state \in Outcome :
          /\ Executes(k, req[k].booking, state)
          /\ req' = [req EXCEPT ![k].state = state]
    /\ UNCHANGED <<page, storage, sse, batch, active, queued, sync, late, failed,
                   foreign, missed>>

ApiExecutesLate ==
    \E r \in late :
       /\ late' = late \ {r}
       /\ IF r.command = "end"
          THEN \/ Ended(r.booking)
               \/ server[r.booking].status = "ENDED" /\ UNCHANGED serverVars
          ELSE \E state \in Outcome : Executes(r.command, r.booking, state)
       /\ UNCHANGED <<page, storage, sse, batch, active, queued, sync, req, failed,
                      foreign, missed>>

\* What the reply makes of the page, and the recovery it asks for.
Replied(k, r) ==
    IF r.state \in {"refused", "lost"} THEN Failed(page)
    ELSE IF k = "confirm" THEN BookingConfirmed(page)
    ELSE IF k = "create" THEN PaymentIntentCreated(page, r.booking)
    ELSE CASE r.state = "ok" -> PaymentVerified(page, r.booking)
           [] r.state = "rejected" -> PaymentRejected(page)
           [] OTHER -> PaymentStillPending(page)

ReplyHints(k, b, state) ==
    [bookingId |-> b,
     paymentIntentId |-> IF k = "verify" THEN b ELSE None,
     receiptId |-> IF k = "verify" /\ state = "ok" THEN b ELSE None]

AsksAfter(k, state) == \/ k = "confirm" /\ state = "ok"
                       \/ k = "verify" /\ state \in {"ok", "rejected"}

ReplyArrives(k) ==
    /\ req[k].state \notin {"idle", "sent"}
    /\ LET r == req[k]
           p == Replied(k, r)
       IN  /\ Dispatch(p,
                       IF AsksAfter(k, r.state)
                       THEN Request(Co, page, page.callId, ReplyHints(k, r.booking, r.state),
                                    IF r.state = "rejected" THEN "nobody" ELSE "page")
                       ELSE Co,
                       [req EXCEPT ![k] = Idle])
           /\ foreign' = (foreign \/ page.callId # r.booking)
    /\ UNCHANGED <<server, stream, budget, sse, batch, sync, late, failed,
                   missed>>

\* A request or its answer is lost on the way.
RequestLost(k) ==
    /\ Spent
    /\ req[k].state = "sent"
    /\ late' = late \cup {[command |-> k, booking |-> req[k].booking]}
    /\ req' = [req EXCEPT ![k].state = "lost"]
    /\ failed' = TRUE
    /\ UNCHANGED <<server, stream, page, storage, sse, batch, active, queued,
                   sync, foreign, missed>>

-----------------------------------------------------------------------------
(* After the call.                                                         *)

\* The voice session has stopped, which it may do more than once: a new chain
\* begins to wait for the provider's history.  Only a timer is cancelled, never a
\* chain that waits for a recovery.
StartPostCallTranscriptSync ==
    /\ page.callId # None
    /\ Spent
    /\ LET p == [page EXCEPT !.postCallTranscriptSync = "PENDING"]
       IN  Dispatch(p, Request(Co, p, p.callId, NoHints, "sync"), req)
    /\ \E n \in DOMAIN sync :
         /\ n \in Free(Cancelled(sync)) /\ \A m \in Free(Cancelled(sync)) : n <= m
         /\ sync' = [Cancelled(sync) EXCEPT
                        ![n] = [state |-> "waiting", callId |-> page.callId, attempts |-> 0]]
    /\ UNCHANGED <<server, stream, sse, batch, late, failed, foreign, missed>>

\* One second later the next attempt of a chain.
SyncTimerFires(n) ==
    /\ sync[n].state \in {"timer", "adrift"}
    /\ Dispatch(page, Request(Co, page, sync[n].callId, NoHints, "sync"), req)
    /\ sync' = [sync EXCEPT ![n].state = "waiting"]
    /\ UNCHANGED <<server, stream, budget, sse, batch, late, failed, foreign,
                   missed>>

-----------------------------------------------------------------------------
Unseen == UNCHANGED <<page, storage, sse, batch, active, queued, sync, req, late, failed, foreign, missed>>

ApiStep(c) == (CustomerTurn(c) \/ AgentTurn(c) \/ Locked(c) \/ Ended(c)) /\ Unseen

WebNext ==
    \/ \E c \in Call : ApiStep(c) \/ ConnectLiveCall(c)
    \/ ApiAnswers \/ AnswerArrives \/ RecoveryEnds \/ RecoveryFails
    \/ Receive \/ Flush \/ Skip \/ Drop \/ Reconnect
    \/ Reset \/ Reload
    \/ ConfirmAgreementFromWeb \/ SimulateWalletPayment
    \/ \E k \in Command : ApiExecutes(k) \/ ReplyArrives(k) \/ RequestLost(k)
    \/ ApiExecutesLate
    \/ StartPostCallTranscriptSync \/ \E n \in DOMAIN sync : SyncTimerFires(n)

\* The API answers a recovery's reads, and timers fire; nothing is assumed of
\* the stream, the user or the page's commands.
RecoveryStep == ApiAnswers \/ AnswerArrives \/ RecoveryEnds
WebFairness == WF_vars(RecoveryStep \/ \E n \in DOMAIN sync : SyncTimerFires(n))

WebSpec == WebInit /\ [][WebNext]_vars /\ WebFairness
=============================================================================
