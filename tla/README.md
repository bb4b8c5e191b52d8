# Call-to-Cash: verification project

TLA+ models of the call-to-cash copilot: a customer talks to a voice agent, the
API turns final transcript turns into a bus booking, offers alternatives when a
bus is full, holds seats, locks an agreement on a spoken or clicked "yes", opens
a deposit payment, verifies it with a payment provider and issues a receipt; an
operator's page follows all of it. Everything below is translated from the code
of the repository; where a document disagrees with the code, a run shows it or
section 5 lists it.

## 1. The system and its parts

| Part | Source | State | Operations | Talks to | Modelled by |
| --- | --- | --- | --- | --- | --- |
| Domain state machines | `packages/domain/src/state-machines` | none | transition checks | every command | `StateMachines` |
| Seat inventory | `packages/db/src/inventory-repository.ts`, `booking/commands/reserve-inventory-hold.ts` | `inventory_holds` | reserve, expire, count | called by turns, offer acceptance | `Inventory` |
| Booking draft, risk, gate | `modules/booking`, `packages/domain/{booking,risk,payment-gate}` | `bookings`, `risk_assessments` | upsert from facts, recompute, confirm | called by turns | `BookingFlow`, `RiskPolicy` |
| Agreement | `modules/booking/agreement`, `packages/domain/src/agreement` | `agreements` | lock, hash | called by confirm | `Agreement`, `BookingFlow` |
| Payment | `modules/payment` | `payment_intents`, `payment_transactions`, `proof_records` | create intent, verify, demo failure | awaits the provider, writes booking, holds and receipt | `BookingFlow` |
| Receipt | `modules/receipt` | `trust_receipts` | tamper check, queries | writes booking | `Agreement`, `BookingFlow` |
| Call events | `platform/events`, `modules/call-events` | `audit_logs` (CALL_STREAM) | append, snapshot, subscribe | appended to by every command, polled for the browser | `Feed`, `EventLog` |
| Call session | `modules/call-session` | `call_sessions`, `transcript_turns` | create, end, append turn | drives booking, inventory, offers | `TranscriptAdmission` |
| History notice | `modules/voice-session` (reconcile) | `provider_webhook_notices` | reconcile | appends turns | `HistoryNotice` |
| Revenue twin | `modules/revenue-twin`, `packages/domain/src/revenue-twin` | evaluations, offers, waitlist | evaluate, accept, decline, join, directive, dashboard, simulate | releases and reserves holds | `RevenueTwinPolicy`, `RevenueTwin`, `RevenueTwinDashboard` |
| Voice session | `modules/voice-session` | call row, process-local map of runtime entries | create, start, stop, consent, ingest | Agora, relay | `VoiceSession`; the consent record is left out |
| RTM relay | `apps/rtm-relay` | browsers on record, queues, timers | start, bind, parse, deliver, flush, stop | Agora, API | `RtmFrame`, `RtmRelay`; its own shutdown is left out |
| Extraction | `packages/ai`, `call-session/replay`, `append-transcript-turn.ts` | none | text to facts | called by turns | `Extraction` |
| Solana / mock provider | `packages/solana`, `platform/providers` | chain | create, restore, discover, verify | called by payment | `PaymentProvider` |
| Catalogue seed | `prisma/schedule-fixture.ts`, `prisma/seed.ts` | departures, pickup points, scenario holds | load | offered to every booking | `Catalogue` |
| Web client | `apps/web/src` (server mode) | page, session storage, recovery coordinator | events, recovery, commands, reload, post-call synchronisation | API | `WebPage`, `WebClient` |
| Agora adapters | `packages/agora` | set of started agents | start, stop | voice session | in `VoiceSession` |
| Configuration, contracts, scripts | rest | - | - | - | not modelled |

Where it is hard:

* **Two isolation levels.** Transcript turns, confirmations and acceptances run
  SERIALIZABLE; payment, voice, call and decline commands run READ COMMITTED.
  Status guards are read-then-write: at SERIALIZABLE that is safe, at READ
  COMMITTED the slower of two requests writes from a stale reading.
* **Awaited providers.** A verification captures `now`, awaits the chain, and
  then finalises; holds expire meanwhile and are swept by *other* bookings'
  reservations. The chain and the deployment move between two looks at them.
* **Work after the commit.** A turn commits and only then evaluates offers and
  applies a spoken selection; a crash in between is not made good by the retry,
  which is a duplicate.
* **No worker.** Nothing expires holds or intents but the next reservation on
  the same departure; an ACTIVE row may be long past its expiry.
* **Terms that move.** A turn may rewrite the terms of a booking in any status.
* **Handlers that await.** A voice start awaits the relay, the provider and the
  relay again; a stop awaits the relay and the provider. Each works on with what
  it read before, in memory that a restart empties, while the relay process goes
  on by itself.
* **Counting as numbering.** Event sequence numbers are counts; the reader's
  cursor is a position in an order that depends on them.
* **One page, many readings.** Events, recoveries and the page's own commands
  write the same state from readings of different age; one recovery runs at a
  time and later requests share a queued one.

What makes each part correct: seats are never sold twice and are only taken
away for a reason (inventory); a receipt rests on exactly one confirmed
transaction and an agreement, seats are consumed only against a receipt, an
open intent is covered by a hold, a status is backed by rows and moves forward
(booking, payment, receipt); numbers follow commit order as far as a
mix of isolation levels lets them, and a browser receives the events in place
once, in order, across reconnects (call events); a turn is
stored once, never reopens a call, and the history fills what was lost live
(call session); of competing offers one is accepted, with its seats, and a
decision stands (revenue twin); a start always settles, a connected session can
be stopped, and what the relay has taken in is posted once (voice session,
relay); facts were said, offers are within policy, a payment is confirmed only
by the transaction asked for, a seeded catalogue is what its files describe
((decisions); the page at rest shows what the API holds, and does not wait for a
history that nothing will bring (web client).
`PROJECT.json` lists the hazards at their lines.

## 2. Modules

Booking core:

* **StateMachines** - the status enums and the four transition tables as sets
  of edges; `Allowed` is `transition`, `PathAllowed` is the guard of
  `transitionBookingThrough`.
* **Inventory** - `holds` is the table `inventory_holds` by idempotency key,
  `now` the wall clock. `reserveInventory` locks the departure row in a
  SERIALIZABLE transaction, so one reservation is one step: sweep the due
  holds of the departure (`Sweep`), count the occupied seats (`Occupying`,
  `Fits`), insert under the index of one ACTIVE row per booking
  (`BookingHasActiveRow`) and the CHECK `expires_at > created_at`. (A waiting
  SERIALIZABLE transaction counts in an old snapshot, but both counted and
  inserted holds of one departure, so PostgreSQL aborts the later one; a sweep
  and a payment that touch one row conflict on the row.) `ReserveRefused` is
  the refusal its caller swallows, which keeps the sweep; `MoveHold` is an
  accepted alternative; `Consume` a confirmed payment. A request uses the time
  it captured on arrival: every action takes a `t` up to `MaxLag` old.
* **RiskPolicy** - the scores of a booking as numbers, its blocking reasons and
  the gate they lead to. **Agreement** - the canonical form, what a hash tells
  apart, and the candidate of the tamper check.
* **BookingFlow** - extends Inventory. `TranscriptTurn` is what a customer's
  final turn does to the booking: draft, hold, recomputed status and gate,
  spoken confirmation. `ConfirmBooking` is the web confirmation. Intent
  creation (`CreateIntentRead`, `CreateIntentWrite`) and verification
  (`VerifyBegin`, `FinalizeRead`, `FinalizeRetryable/Rejected/Confirmed`) are
  cut where another transaction can come between; `api[c]` is what request `c`
  has read. `Abandon` is a crash, a timeout or a constraint violation;
  `OnlyOpen` is the index of one open intent per agreement, asked by the insert
  and by a finalisation that leaves an intent open.
  `DemoExpireRead/Write` is the demo expiry, `VerifyReceiptTamper` the tamper
  check with a deposit that was not the agreed one.
* **BookingProperties** - what the flow is checked against, and three things
  the documents say of it.

Conversation:

* **RevenueTwinPolicy** - the optimizer of `packages/domain`: who may be offered
  what, at which fare, in which order, and whether an offer may still be taken.
* **RevenueTwin** - extends BookingFlow with `evals` (evaluations and offers of a
  call) and `desk` (what each request in flight has read). `EvaluateRead` and
  `EvaluateWrite` are cut because the code reads outside the transaction it
  writes in, `DeclineRead`/`DeclineWrite` because they run READ COMMITTED;
  `Accept` writes every row it decides by in one SERIALIZABLE transaction and is
  one step, used by the page (`AcceptOffer`) and by voice (`SelectAccept`).
* **RevenueTwinDashboard** - directive and dashboard with the bounds of their
  schemas.
* **TranscriptAdmission** - extends RevenueTwin with the call's status and its
  stored turns. `TurnBegin`/`TurnCommit` are a SERIALIZABLE turn from its
  snapshot to its commit; the commit fails when a row it updates has a newer
  writer. What follows (`TurnEvaluates`, `SelectRead`, ...) is in no transaction
  with it. `EndRead`/`EndCall` are the end of a call at READ COMMITTED,
  `RequestFails` any failure at any await.
* **HistoryNotice** - the provider's history: recorded (`NoticeArrives`), compared
  with the stored turns (`NoticeReads`), appended turn by turn (`NoticeAppends`),
  given up at the first failure. The code splices each stored turn it has matched
  out of a list; `Missing` says the same by counts, which is what the proofs use:
  the n-th listing of some words is appended when fewer than n are stored.
* **ConversationProperties** - what all of it is checked against.

Events and web:

* **Feed** - what the event stream promises. **EventLog** - writers at either
  isolation level append to the event log of one call under the advisory lock;
  one SSE connection polls it; the browser receives, loses the connection and
  resumes from its Last-Event-ID. `level` is each writer's isolation level, any
  mix of both. Where they mix, the number of an event may slip from its place in
  commit order (`InPlace`); `ImplementsFeed` is the refinement: the log is the
  feed's history, its events in place are the firm ones, what the browser saw is
  what it received.
* **WebPage** - the page's state and reducer, one operator per action.
  **WebClient** - page, session storage, event stream with its batches and
  skipped events, single-flight recovery (`active`, `queued`, `late` answers),
  commands, post-call synchronisation, reload and reset, against an API that is
  reduced to what it answers and the events it appends. `sync` is the chains of
  attempts after a call: each stop of the voice session begins one
  (`StartPostCallTranscriptSync`), whatever other chains there are. A chain waits
  for the recovery it has asked for or joined, or for its timer; `cancel` knows the
  timer that was set last only, so one set before it by another chain is `adrift`:
  it fires all the same. **WebProperties** - what
  it is checked against.

Voice:

* **RtmFrame** - what the relay makes of a message: `Parse` is
  `parseRtmTranscriptFrame`, `DeliveryMode` decides whether it waits.
* **RtmRelay** - the relay of one call. `cmd` is the progress of each control
  request, `active` the browser on record, `browser` every browser launched,
  `posts` the turns on their way to the API. `HandleStart` is `start` up to its
  first await, with the bind of a waiting browser in one step as in the code;
  `LaunchAfterStop`, `LaunchDone` and `LaunchFails` are the rest of it.
  `HandleStop`, `FlushNext`, `CloseBrowser`, `StopDone` are `stop`. `Handled`
  parses a message and hands it to the buffer's `Push`; `TimerFires` is the
  quiet window.
* **VoiceSession** - extends RtmRelay with the API side: `runtime` is the
  process-local entry of the call, `known` the provider client's set of agents,
  `req[c]` how far request `c` has come. One action runs from an await to the
  next. `Fault` counts failures, lost answers, timeouts and restarts.

Decisions:

* **Extraction**, **PaymentProvider**, **Catalogue** - the parser, the model's
  proposals and their merge; the provider over a chain that processes,
  confirms, finalises and drops transactions; the seed. **Decisions** puts cases
  of them (and of `RevenueTwinPolicy`) on one desk, with the properties of
  their answers; the provider runs as a state machine beside it.

Proofs: **InventoryProofs**; **BookingFlowProofs**, which extends it (and has the
theorems on RiskPolicy); **ConversationProofs**, which extends both and
**RevenueTwinPolicyProofs**; **EventLogProofs**; **VoiceSessionProofs** (with those
on RtmFrame); **WebClientProofs**; **DecisionsProofs**.
Instances for TLC: **MCInventory, MCBookingFlow, MCConversation, MCEventLog,
MCVoiceSession, MCWebClient, MCDecisions**.

Composition: `Inventory` <- `BookingFlow` <- `RevenueTwin` <-
`TranscriptAdmission` <- `HistoryNotice` share their variables. That the larger
ones implement `InventorySpec` is `HoldsAsInventory` for the booking flow and
`SeatsAsInventory` for the conversation, proved both and the first also checked, so that
what is proved of Inventory holds of seats in all of it. `RtmRelay` <-
`VoiceSession` likewise. The decisions are functions, of which `RevenueTwin`
uses the policy; BookingFlow takes the extractor's facts and the provider's
verdict as arbitrary, which covers what `Extraction` and `PaymentProvider` say.

Operators marked *Mutant* in the modules are broken variants of the definition
that follows them; they are used only to confirm that each property notices a
plausible bug.

## 3. Abstractions

* Booking: pickup point and contact are one Boolean `rest`; route, price, deposit
  and refund policy follow from the departure, so "the terms" are departure and
  party size. In the instances no deposit exceeds its fare; `GateUnlockedExactly`
  covers the other case. SHA-256 is injective. The domain's own aggregate
  (`applyMaterialChange`, `invalidateConfirmation`, `applyBookingExtraction`) is
  called by no handler and left out.
* `created_at` of an intent is the clock at its insertion. The replay of a stored
  verification or intent by idempotency key only reads, and is a stutter.
* The provider's answer, the second look-up of the signature and the first
  reads of the finalisation are one step, `FinalizeRead`. The writes of one
  finalisation are one step: they commit together and hold row locks till then.
* Statuses no code writes (booking EXPIRED and CANCELLED, intent EXPIRED and
  CANCELLED, agreement SUPERSEDED) are in the tables and are never reached. A
  departure's operational status does not change.
* Conversation: a turn is a speaker, a kind of phrase, the time it names and its
  facts. A rival customer only takes seats. The history notice comes while its
  session's binding is known; the signature and freshness checks are left out.
* Events: a transaction's events are numbers; their content is `WebClient`'s, where
  events that only repeat another of the same commit are left out.
* Extraction: patterns are abstracted to what they find in the words, the model's
  answer is any candidate of the schema. `resolveScheduleFromFacts` and the
  loader of demand rows are used by tests only and left out. Provider: base58,
  URLs and memo text are left out, `CandidateLimit` is 2 instead of 10, there is
  one intent. Catalogue: that a row's own fields are well formed is one flag.
* Voice: tokens, uids, signatures and freshness checks are left out, consent is
  granted. An agent session is named by the start that got it. The check of a
  posted turn's session and its transaction are one step, as are the two reads of
  the call's status in a stop (`StopLookup`). The relay process itself does not
  stop or crash; a message in a page reaches the relay at once.
* Web: server mode only; labels, scores and masked fields are left out.

## 4. Runs

Passing runs:

| Run | Shows | Bounds |
| --- | --- | --- |
| `inventory` | `NoOverbooking`, `OneActiveHoldPerBooking`, `HoldLifecycle` | 2 bookings, 3 reservations, departures of 3 and 2 seats, parties of 1-2, hold lifetime 2, lag 1, time 4: holds expire, are swept late, refreshed, moved and consumed after expiry, and both buses fill up |
| `booking_flow` | `ConsumedSeatIsPaid`, `LiveIntentHasSeat`, `StatusEvidence`, `StatusesMoveForward`, and that the flow implements `InventorySpec` | 2 bookings, 3 reservations, 2 intents, 1 signature, 1 request in flight, 3 turns, time 3: both parties together want one seat more than the bus has, one bus leaves while they talk, terms change, the second intent meets a used signature |
| `payment_race` | `ReceiptBacked` and `OnlyStaleWritesTakeBack` under two racing payment requests | 1 booking, 2 requests in flight, 2 intents, 2 signatures, 2 turns, lag 1, time 2 |
| `event_log` | `SequenceFollowsCommit`, `SkipsOnlySlipped`, `AtLeastOnce`, `ImplementsFeed` | 2 writers at any mix of isolation levels, 3 events (one transaction of two and one of one in either order), 2 captured times |
| `conversation` | `OneAcceptedPerEvaluation`, `AcceptedHasItsSeats`, `DecisionStands`, `TurnStoredOnce`, `TerminalCallNeverReopens`, `NoticeRestoresHistory`, `AnswersParse` | 1 call and a rival, 3 departures, 2 reservations, 2 requests in flight, 2 evaluations, 2 live turns (facts that overflow the bus; a waitlist selection) that may be repeated, lost or late, and one further request: an evaluation, a decline, the end of the call, or a history that lists the selection twice |
| `voice_session` | `RecordIsOpen`, `ConnectedAgentCanBeStopped`, `AssistantTurnForwardedOnce`, `StartSettles`, `BuffersDrain` | 2 starts (each may launch up to two browsers), 1 stop, 1 turn of the agent (partial and final text), room for one message in the waiting queue, which therefore overflows, 1 fault anywhere |
| `web_client` | `Converged`, `ResumesOpenCall`, `PendingIsAttended`, `PostCallSyncSettles` | 1 call, found at one of four stages or not yet there; 3 commits, stops of the voice session and mishaps (skipped event, broken connection, failed request, reload or reset) in any mix where the call has no booking yet, 2 where it has one, besides the page's own commands; 2 chains of 2 synchronisation attempts |
| `decisions` | `FactsAreSaid`, `OffersPriced`, `VerdictJustified`, `SeedIsSound` | 8 utterances x 21 replies x 2 instants; 3 primaries x 16 sets of alternatives x 6 demands x 2 pickups x 3 policies; 1 080 simulations; 2 loads of 127 sets of files each; 1 intent, 2 transactions of 5 contents, 1 redeployment, 2 verifications |

`booking_flow` has one payment request in flight: its properties speak of turns,
sweeps, moves, abandonment and late verdicts. Two requests that finalise at once, or
a verification between the two halves of the demo expiry, cannot happen there; they
are `payment_race`, and `confirmed_reverts` shows what they break.

Why the bounds are enough: two requests in flight show every race of a pair, and
no handler compares three. Two starts and a stop are the least that let a stop
restore an entry over another request's; customers' turns pass the relay without
a buffer. Time is in units of half a hold's lifetime (of a whole one in
`conversation`); 3 units let an intent, its hold and its departure lapse in every
order. The third reservation key lets a booking hold seats again after an expiry
while the other booking holds some. A history of two equal turns, one of which
may be live, is the least that tells "stored" from "stored as often as said".
With three commits, stops and mishaps `web_client` reaches a stop whose recovery was
joined and that is completed by the queued one (a stop, the customer's turn, the
agent's), the same with the queued recovery failing (the page then stays PENDING
and shows both turns, `failed`), two overlapping chains, and a timer adrift; each of
these states was asked for in a run of its own. One call is enough for
`web_client`'s properties of a call; a page that goes on to a second call is
discussed in section 5. `PendingIsAttended` was also explored with 2 calls and 2
commits, stops and mishaps. `Converged` and `ResumesOpenCall` leave out
what section 5 lists: a request that failed, an answer of another call written on
the page (`foreign`), an event no recovery makes up for (`missed`). They were also
explored with 2 mishaps and 2 commits, exhaustively, and on random behaviours
of 2 calls, 6 commits and 5 mishaps. Symmetric model values are declared; no
liveness property is checked under symmetry.

`CHECK_DEADLOCK FALSE` in all runs but `inventory`: they stop when turns, time,
events or requests run out. In `inventory` the sweep is always possible and
deadlock is checked.

**Fairness.** `EventLog`: `WF(Poll)`, the poll is a 100 ms timer of the server;
`SF(Receive)`, a socket is not broken again and again before it delivers
anything, without which `Reconnect` may starve the browser for ever. The writers
need no fairness, `AtLeastOnce` speaks of committed events only. The feed's own
`WF(Deliver)` follows from these.

`VoiceSession`: a request that is under way goes on (the relay client's fetch
has a 10 s limit, the provider's the HTTP client's default, and every outcome,
also a refusal, is a step), the relay's handlers, pages and timers go on, and
posts are answered. Nobody has to start or stop a session and no agent has to
speak. `BuffersDrain` says that the buffers are empty in the end, as each agent
says finitely much here.

`WebClient`: a recovery that runs is answered or fails (`WF(RecoveryStep)`), the
browser's timers fire (`WF` of the one or the other). Nobody has to click, no event has to
arrive and no connection has to come back.

Writers run at any mix of isolation levels, as in the code. That no event at all is
skipped (`NothingSkipped`) is then false, see *event_lost*; the properties of
`event_log` say what is left of it: only an event whose number has slipped from
its place may be missed.

## 5. Where documents and code disagree

Shown by runs that expect a violation:

| Run | Document | Code |
| --- | --- | --- |
| `terms_change` | `README.md:145`: a material change invalidates confirmation | a turn changes the terms of a locked booking, the agreement stays LOCKED, the gate stays UNLOCKED and an intent is opened for terms nobody agreed to |
| `seat_lost` | `BOOKING-CONTRACT.md:378, 397`: no money for seats that cannot be reserved; late payments go to review | expiry is tested against a time from before the provider call and the absence of a hold is not noticed: RECEIPT_ISSUED without a consumed seat |
| `confirmed_reverts` | `STATE-MACHINES.md:229`: never from CONFIRMED back | two verifications at READ COMMITTED, the slower writes PENDING over CONFIRMED |
| `event_lost` | `EVENT-CONTRACT.md:18, 56`: at-least-once, monotonic sequence | a SERIALIZABLE turn counts in an old snapshot, two events get one number and a connected browser never receives one of them |

### Other disagreements

Met while modelling; the models behave as the code does, no run of its own shows
them.

Booking, payment, receipt:

* Two intent creations at READ COMMITTED: the slower opens an intent on a booking
  that has been paid (`create-payment-intent.ts:95`; `STATE-MACHINES.md:221`).
* The tamper check hashes the candidate in the key order of a JSONB column (by
  length), the agreement was hashed with sorted keys: also the true deposit is a
  mismatch and sends a paid booking to manual review
  (`verify-receipt-tamper.ts:53`; `API-CONTRACT.md:868`, `DATA-MODEL.md:403`).
* With the default thresholds an unconfirmed refund policy does not keep the gate
  shut (`GateUnlockedExactly`; `RISK-SCORING.md:262-266` calls it a hard guard).
  The API derives all three consents from the locked agreement, so it cannot
  happen there. INVENTORY_HOLD_EXPIRED cannot be reached from `deriveRisk`.
* A confirmation passes for a bus that has left (completeness 85 is enough), and
  its response and event say UNLOCKED whatever the gate. `getReceipt` shows the
  booking's present terms beside the version of the agreement.

Revenue twin, conversation:

* The stale-offer check by `departure.version` never fires: only the seed changes
  it (`PHASE-11-FLEET-REVENUE-TWIN.md:30`, `STATE-MACHINES.md:325`).
* Accepting a DECLINED or SUPERSEDED offer without an idempotency key overwrites it
  with REQUIRES_REEVALUATION, and a decline that read OPEN overwrites ACCEPTED
  (`STATE-MACHINES.md:321-322`).
* `endCallSession` may write CANCELLED over a call that has just become ACTIVE
  (`end-call-session.ts:23-42`; `STATE-MACHINES.md:32`).
* The waitlist may store a party of 1 for a booking without one
  (`revenue-twin.handlers.ts:754-765`; `EVENT-CONTRACT.md:476`).
* An evaluation of an older reading that is written later is the latest one; a turn
  that names a time may accept the offer it has just caused; alternatives that
  have left are not filtered; the directive presents offers of any status or age;
  the dashboard counts accepted offers of several evaluations of one call.
* The history notice compares with trimmed text, live text was normalised by the
  relay: a turn that normalisation changes is stored twice, as is one that
  arrives live between the comparison and the append. After a crash the repeated
  notice is a duplicate, and the rest of the history is lost.

Extraction, provider, seed:

* A sure proposal with an exact departure replaces the day and month the parser
  understood when no time was spoken (`append-transcript-turn.ts:448-454`), and
  its year is lost; `retainCorroboratedCandidateFacts` changes no fact (484-515);
  a spoken count outside 1-36, or with "hành khách", lets the model's number in
  (437-459).
* A transaction whose processed-level status shows an error is refused for good
  though its fork may be dropped (`devnet-verifier.ts:78`); discovery looks at
  the ten newest signatures only.
* A scenario quantity lowered to 0 leaves the hold of an earlier load
  (`schedule-fixture.ts:629`); an inventory file may name a departure twice; the
  loader's natural key is wider than the unique index (`schema.prisma:266`), so
  an accepted file may be rolled back; checks against an empty reference file are
  skipped; a repeated seed overwrites a capacity without asking what is sold
  (`LOCAL-SETUP.md:188`, `DATA-MODEL.md:290`).

Voice:

* The greeting is posted during the bind, before the API stores the agent's id, and
  refused (`voice-session.handlers.ts:340` starts the relay first to catch it).
* A stop writes its old entry over STARTING, a second start passes and two browsers
  run (line 318 refuses a start while one is in progress). A stop during STARTING
  stops nothing, and the start then connects an agent to an ended call.
* `turn_status` and finality of an assistant's frame decide only whether it waits;
  frames without turn id and start share one event id; frames that will be
  refused also fill the waiting queue.

Web:

* A call under manual review is resumed after a reload: the rejected verification
  stores no risk assessment (`LOCAL-SETUP.md:34`, `PIPELINE.md:608`;
  `verify-payment.ts:312-370`, `serverSession.js:44-50`).
* A queued recovery that fails is reported to nobody
  (`serverRecoveryCoordinator.js:5-14`; `CURRENT-STATE.md:38`). A chain that joined
  a run ends when that run has read a complete transcript; the page becomes
  COMPLETE only by a reading of its own, `TRANSCRIPT_SYNCED`. When an event's turn
  shows on the page first and the queued recovery fails, the page shows both turns
  and stays PENDING for good. A second stop begins a second chain beside the first;
  when its attempts are used up it writes TIMED_OUT, also over COMPLETE, and so does
  a chain of the call before a reset (`usePostCallTranscriptSync.js:25-46`). A recovery of an
  old call may write into the page after a reset, and hints queued for one call
  are merged into the next one's (line 19). A second gap that a batch shows while the
  page waits for the recovery of a first asks for nothing, the effect runs when
  `needsRecovery` changes only, and is forgotten when the first recovery ends
  (`useServerSimulation.js:270-274`). A `receipt.verified` that the stream never
  delivered is not made up for: no reading names the receipt. An agent's turn, which asks for no recovery, may be
  overwritten by an older reading until the next one. `finishReplay` uses the
  answer of an older recovery (`useServerSimulation.js:94-113`).
* A stop of the live audio during its start connects after the end, and a retry is
  refused by `startingRef` (`useLiveVoiceSession`).

## 6. Proofs

Every theorem below holds for all values of the constants that satisfy the named
assumptions: any number of bookings, requests, turns, faults and seats. Each
inductive invariant was first checked by TLC on the instance of the run of its
component.

| Module | Theorem | States |
| --- | --- | --- |
| `InventoryProofs` | `InventoryTypeCorrect`, `NeverOverbooked`, `OneActiveHold`, `HoldsFollowLifecycle` | the hold table's types, `NoOverbooking`, `OneActiveHoldPerBooking`, `HoldLifecycle` |
| `BookingFlowProofs` | `BookingTypeCorrect`, `ReceiptsAreBacked`, `ConsumedSeatsArePaid`, `LiveIntentsHaveSeats`, `StatusesHaveEvidence` | all invariants of the runs `booking_flow` and `payment_race` |
| | `OnlyStaleRequestsTakeBack` | `OnlyStaleWritesTakeBack`, for any number of racing requests |
| | `FlowImplementsInventory`, `FlowNeverOverbooks` | `Spec => InventorySpec`, and with it Inventory's theorems |
| | `GateUnlockedExactly` | when the gate opens |
| `EventLogProofs` | `LogTypeCorrect`, `NumbersFollowCommit`, `ResumeSkipsOnlySlipped` | all invariants of the run `event_log` |
| | `StreamRefinesFeed` | every step is a `Publish`, a `Deliver` or a stutter of `Feed` |
| `VoiceSessionProofs` | `SessionTypeCorrect`, `BindsFindAnOpenBrowser`, `ConnectedAgentIsKnown`, `TurnsAreForwardedOnce` | all safety properties of the run `voice_session` |
| | `AcceptedIsBound`, `TurnsAreToldApart` | which frames are accepted, and what their event ids tell apart |
| `RevenueTwinPolicyProofs` | `PriceWithinPolicy`, `BestEligibleAreOffered`, `OffersCanBeHonoured`, `OwnAndNearestFirst`, `AnswerTellsOffers` | what the optimizer promises of its offers, their order and its answer, for every fleet |
| | `SimulationSellsNoSeatTwice` | what a simulation sells, for any list of requests |
| `ConversationProofs` | `ConversationTypeCorrect`, `OneOfferIsAccepted`, `AcceptedOffersHaveSeats`, `DecisionsStand`, `TurnsAreStoredOnce`, `EndedCallsStayEnded`, `HistoryIsRestored`, `AnswersAlwaysParse` | all properties of the run `conversation` |
| | `SeatsRefineInventory` | `HistorySpec => InventorySpec` |
| `DecisionsProofs` | `FactsAreAlwaysSaid`, `OffersArePriced`, `VerdictsAreJustified`, `SeedsAreSound` | all properties of the run `decisions`, for any cases on the desk |
| `WebClientProofs` | `PageKeepsItsType` | `WebTypeOK` |
| | `IdsAreKnown` | what the page shows, stores, asks about and sends names what the API has |
| | `PageConverges` | `Converged` |
| | `OpenCallIsResumed` | `ResumesOpenCall` |
| | `WaitingIsAttended` | `PendingIsAttended` |

### Inventory

The code counts CONSUMED seats and ACTIVE seats that are not expired *at the
captured time*; `NoOverbooking` counts every ACTIVE seat, expired or not,
because `Consume` takes those too. Both agree right after the sweep
(`ReservedFits`): whatever is still ACTIVE on the departure has not expired at
`t`, so what was counted is all there is. Every other action turns ACTIVE rows
into others of the same departure and quantity or out of the count
(`FewerSeats`). Counting is by seats, pairs of a key and a number, so that the
sum is a cardinality and the library's facts on finite sets apply.
`NoOverbooking` with the type invariant is inductive as it stands; so is
`OneActiveHoldPerBooking`. `HoldLifecycle` follows from the type invariant,
action by action; the one thing it needs is that a captured time is not ahead of
the clock (`CapturedIsPast`).

### Booking flow

`BookingInv` is the type invariant, the properties and what ties rows to each
other: an agreement has a departure and names a row of the hold table
(`AgreedTerms`), an intent an agreement (`IntentsAgreed`), a receipt an intent,
and what a request has read still exists (`RequestsGrounded`; no code deletes a
row). `LiveIntentHasSeat` is not inductive: between the first read and the insert
the intent is only in a request's memory, and an intent that failed can be open
again after a later verification. `SeatsCover` therefore speaks of intents of any
status and of those about to be inserted: until the recorded expiry the booking
has an ACTIVE or CONSUMED hold that lasts as long. It survives because no sweep
takes a hold that has not expired, whatever lagging clock it uses.
`ReceiptBacked` rests on the uniqueness of receipts, transactions and signatures
that the constraints enforce at the very step that issues the receipt; which
verification wins does not matter.

`StatusesMoveForward` is false when two verifications of an intent race: the run
`confirmed_reverts` shows it. What holds of any number of racing requests is
`OnlyStaleWritesTakeBack`, and `OnlyStaleRequestsTakeBack` proves it from the types
and `BookingInv` alone: a request writes what a path of allowed transitions leads to
from the status it has read, and such a path only moves forward (`PathIsLater`, a
fact about the two tables, and `DraftPaths` for turns). Where the row still has
that status, the step does; where it has not, the request is `Overtaken`. Turns,
confirmations, tamper checks and the demo expiry read and write in one step, or
write no status, and need no such excuse.

### Event log

Nothing is assumed of the writers' isolation levels. `LogInv` says that whoever has
numbered an event holds the advisory lock and has numbered on from what its
transaction counts (`NumbersReserved`): the log's length for a READ COMMITTED writer,
its snapshot for a SERIALIZABLE one. The snapshot may be shorter than the log; then
everything committed since is READ COMMITTED, or the commit fails. So a number is
never ahead of its event's place, and two numbers in a row can fail to rise in one
way only. `StreamInOrder` says that what was sent went out in the order of the numbers,
and that an event in place which orders before a sent one was sent before it: a
later commit cannot slip under it, because whatever is committed later and is in
place has a higher number. An event that has slipped may be left out, which
`event_lost` shows; it is never sent twice. `LogInvariant` has the type invariant, on
which all else rests.

### Voice session

`SessionInv` adds to the three invariants of the run: what a browser's buffers
hold, and have let go, are assistant's turns of its own session
(`BuffersAreOwn`); the browser on record was launched by a start whose control
request is done (`RecordIsLaunched`); a start sends each control request at most
once and in order (`CommandsInOrder`); and four facts on agents. These are the
heart: an agent that is being bound is in the client's set; a bound agent, and
one that a stop has read, belongs to a start that is over; while the session is
CONNECTED no stop is on its way to that agent. Together they say why a stop that
writes back the entry it read, over whatever happened since, cannot leave a
connected agent that nobody knows. `TurnsAreForwardedOnce` is a property of steps:
each post is followed from the step that makes it to what its browser remembers.

### Optimizer

`PriceWithinPolicy` for every fare and policy of whole numbers: integer division
by 10 000, the tiers, the two caps and the floor. `BestEligibleAreOffered` and
`OffersCanBeHonoured` for every finite fleet: `Ranked` is the n-th candidate by the
number of candidates that sort before it, `SortIsStrict` shows that the key is a
strict total order (ids differ), and a finite set with such an order has a member
of every rank (`PlacesInOrder`, `EveryPlaceTaken`). `OwnAndNearestFirst` and
`AnswerTellsOffers` read the same facts off the list. `SimulationSellsNoSeatTwice`
follows the requests one by one (`RecursionKeeps`): seats that are left and seats
that were accepted add up to what there was.

### Conversation

`ConversationInv` is checked by TLC on the bounds of the run `conversation`. It
consists of `Types`, `OneAcceptedPerEvaluation`, `TurnStoredOnce` and

* `RequestsReferToRows` - a request that decides about an offer or an evaluation
  names one that is there, and offers about to be stored are undecided;
* `NoneOpenBesideAccepted` - where an offer was accepted, no sibling is OPEN. It
  makes `OneAcceptedPerEvaluation` inductive: an acceptance takes an OPEN offer;
* `KeysDiffer` - an idempotency key has decided one offer only;
* `AcceptedIsReserved` - the key of an accepted offer is a row of the hold table
  with its booking, departure and party. That of several accepted offers of a
  booking at most one still keeps its seats is not proved here: it is
  `OneActiveHold` of Inventory, through `SeatsRefineInventory`;
* `AdmittedIsNew` - a turn whose transaction may still commit is not stored. At
  SERIALIZABLE this is what "nothing has changed since the snapshot" buys;
* `EvaluationsBounded` - evaluations stored and computed stay within the bound, a
  cardinality of requests;
* `HistoryLeft` - at every moment of the notice's work, words stored, words still
  to append and the turn whose append is under way add up to what the history
  lists. Restoring the history is this sum with nothing left.

Counting words needs no induction over sequences: how often a list has some words
is the cardinality of a set of places, `Unmatched` is a bijection from `Missing`
(`CountedPlaces`), and cardinalities are compared by injections.

`EndedCallsStayEnded` needs no invariant beyond types: a turn commits only when
nobody has changed the call's row since its snapshot, and the end of a call only
writes terminal statuses.

`AnswersAlwaysParse` adds up what the dashboard shows. `SumFunction` is a function
over the subsets of the calls, and a sum over a finite set is followed from each
subset to one with one element less (`SumIsSubsetSum`, `SumOfNaturals`, `SumGrows`):
an induction over the size of the set, which needs no operator as a parameter. What
is offered is never more than the bus has.

### Decisions

The desk decides one case at a time, so each of the four theorems is about what the
operators answer, for any case the constants may give.

* *Facts*: `FactsAreSaid` by the order of the code's own tests - what the parser
  found, what a sure proposal may replace, the one departure a date and a time fit.
* *Offers*: the optimizer's theorems, for the market of the case.
* *Payments*: the provider is a machine, so here is an invariant, `ProviderInv`. What
  the customer was shown is what the intent says (`IntentShown`); the candidates a
  verification has gone through are final and do not pay, unless one of them may
  still turn out to (`Reading`); and its verdict is about final transactions,
  which no step of the chain changes (`AnswerOK`).
* *Seed*: `CatalogueInv` says that a departure has all its columns, that no two
  share a slot, and that each row of holds is of a departure. The loader's upserts,
  one row after another in the code, are shown to make of the tables what `Written`
  says: the file's rows, and what none of them names. Loading twice is then an
  equation between two such tables, and the seats taken of a departure are those of
  its two rows of holds.

### Web client

`WebInv` types everything over what the API has: `Rows` are the calls it knows,
`Bookings` those with a booking. Both only grow, so whatever fits stays fitting
(`TypesGrow`), and an answer on its way may name a booking only if the run that asked
for it could. That a run wants the GET it is at (`Wanted`) is what makes its
subject a call rather than nothing. A batch of events is a recursion over its
length; its value exists (`RecursionHasValue`) and every step of it keeps a page a
page (`RecursionKeeps`). `IdsAreKnown` is the part of it a reader should know.

That a page at rest shows what the API holds (`Converged`) says nothing about a page
that is not at rest, and so is far from inductive. `FollowInv` says what holds while
events and answers are on their way:

* `StreamsAgree`: every event of a call's stream tells what its row says, or a later
  one asks for a recovery. Commits that change a status, a gate or a stage
  append such an event.
* `NamesKnown`, `StoreFollows`, `ReadsInPlace`: named intents, receipts and
  reviews exist; storage holds what the page shows; a batch holds events after the
  last applied one, in order, none of which asks for a recovery.
* `Follow`, unless a request failed or an exception of `Converged` applies: either the
  page owes a recovery (its connection is broken, an event was skipped and the
  gap is not noticed yet, an event that asks is ahead), or a recovery is queued, or
  one of another call is running and will write on the page, or the page is
  `UpToDate`. Up to date means that whatever the page does not show, the active
  run has still to read, and that an answer on its way is what the API would answer
  now. This relates each reading to the position in the stream it was taken at: a
  commit that makes an answer old appends an event that asks, so the page owes again.
* `OwnFacts`, `ReceiptComes`: the page's booking, intent and receipt are of its call;
  a receipt that it does not know is still to be told by the stream.

There is one lemma for each way in which a run starts, continues, is replaced or ends,
one for a batch, one for each action (`SkipFollows`, `FlushFollows`,
`AnswerFollows`, ...), and `FollowStep` puts them together. At rest nothing is
owed and nothing runs (`RestShows`), so the page is up to date with nothing left to
read: it shows everything. `ResumesOpenCall` follows with `StoreFollows`.

That a page that waits for the provider's history is attended to
(`PendingIsAttended`) is not inductive either: it looks at a page that still waits when
no chain of its call is under way, and nothing in it says how the last chain left it.
`AttendInv` adds:

* a chain that waits for its answer has a run to wait for, whichever call that is of;
* a run that has read a whole transcript knows its call (`RunKnows`), and what it
  read of one the API has: turns are never taken back;
* a page that waits has a call, and a run without a call is not its last (`HasCall`);
* when the active run has read the whole transcript of the page's call, the page shows
  both turns, and if it still waits, whoever asked since has queued another
  run (`WholeRead`): a chain that joined this one saw it complete;
* when the chains are over and the page waits (`Left`), it shows both turns and the
  API has both, and a run is queued, or the active one has yet to read the
  transcript or carries a whole one, or a request has failed.

`PageAttends` is for steps after which nobody asks for anything, `RequestAttends` for
those that ask; there is one lemma for each action or group of actions, and
`AttendStep` puts them together. `FollowInv` is needed for one
thing only: that rows advance, so that a turn that was read is still there.

### Assumptions

They are evaluated by TLC in every run whose modules state them.

* `HoldKeyAssumption`, `CapacityAssumption`, `BoundsAssumption`,
  `CatalogueAssumption`, `UtteranceAssumption`, `TurnsAssumption`,
  `EventsAssumption`, `InstantAssumption`, `FleetAssumption`,
  `PolicyAssumption`, `FaultsAssumption`, `PendingCapAssumption`, `CallsAssumption`,
  `SyncAttemptsAssumption`, `BudgetAssumption`, `MaxChainsAssumption`: tables are
  finite, amounts, instants, capacities and bounds are natural numbers, what is
  said is made of departures and party sizes; ids are told apart by their order.
* `TurnsAssumption` (of Decisions), `MarketsAssumption`, `SimulationsAssumption`,
  `LoadsAssumption`, `ProviderAssumption`: the cases on the desk are of the types the
  schemas accept; files and catalogues are finite, a file's rows are rows.
* `FreeAssumption`, `NoneAssumption`, `NoRunAssumption`, `AbsentAssumption`, the NULL
  of `CatalogueAssumption` and of `WorkerAssumption`: NULL, a free lock, no recovery
  and a missing field are none of the values they stand beside.
* `StartedAssumption`: the stages a call may have come to when the page is found.
* `CommandAssumption`, `SessionAssumption`, `ClientAssumption`, `TurnAssumption`,
  `TextAssumption`: which control
  requests a start and a stop may send; an agent session is named by its start,
  a turn by its number, and comes as a partial and a final text.
* `PartyAssumption`: a booking may be for one person; the waitlist stores a 1 for a
  booking without a party.
* `WaitAssumption`: a turn captures its time, then waits for the advisory lock and
  may retry; nothing bounds the wait. So the lag Inventory allows for must be the
  whole modelled time. Without it the refinement of `InventorySpec` is false: the
  conversation reserves with a time that Inventory does not allow. With it the
  theorems speak of any delay.
* `RivalAssumption`, `SaidAssumption`, `HistoryAssumption`: what the rival takes
  and what turns and history say is of the right types; the API gives a listed turn
  of the history an id no live turn has.

### What the attempts showed

* The index of one open intent per agreement was asked only at the insert; a
  verification that fails an intent which another one had closed re-opens it, and
  the database refuses that too (`OnlyOpen` in `FinalizeRetryable`).
* In `conversation` the lag was smaller than the time a turn may wait; see
  `WaitAssumption`. The run now has lag 1, the whole of its time.
* `AdmittedIsNew` had to say that the captured time is past, and `HistoryLeft` that a
  notice being worked off has something left.
* CASE expressions whose arms overlapped said nothing for a value that fits two.
  They are IF chains now, in the order of the code's own tests.
* `Converged` was false in three ways the instance of its run is too small to show:
  a skipped `payment.intent.created`, after which the page may know its intent and no
  status; a second gap found while the page waits for the recovery of a first; and a
  skipped `receipt.verified`, which no recovery makes up for because nothing else
  tells the page that there is a receipt. The last two are the history variable
  `missed`. Its exception for the call's status was not needed and is gone.
* The stream never skips the first event of a call: it is committed before a page can
  know the call's id. `Skip` had allowed it.
* Sums were folds, which no proof here can unfold; they are functions over subsets
  now, and the loader's folds closed forms.

### Only model-checked

* Liveness: `AtLeastOnce`, `StartSettles`, `BuffersDrain`, `PostCallSyncSettles` and
  the fairness in `ImplementsFeed`, whose safety part is `StreamRefinesFeed`.

## 7. Not modelled

* Configuration, Zod schemas, demo scripts: pure validation or I/O.
* Web: rendering, the mock and replay modes, twin widgets, the tamper button, the
  live audio hook with its token renewal; `useServerState.js` is not used.
* Voice: the consent record, whose withdrawal calls stop; tokens; the relay's own
  shutdown and statistics.
* The transcript analysis projection in the answer of a turn; masking and
  redaction, but for equality of redacted texts.
* The number of retries of SERIALIZABLE transactions: a failed attempt leaves
  nothing behind.

## 8. Plan

1. (done) the core: `StateMachines`, `Inventory`, `BookingFlow`, `EventLog`,
   `RtmRelay`, `VoiceSession`, proofs of Inventory.
2. (done) `TranscriptAdmission`, `HistoryNotice`, `RevenueTwin` with policy and
   dashboard, `Feed` and its refinement, `RiskPolicy`, `Agreement`, `RtmFrame`,
   `Extraction`, `PaymentProvider`, `Catalogue`, the web client.
3. (done) Proofs: the booking flow, the event log, the voice session with its
   relay, the optimizer and the simulation, the conversation, the decisions, the
   types, ids and convergence of the web client; section 6.
4. The consent record and the shutdown of the relay, in `VoiceSession`.
