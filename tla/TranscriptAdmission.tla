------------------------ MODULE TranscriptAdmission ------------------------
(***************************************************************************)
(* A call and the turns it admits (apps/api/src/modules/call-session):     *)
(* appendTranscriptTurn from its first read to the spoken selection that   *)
(* follows its commit, the end of the call, and the requests of the web    *)
(* page for the same call, over RevenueTwin and BookingFlow.               *)
(*                                                                         *)
(* A turn's transaction is SERIALIZABLE.  Its first statement takes the    *)
(* snapshot, so it is a begin and a commit: the commit fails when another  *)
(* turn of the call, or a writer of the booking or call row it updates,    *)
(* has committed in between.  The end of a call is READ COMMITTED and      *)
(* tracked by nobody.  What follows the commit, the evaluation and the     *)
(* selection, is in no transaction with it.                                *)
(***************************************************************************)
EXTENDS RevenueTwin

CONSTANTS
  TurnId,       \* clientTurnId or providerTurnId of a turn; retries repeat it
  Said,         \* per turn: speaker, kind of phrase, time it names, facts
  Rival,        \* the booking of another customer, who only takes seats
  RivalWants,   \* bound: the <<departure, quantity>> that customer may take
  MaxRequests   \* bound: evaluations, declines, ends and notices per run

(* A turn waits for its lock as long as time is modelled. *)
ASSUME WaitAssumption == MaxTime <= MaxLag
ASSUME RivalAssumption == Rival \in Booking /\ RivalWants \subseteq Departure \X (1 .. MaxParty)

VARIABLES
  call,         \* status of the call of a booking
  transcript,   \* its stored turns in order of sequence_no
  requests      \* requests of the page so far

callVars == <<call, transcript, requests>>
tableVars == <<agreement, gate, paymentVars, turns>>
conversationVars == <<vars, twinVars, callVars>>

Call == Booking \ {Rival}
TerminalCall == {"ENDED", "FAILED", "CANCELLED"}
Stored(b) == {transcript[b][i] : i \in DOMAIN transcript[b]}

(* canPersistFinalTranscriptForCall *)
CanPersist(status, trusted) == status \notin TerminalCall \/ (status = "ENDED" /\ trusted)

(* shouldExtractBookingFacts and mayContainRevenueTwinVoiceSelection *)
ExtractsFacts(id) == Said[id].speaker = "CUSTOMER" /\ Said[id].kind = "facts"

ASSUME SaidAssumption ==
  \A id \in TurnId : ExtractsFacts(id) => Said[id].facts \in Utterance
-----------------------------------------------------------------------------
AdmissionInit ==
  /\ Init
  /\ evals = [b \in Booking |-> <<>>]
  /\ desk = [w \in Worker |-> Idle]
  /\ call = [b \in Booking |-> "CREATED"]
  /\ transcript = [b \in Booking |-> <<>>]
  /\ requests = 0

(* The reads up to the advisory lock; a turn that is stored already is     *)
(* answered from its row and goes no further.  trusted: signed history of  *)
(* the provider.                                                           *)
TurnBegin(w, b, id, trusted) ==
  /\ desk[w] = Idle
  /\ id \notin Stored(b)
  /\ CanPersist(call[b], trusted)
  /\ desk' = [desk EXCEPT ![w] =
       [pc |-> "admitted", booking |-> b, turn |-> id, at |-> now, seenCall |-> call[b],
        seenTurns |-> Len(transcript[b]), seenBooking |-> booking[b]]]
  /\ UNCHANGED <<vars, evals, callVars>>

(* Mutant: READ COMMITTED, so the call's row is updated by id. *)
CallUnchangedUnchecked(r) == TRUE

(* The first writer of a row that a SERIALIZABLE transaction updates wins. *)
CallUnchanged(r) == r.seenCall = "CREATED" => call[r.booking] = "CREATED"

(* Mutant: no unique index on the turn's key. *)
TurnsUnchangedUnchecked(r) == TRUE

TurnsUnchanged(r) == Len(transcript[r.booking]) = r.seenTurns

(* The rest of a customer's turn: the pipeline after the commit. *)
Pipeline(r) ==
  IF Said[r.turn].speaker # "CUSTOMER" THEN Idle
  ELSE [pc |-> IF ExtractsFacts(r.turn) THEN "evaluate" ELSE "select",
        booking |-> r.booking, says |-> [kind |-> Said[r.turn].kind, at |-> Said[r.turn].at]]

(* Turn, call and, for facts, draft, hold, risk and confirmation commit    *)
(* together.                                                               *)
TurnCommit(w, k) ==
  LET r == desk[w]
  IN  /\ r.pc = "admitted"
      /\ TurnsUnchanged(r)
      /\ CallUnchanged(r)
      /\ transcript' = [transcript EXCEPT ![r.booking] = Append(@, r.turn)]
      /\ call' = [call EXCEPT ![r.booking] = IF r.seenCall = "CREATED" THEN "ACTIVE" ELSE @]
      /\ desk' = [desk EXCEPT ![w] = Pipeline(r)]
      /\ IF ExtractsFacts(r.turn)
         THEN /\ booking[r.booking] = r.seenBooking
              /\ TranscriptTurn(r.booking, Said[r.turn].facts, k, r.at)
         ELSE UNCHANGED vars
      /\ UNCHANGED <<evals, requests>>

(* The evaluation a customer's facts call for, and one the page asks for. *)
TurnEvaluates(w) ==
  /\ desk[w].pc = "evaluate"
  /\ EvaluateRead(w, desk[w].booking, now)
  /\ UNCHANGED <<vars, callVars>>

PageAsks ==
  /\ requests < MaxRequests
  /\ requests' = requests + 1

RequestEvaluates(w, b) ==
  /\ desk[w] = Idle
  /\ booking[b].status # "NONE"
  /\ PageAsks
  /\ EvaluateRead(w, b, now)
  /\ UNCHANGED <<vars, call, transcript>>

RequestDeclines(w, ref) ==
  /\ PageAsks
  /\ DeclineRead(w, ref)
  /\ UNCHANGED <<vars, call, transcript>>

EndTarget(seen) == IF seen = "CREATED" THEN "CANCELLED" ELSE "ENDED"

(* endCallSession: the status is read, then written by id. *)
EndRead(w, b) ==
  /\ desk[w] = Idle
  /\ PageAsks
  /\ call[b] \notin {"ENDED", "CANCELLED"}
  /\ desk' = [desk EXCEPT ![w] = [pc |-> "ending", booking |-> b, seenCall |-> call[b]]]
  /\ UNCHANGED <<vars, evals, call, transcript>>

EndCall(w) ==
  LET r == desk[w]
  IN  /\ r.pc = "ending"
      /\ Allowed(callTransitions, r.seenCall, EndTarget(r.seenCall))
      /\ call' = [call EXCEPT ![r.booking] = EndTarget(r.seenCall)]
      /\ desk' = [desk EXCEPT ![w] = Idle]
      /\ UNCHANGED <<vars, evals, transcript, requests>>

(* A crash, a timeout, a serialization failure or a 4xx: what has not      *)
(* committed is lost, and so is the rest of the pipeline of a turn that    *)
(* has: its retry is a duplicate.                                          *)
RequestFails(w) ==
  /\ desk[w] # Idle
  /\ desk' = [desk EXCEPT ![w] = Idle]
  /\ UNCHANGED <<vars, evals, callVars>>

(* Another customer's turn, as far as it concerns the seats. *)
RivalReserves(k, d, q) ==
  /\ Reserve(k, Rival, d, q, now, now + HoldTTL)
  /\ UNCHANGED <<booking, tableVars, twinVars, callVars>>

TwinStep(w) ==
  /\ \/ EvaluateWrite(w)
     \/ DeclineWrite(w)
     \/ SelectRead(w, now)
     \/ SelectWaitlist(w)
  /\ UNCHANGED <<vars, callVars>>

AcceptStep(k) ==
  /\ \/ \E w \in Worker : SelectAccept(w, k, now)
     \/ \E ref \in AllRefs : AcceptOffer(ref, k, now)
  /\ UNCHANGED <<tableVars, callVars>>

AdmissionStep ==
  \/ TimePasses /\ UNCHANGED <<twinVars, callVars>>
  \/ \E w \in Worker, b \in Call :
       \/ \E id \in TurnId, trusted \in BOOLEAN : TurnBegin(w, b, id, trusted)
       \/ RequestEvaluates(w, b)
       \/ EndRead(w, b)
       \/ \E ref \in Refs(b) : RequestDeclines(w, ref)
  \/ \E w \in Worker :
       \/ \E k \in HoldKey : TurnCommit(w, k)
       \/ TurnEvaluates(w)
       \/ TwinStep(w)
       \/ EndCall(w)
  \/ \E k \in HoldKey :
       \/ AcceptStep(k)
       \/ \E want \in RivalWants : RivalReserves(k, want[1], want[2])
=============================================================================
