----------------------- MODULE ConversationProperties -----------------------
(***************************************************************************)
(* What HistoryNotice, and with it TranscriptAdmission and RevenueTwin, is *)
(* checked against.                                                        *)
(***************************************************************************)
EXTENDS HistoryNotice, RevenueTwinDashboard

DeskStep ==
  {"idle", "admitted", "evaluate", "evaluated", "select", "accepting", "waiting",
   "declining", "ending"}

(* Type invariant of the conversation's tables.  Membership of evals is    *)
(* stated row by row, as TLC can check it.                                 *)
ConversationTypeOK ==
  /\ InventoryTypeOK
  /\ booking \in [Booking -> BookingRow]
  /\ call \in [Booking -> CallStatus]
  /\ \A b \in Booking :
       /\ Stored(b) \subseteq TurnId \cup Listed
       /\ notice[b].pc \in {"none", "stored", "appending", "done", "failed"}
       /\ Len(evals[b]) <= MaxEvals + Cardinality(Worker)
       /\ \A e \in DOMAIN evals[b] :
            /\ evals[b][e].status \in EvaluationStatus
            /\ evals[b][e].waiting \in 0 .. MaxParty
            /\ \A r \in DOMAIN evals[b][e].offers : evals[b][e].offers[r] \in OfferRow
  /\ \A w \in Worker : desk[w].pc \in DeskStep

(* The lifecycle of STATE-MACHINES line 321 seen from one evaluation: of   *)
(* its competing offers at most one is ever accepted, by whoever asks,     *)
(* page or voice, and in whatever order they decide.                       *)
OneAcceptedPerEvaluation ==
  \A p, q \in Accepted : (p.booking = q.booking /\ p.eval = q.eval) => p = q

(* An accepted offer names the reservation made for it: seats of that      *)
(* departure, for that party, of that booking; and after further           *)
(* acceptances, sweeps and moves at most one accepted offer of a booking   *)
(* still keeps its seats.                                                  *)
AcceptedHasItsSeats ==
  /\ \A ref \in Accepted :
       LET hold == holds[OfferAt(ref).key]
       IN  /\ hold # NoHold
           /\ hold.booking = ref.booking
           /\ hold.departure = OfferAt(ref).dep
           /\ hold.quantity = OfferAt(ref).pax
  /\ \A p, q \in Accepted :
       (/\ p.booking = q.booking
        /\ holds[OfferAt(p).key].status = "ACTIVE"
        /\ holds[OfferAt(q).key].status = "ACTIVE") => p = q

(* A decision stands.  No offer that was declined, superseded or refused   *)
(* is accepted later, whatever request is delayed or repeated; and an      *)
(* acceptance is undone only by a decline that was already under way.      *)
DecisionStands ==
  [][\A ref \in AllRefs :
       LET was == OfferAt(ref).status
           is  == evals'[ref.booking][ref.eval].offers[ref.rank].status
       IN  /\ is = "ACCEPTED" => was \in {"OPEN", "ACCEPTED"}
           /\ (was = "ACCEPTED" /\ is # "ACCEPTED") =>
                /\ is = "DECLINED"
                /\ \E w \in Worker : desk[w] = [pc |-> "declining", ref |-> ref]]_historyVars

(* STATE-MACHINES lines 59 to 62: a turn, and be it signed history, never  *)
(* reopens a call that has ended.                                          *)
TerminalCallNeverReopens ==
  [][\A b \in Booking :
       call[b] \in TerminalCall => call'[b] \in TerminalCall]_historyVars

(* STATE-MACHINES line 341: a turn that is posted twice, also at the same  *)
(* time or on both sides of a crash, is one durable turn.                  *)
TurnStoredOnce ==
  \A b \in Booking : \A i, j \in DOMAIN transcript[b] :
    transcript[b][i] = transcript[b][j] => i = j

(* The history of a call is complete once its notice has been worked off:  *)
(* whatever was said is stored as often as it was said, though turns that  *)
(* arrive live are not stored again and the two sources name them          *)
(* differently (voice-session.handlers.ts 619-658).                        *)
TimesStored(b, said) == Cardinality(SameWords(transcript[b], said))
TimesListed(said) == Cardinality(SameWords(History, said))

NoticeRestoresHistory ==
  \A b \in Call : notice[b].pc = "done" =>
    \A id \in Listed : TimesStored(b, Said[id]) >= TimesListed(Said[id])

(* Turns, acceptances and rival customers use the hold table only as       *)
(* Inventory says; its theorems therefore hold of the conversation.        *)
SeatsAsInventory == InventorySpec

(* The dashboard and the voice directive answer: what they compute over    *)
(* any mix of open, accepted, declined, superseded and refused offers      *)
(* passes the schema that packages/shared publishes for it.                *)
AnswersParse ==
  /\ DashboardSchema(Metrics, Occupancy)
  /\ \A b \in Booking : evals[b] # <<>> => DirectiveSchema(Directive(b))
=============================================================================
