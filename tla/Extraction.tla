----------------------------- MODULE Extraction -----------------------------
(***************************************************************************)
(* From a customer's words to the facts a draft is built from: the         *)
(* deterministic parser (apps/api replay-extractor), the proposals of the  *)
(* language model and their validation (packages/ai), what the API takes   *)
(* of them and what it stores (append-transcript-turn).  Functions only.   *)
(*                                                                         *)
(* The patterns are abstracted to what they find.  Said is a record        *)
(*   explicit, ordered    routes <<from, to>> named by a pattern, or by    *)
(*                        two places one after the other                   *)
(*   clock                readings of the hour, best pattern first:        *)
(*                        19:30, spoken colon, "gio": [hour, minute]       *)
(*   date                 [day, month] number expressions or None          *)
(*   replaced, mentioned  the number of passengers in "doi sang ...", and  *)
(*                        the first one not after a colon, or None         *)
(*   counts               some number stands before a passenger unit       *)
(*   pickups              spoken forms of pickup points                    *)
(*   phone                a number of 9 to 11 digits, or None              *)
(*   spoken               the words after "so dien thoai"                  *)
(* A number expression is a sequence of units, with 10 for "muoi".  A      *)
(* candidate field is [value, confidence in percent, status, turns].       *)
(***************************************************************************)
EXTENDS Naturals, FiniteSets, SequencesExt

CONSTANTS
  None,         \* undefined
  Length,       \* letters of each name, without diacritics
  PointsOf      \* pickup points offered by a route, by code and by name

NoFacts ==
  [from |-> None, to |-> None, time |-> None, day |-> None, month |-> None,
   pax |-> None, pickup |-> None, phone |-> None]

Else(x, y) == IF x # None THEN x ELSE y

(* The longest names win. *)
Longest(candidates, LengthOf(_)) ==
  IF candidates = {} THEN None
  ELSE CHOOSE x \in candidates : \A y \in candidates : LengthOf(x) >= LengthOf(y)
-----------------------------------------------------------------------------
(***************************************************************************)
(* extractReplayFacts.                                                     *)
(***************************************************************************)
ParseNumber(words) ==
  LET unit(i) == IF i \in DOMAIN words THEN words[i] ELSE 0
  IN  IF words = None THEN None
      ELSE IF words[1] = 10 THEN 10 + unit(2)
      ELSE IF Len(words) > 1 /\ words[2] = 10 THEN words[1] * 10 + unit(3)
      ELSE words[1]

Future(departures, t) == {d \in departures : d.at > t}
Routes(departures) == {<<d.from, d.to>> : d \in departures}

ExtractRoute(said, departures) ==
  LET named == said.explicit \cap Routes(departures)
      heard == said.ordered \cap Routes(departures)
  IN  Longest(IF named # {} THEN named ELSE heard, LAMBDA r : Length[r[1]] + Length[r[2]])

(* Mutant: an hour of the clock that does not exist. *)
ExtractTimeUnbounded(said) ==
  IF said.clock = <<>> THEN None
  ELSE [hour |-> ParseNumber(said.clock[1].hour),
        minute |-> Else(ParseNumber(said.clock[1].minute), 0)]

ExtractTime(said) ==
  LET hour == ParseNumber(said.clock[1].hour)
      minute == Else(ParseNumber(said.clock[1].minute), 0)
  IN  IF said.clock # <<>> /\ hour <= 23 /\ minute <= 59
      THEN [hour |-> hour, minute |-> minute] ELSE None

Within(n, low, high) == IF n # None /\ low <= n /\ n <= high THEN n ELSE None

ExtractDay(said) == Within(ParseNumber(said.date.day), 1, 31)
ExtractMonth(said) == Within(ParseNumber(said.date.month), 1, 12)

ExtractPassengerCount(said) ==
  Within(ParseNumber(Else(said.replaced, said.mentioned)), 1, 36)

SupportedPickupPoints(departures) == UNION {PointsOf[r] : r \in Routes(departures)}

ExtractPickup(said, departures) ==
  Longest(said.pickups \cap SupportedPickupPoints(departures), LAMBDA p : Length[p])

(* "ba tram le nam" is 3, 0, 5; other words are a digit each; the first    *)
(* word that is none ends the number; nine digits lack the leading zero.   *)
SpokenDigits(words) ==
  FoldLeft(LAMBDA acc, w :
             IF acc.ended THEN acc
             ELSE CASE w.kind = "hundred" -> [acc EXCEPT !.digits = @ \o <<w.digit, 0, w.unit>>]
                    [] w.kind = "digits" -> [acc EXCEPT !.digits = @ \o w.digits]
                    [] OTHER -> [acc EXCEPT !.ended = TRUE],
           [digits |-> <<>>, ended |-> FALSE], words).digits

ExtractSpokenPhone(words) ==
  LET digits == SpokenDigits(words)
      phone == IF Len(digits) = 9 /\ digits[1] # 0 THEN <<0>> \o digits ELSE digits
  IN  IF Len(phone) \in 9 .. 11 /\ phone[1] = 0 THEN phone ELSE None

ExtractPhone(said) ==
  IF said.phone # None THEN said.phone
  ELSE IF said.spoken = <<>> THEN None ELSE ExtractSpokenPhone(said.spoken)

ExtractReplayFacts(said, departures, t) ==
  LET ahead == Future(departures, t)
      route == ExtractRoute(said, ahead)
  IN  [from |-> IF route = None THEN None ELSE route[1],
       to |-> IF route = None THEN None ELSE route[2],
       time |-> ExtractTime(said), day |-> ExtractDay(said), month |-> ExtractMonth(said),
       pax |-> ExtractPassengerCount(said), pickup |-> ExtractPickup(said, ahead),
       phone |-> ExtractPhone(said)]
-----------------------------------------------------------------------------
(***************************************************************************)
(* The extraction service.  A candidate is a function from some of         *)
(* CandidateField to candidate fields.                                     *)
(***************************************************************************)
CandidateField ==
  {"origin", "destination", "departureDate", "departureTime", "passengerCount",
   "pickupPoint", "contactPhoneCandidate", "customerNotes"}

FieldStatus == {"PRESENT", "MISSING", "AMBIGUOUS", "INVALID"}

(* BookingExtractionCandidateSchema *)
WellFormed(candidate) ==
  /\ DOMAIN candidate \subseteq CandidateField
  /\ \A f \in DOMAIN candidate :
       /\ candidate[f].turns # {}
       /\ candidate[f].status = "PRESENT" <=> candidate[f].value # None
       /\ f = "passengerCount" /\ candidate[f].value # None
            => candidate[f].value \in 1 .. 36

Present(value, turn) ==
  [value |-> value, confidence |-> 100, status |-> "PRESENT", turns |-> {turn}]

(* deterministicCandidateFromFacts: the date is in no field of it. *)
DeterministicCandidate(facts, turn) ==
  LET value == [origin |-> facts.from, destination |-> facts.to,
                departureTime |-> facts.time, passengerCount |-> facts.pax,
                pickupPoint |-> facts.pickup, contactPhoneCandidate |-> facts.phone]
  IN  [f \in {f \in DOMAIN value : value[f] # None} |-> Present(value[f], turn)]

Outcome(candidate) ==
  LET statuses == {candidate[f].status : f \in DOMAIN candidate}
  IN  IF "AMBIGUOUS" \in statuses THEN "AMBIGUOUS"
      ELSE IF statuses # {"PRESENT"} THEN "PARTIAL"
      ELSE "SUCCESS"

Extracted(candidate, provider, fallback) ==
  [outcome |-> Outcome(candidate), provider |-> provider, candidate |-> candidate,
   fallback |-> fallback]

(* A proposal that cites another turn is refused as a whole.  reply is     *)
(* [error] or [candidate].                                                 *)
Validated(reply, turn) ==
  /\ reply.error = "NONE"
  /\ WellFormed(reply.candidate)
  /\ \A f \in DOMAIN reply.candidate : reply.candidate[f].turns = {turn}

(* createBookingExtractionService: whatever goes wrong with the model, the *)
(* deterministic candidate is there.                                       *)
Service(provider, reply, facts, turn) ==
  LET deterministic == DeterministicCandidate(facts, turn)
  IN  IF provider = "deterministic" THEN Extracted(deterministic, "deterministic", FALSE)
      ELSE IF Validated(reply, turn) THEN Extracted(reply.candidate, "openai", FALSE)
      ELSE Extracted(deterministic, "deterministic", TRUE)
-----------------------------------------------------------------------------
(***************************************************************************)
(* What the API takes.                                                     *)
(***************************************************************************)
(* Mutant: the model need not be sure. *)
CurrentTurnCandidateUnsure(candidate, f, turn) ==
  IF f \in DOMAIN candidate /\ candidate[f].status = "PRESENT" /\ candidate[f].turns = {turn}
  THEN candidate[f].value ELSE None

CurrentTurnCandidate(candidate, f, turn) ==
  IF /\ f \in DOMAIN candidate
     /\ candidate[f].status = "PRESENT"
     /\ candidate[f].confidence >= 90
     /\ candidate[f].turns = {turn}
  THEN candidate[f].value ELSE None

(* A name of the catalogue; spelling and diacritics aside. *)
CanonicalRouteValue(value, names) == IF value \in names THEN value ELSE None

(* mergeValidatedCandidateFacts.  The year of the proposed date is lost.   *)
MergeValidatedCandidate(facts, candidate, turn, departures, said, t) ==
  LET Proposed(f) == CurrentTurnCandidate(candidate, f, turn)
      from == CanonicalRouteValue(Proposed("origin"), {d.from : d \in departures})
      to == CanonicalRouteValue(Proposed("destination"), {d.to : d \in departures})
      route == <<Else(facts.from, from), Else(facts.to, to)>>
      scheduled == route \in Routes(departures)
      exact == {d \in departures :
                  /\ scheduled
                  /\ <<d.from, d.to>> = route
                  /\ d.date = Proposed("departureDate")
                  /\ d.time = Proposed("departureTime")}
      located == facts.time = None /\ Cardinality(exact) = 1
      pickup == {p \in SupportedPickupPoints(Future(departures, t)) :
                   p = Proposed("pickupPoint")}
  IN  [from |-> IF scheduled THEN route[1] ELSE facts.from,
       to |-> IF scheduled THEN route[2] ELSE facts.to,
       time |-> IF located THEN Proposed("departureTime") ELSE facts.time,
       day |-> IF located THEN Proposed("departureDate").day ELSE facts.day,
       month |-> IF located THEN Proposed("departureDate").month ELSE facts.month,
       pax |-> IF facts.pax = None /\ said.counts THEN Proposed("passengerCount")
               ELSE facts.pax,
       pickup |-> IF facts.pickup = None /\ pickup # {} THEN Proposed("pickupPoint")
                  ELSE facts.pickup,
       phone |-> facts.phone]

(* retainCorroboratedCandidateFacts: a deterministic candidate, or a       *)
(* fallback, leaves the parser's facts as they are; what a field that      *)
(* agrees adds is the fact that is there already.                          *)
RetainCorroborated(facts) == facts

FieldOf ==
  [origin |-> "routeFrom", destination |-> "routeTo", departureDate |-> "departureAt",
   departureTime |-> "departureAt", passengerCount |-> "passengerCount",
   pickupPoint |-> "pickupPoint", contactPhoneCandidate |-> "contactPhone"]

MissingFields(candidate) ==
  {FieldOf[f] : f \in {f \in DOMAIN candidate \cap DOMAIN FieldOf :
                         candidate[f].status \in {"MISSING", "AMBIGUOUS", "INVALID"}}}

Contradictions(candidate) ==
  {[field |-> FieldOf[f], turns |-> candidate[f].turns, reason |-> candidate[f].status] :
     f \in {f \in DOMAIN candidate \cap DOMAIN FieldOf :
              candidate[f].status \in {"AMBIGUOUS", "INVALID"}}}

(* The departures a turn may speak of. *)
Offered(catalogue, t) == {d \in Future(catalogue, t) : d.status = "SCHEDULED"}

(* The part of appendTranscriptTurn between its reads and the draft: the   *)
(* facts for the draft and the row of booking_extractions.                 *)
ExtractTurn(said, catalogue, turn, provider, reply, t) ==
  LET departures == Offered(catalogue, t)
      facts == ExtractReplayFacts(said, departures, t)
      extraction == Service(provider, reply, facts, turn)
  IN  [facts |->
         IF extraction.provider = "openai"
         THEN MergeValidatedCandidate(facts, extraction.candidate, turn, departures, said, t)
         ELSE RetainCorroborated(facts),
       outcome |-> extraction.outcome,
       fallback |-> extraction.fallback,
       missing |-> MissingFields(extraction.candidate),
       contradictions |-> Contradictions(extraction.candidate),
       status |-> IF extraction.outcome = "SUCCESS" THEN "ACCEPTED" ELSE "PROPOSED"]
=============================================================================
