---------------------------- MODULE MCDecisions ----------------------------
(* The cases of Decisions for TLC. *)
EXTENDS Decisions, TLC

CONSTANTS s1, s2, da, db, dc, dd, de, hue, danang, nhatrang, station, market, thisTurn, lastTurn

(***************************************************************************)
(* Payments: a wallet and a price that change with a deployment; transfers *)
(* of too little, of the price in two parts, to others.                    *)
(***************************************************************************)
MCSignature == {s1, s2}
MCConfig == {[wallet |-> "w1", lamports |-> 2], [wallet |-> "w1", lamports |-> 3]}
To(wallet, lamports) == [to |-> wallet, lamports |-> lamports]
MCContent ==
  {[transfers |-> <<To("w1", 2)>>, mentions |-> TRUE],
   [transfers |-> <<To("w1", 1), To("w2", 2), To("w1", 1)>>, mentions |-> TRUE],
   [transfers |-> <<To("w1", 3)>>, mentions |-> TRUE],
   [transfers |-> <<To("w2", 2)>>, mentions |-> TRUE],
   [transfers |-> <<To("w1", 2)>>, mentions |-> FALSE]}
MCClaim ==
  {[amount |-> a, wallet |-> w, mentions |-> a = 9] : a \in {9, 2}, w \in {MockWallet, ""}}

(***************************************************************************)
(* Files of up to two departures in two slots of one route, with a pickup  *)
(* point that comes and goes; rows that are refused.                       *)
(***************************************************************************)
Point(code) == [code |-> code, valid |-> TRUE]
Policy(version) == [version |-> version, valid |-> TRUE]
Trip(id, at, stop, capacity, status) ==
  [id |-> id, route |-> hue, at |-> at, service |-> id, stops |-> {stop},
   capacity |-> capacity, policy |-> "SRRRO-V1", status |-> status, valid |-> TRUE]
Stock(id, confirmed, held, version) ==
  [id |-> id, confirmed |-> confirmed, active |-> held, version |-> version, valid |-> TRUE]

Schedules ==
  {<<>>, <<Trip(da, 1, station, 2, "SCHEDULED")>>, <<Trip(da, 1, market, 3, "SCHEDULED")>>,
   <<Trip(da, 1, station, 3, "SCHEDULED"), Trip(db, 2, station, 2, "CANCELLED")>>,
   <<Trip(db, 1, station, 2, "SCHEDULED")>>,
   <<Trip(da, 2, station, 2, "SCHEDULED"), Trip(db, 1, market, 2, "SCHEDULED")>>,
   <<Trip(da, 1, station, 2, "SCHEDULED"), Trip(db, 1, station, 2, "SCHEDULED")>>}
Inventories ==
  {<<>>, <<Stock(da, 2, 0, 1)>>, <<Stock(da, 0, 2, 3)>>, <<Stock(da, 1, 1, 2)>>,
   <<Stock(da, 2, 1, 1), Stock(db, 1, 1, 1)>>, <<Stock(da, 1, 0, 1), Stock(da, 0, 1, 2)>>}

Files ==
  {[pickups |-> p, policies |-> <<Policy("SRRRO-V1")>>, schedule |-> s, inventory |-> i] :
     p \in {<<>>, <<Point(station)>>, <<Point(station), Point(market)>>},
     s \in Schedules, i \in Inventories}
    \cup {[pickups |-> <<Point(station), Point(station)>>, policies |-> <<>>,
           schedule |-> <<Trip(da, 1, station, 2, "SCHEDULED")>>, inventory |-> <<>>]}

MCLoads == [first : Files, second : Files]

(***************************************************************************)
(* Words about two routes and the departures of two days, one of them in   *)
(* two years; what the model proposes about them.                          *)
(***************************************************************************)
MCLength == (hue :> 3) @@ (danang :> 6) @@ (nhatrang :> 9) @@ (station :> 13) @@ (market :> 7)
MCPointsOf == (<<hue, danang>> :> {station, market}) @@ (<<hue, nhatrang>> :> {station})

Clock(h, m) == [hour |-> h, minute |-> m]
Day(y, m, d) == [year |-> y, month |-> m, day |-> d]
Departing(id, to, date, time, at, status) ==
  [dep |-> id, from |-> hue, to |-> to, date |-> date, time |-> time, at |-> at,
   status |-> status]

Trips ==
  {Departing(da, danang, Day(2026, 6, 20), Clock(7, 0), 1, "SCHEDULED"),
   Departing(db, danang, Day(2026, 6, 21), Clock(7, 30), 2, "SCHEDULED"),
   Departing(dc, danang, Day(2027, 6, 21), Clock(7, 30), 9, "SCHEDULED"),
   Departing(dd, nhatrang, Day(2026, 6, 21), Clock(7, 30), 2, "SCHEDULED"),
   Departing(de, danang, Day(2026, 6, 20), Clock(7, 0), 1, "CANCELLED")}

Silence ==
  [explicit |-> {}, ordered |-> {}, clock |-> <<>>, date |-> [day |-> None, month |-> None],
   replaced |-> None, mentioned |-> None, counts |-> FALSE, pickups |-> {},
   phone |-> None, spoken |-> <<>>]

Digits(ds) == [kind |-> "digits", digits |-> ds]

Utterances ==
  {Silence,
   [Silence EXCEPT !.explicit = {<<hue, danang>>}, !.clock = <<Clock(<<7>>, <<3, 10>>)>>,
      !.date = [day |-> <<2, 10, 1>>, month |-> <<6>>]],
   [Silence EXCEPT !.ordered = {<<hue, danang>>, <<hue, nhatrang>>},
      !.pickups = {station, market}],
   [Silence EXCEPT !.clock = <<Clock(<<19>>, <<9, 10>>)>>, !.date.day = <<4, 10>>],
   [Silence EXCEPT !.mentioned = <<10, 2>>, !.replaced = <<3>>, !.counts = TRUE],
   [Silence EXCEPT !.mentioned = <<4, 10>>, !.counts = TRUE],
   [Silence EXCEPT !.date = [day |-> <<20>>, month |-> <<6>>],
      !.spoken = <<Digits(<<9>>), [kind |-> "hundred", digit |-> 3, unit |-> 5],
                   Digits(<<1, 2, 3, 4, 5>>), [kind |-> "other"], Digits(<<6>>)>>],
   [Silence EXCEPT !.phone = <<0, 9, 1, 2, 3, 4, 5, 6, 7>>, !.spoken = <<Digits(<<1>>)>>]}

Proposal(value, confidence, turn) ==
  [value |-> value, confidence |-> confidence,
   status |-> IF value = None THEN "MISSING" ELSE "PRESENT", turns |-> {turn}]

Proposals(confidence, turn) ==
  {("passengerCount" :> Proposal(4, confidence, turn))
     @@ ("contactPhoneCandidate" :> Proposal(<<0, 1>>, confidence, turn)),
   ("origin" :> Proposal(hue, confidence, turn))
     @@ ("destination" :> Proposal(danang, confidence, turn))
     @@ ("departureDate" :> Proposal(Day(2026, 6, 21), confidence, turn))
     @@ ("departureTime" :> Proposal(Clock(7, 30), confidence, turn)),
   ("destination" :> Proposal(nhatrang, confidence, turn))
     @@ ("pickupPoint" :> Proposal(market, confidence, turn)),
   ("origin" :> Proposal(danang, confidence, turn))
     @@ ("destination" :> Proposal(hue, confidence, turn))
     @@ ("passengerCount" :> Proposal(None, confidence, turn)),
   ("departureTime" :> [value |-> None, confidence |-> confidence, status |-> "AMBIGUOUS",
                        turns |-> {turn}]),
   ("passengerCount" :> Proposal(37, confidence, turn))}

NoProposal == "passengerCount" :> Proposal(None, 0, thisTurn)

Replies ==
  {[error |-> e, candidate |-> NoProposal] : e \in {"TIMEOUT", "RATE_LIMITED"}}
    \cup {[error |-> "NONE", candidate |-> p] :
            p \in Proposals(95, thisTurn) \cup Proposals(60, thisTurn)
                    \cup Proposals(95, lastTurn)}

MCTurns ==
  {[said |-> w, catalogue |-> Trips, provider |-> p, reply |-> r, t |-> t] :
     w \in Utterances, p \in {"deterministic", "openai"}, r \in Replies, t \in {0, 1}}

(***************************************************************************)
(* Markets of up to three alternatives around a departure at eight.        *)
(***************************************************************************)
Bus(id, order, at, available, fare, relation) ==
  [dep |-> id, order |-> order, at |-> at, capacity |-> 16, available |-> available,
   fare |-> fare, relation |-> relation, pickups |-> {market}]

Alternatives ==
  {Bus(db, 2, 495, 3, 180000, "OWN_FLEET"), Bus(dc, 3, 565, 16, 180000, "VERIFIED_PARTNER"),
   Bus(dd, 4, 470, 10, 101000, "OWN_FLEET"), Bus(de, 5, 495, 5, 90000, "VERIFIED_PARTNER")}

MCPolicy(enabled, surplus, relations) ==
  [enabled |-> enabled, maxDiscount |-> 30000, maxBasisPoints |-> 2000, minFare |-> 100000,
   maxShift |-> 120, proactive |-> TRUE, scarce |-> 2, surplus |-> surplus, ttl |-> 5,
   relations |-> relations, version |-> "SRRRO-V1"]

MCDemand(pax, pickup, constraint) ==
  [dep |-> da, pickup |-> pickup, pax |-> pax, before |-> 10, after |-> 90,
   constraint |-> constraint]

MCMarkets ==
  {[primary |-> Bus(da, 1, 480, seats, 180000, "OWN_FLEET"), others |-> others,
    demand |-> MCDemand(pax, pickup, constraint), policy |-> policy] :
     seats \in {0, 2, 6}, others \in SUBSET Alternatives, pax \in {1, 3, 6},
     pickup \in {AnyPickup, market}, constraint \in {"FIXED", "PREFERRED"},
     policy \in {MCPolicy(TRUE, 2, Relation), MCPolicy(TRUE, 4, {"OWN_FLEET"}),
                 MCPolicy(FALSE, 2, Relation)}}

MCSimulations ==
  {[seats |-> seats, others |-> others, accepts |-> accepts,
    requests |-> <<[pax |-> p, at |-> 5], [pax |-> q, at |-> 3], [pax |-> 1, at |-> 5]>>] :
     seats \in 0 .. 4, others \in {<<>>, <<2>>, <<1, 3>>}, p \in 1 .. 3, q \in 1 .. 3,
     accepts \in [1 .. 3 -> BOOLEAN]}

Symmetry == Permutations(Signature)
=============================================================================
