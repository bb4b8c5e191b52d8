----------------------------- MODULE Decisions -----------------------------
(***************************************************************************)
(* The answers the API stores or finds as facts without deciding them in   *)
(* its own transactions: which departures there are (Catalogue), what a    *)
(* turn said (Extraction), what an alternative departure costs             *)
(* (RevenueTwinPolicy) and whether a payment has arrived                   *)
(* (PaymentProvider).  The first three are functions: one step puts a case *)
(* and its answer on the desk.  The last is a conversation with a chain.   *)
(***************************************************************************)
EXTENDS Extraction, RevenueTwinPolicy, PaymentProvider, Catalogue

CONSTANTS
  Turns,        \* cases of ExtractTurn: [said, catalogue, provider, reply, t]
  Markets,      \* cases of EvaluateRevenueTwin: [primary, others, demand, policy]
  Loads,        \* cases of Seed: [first, second], one set of files after another
  Simulations,  \* cases of RunRevenueTwinSimulation: [seats, others, requests, accepts]
  Claim,        \* what a request to the mock may claim to have observed
  ThisTurn      \* the turn that is extracted

(* A number is said in one word at least; a departure of the catalogue has *)
(* its two cities, a date and an hour, its route finitely many pickup      *)
(* points, and a name its number of letters.                               *)
Words(w) == w \in Seq(Nat) /\ w # <<>>

InCatalogue(d) ==
  /\ d.from # None /\ d.to # None /\ d.date # None /\ d.time # None
  /\ d.time \in [hour : 0 .. 23, minute : 0 .. 59]
  /\ Length[d.from] \in Nat /\ Length[d.to] \in Nat
  /\ IsFiniteSet(PointsOf[<<d.from, d.to>>])
  /\ \A p \in PointsOf[<<d.from, d.to>>] : Length[p] \in Nat

ASSUME TurnsAssumption ==
  \A c \in Turns :
    /\ c.provider \in {"deterministic", "openai"}
    /\ IsFiniteSet(c.catalogue)
    /\ \A d \in c.catalogue : InCatalogue(d)
    /\ \A w \in {c.said.replaced, c.said.mentioned} : w = None \/ Words(w)
    /\ c.said.clock # <<>> =>
         /\ c.said.clock[1].hour # None /\ Words(c.said.clock[1].hour)
         /\ c.said.clock[1].minute = None \/ Words(c.said.clock[1].minute)

Snapshot(d) ==
  /\ {"dep", "order", "at", "capacity", "available", "fare", "relation"} \subseteq DOMAIN d
  /\ d.order \in Int /\ d.at \in Int /\ d.available \in Nat /\ d.fare \in Nat
  /\ d.relation \in Relation

(* Counts, times and whole VND; an id names one departure. *)
ASSUME MarketsAssumption ==
  \A c \in Markets :
    /\ Snapshot(c.primary) /\ c.demand.dep = c.primary.dep /\ c.demand.pax \in Nat
    /\ c.policy.maxDiscount \in Nat /\ c.policy.maxBasisPoints \in Nat
    /\ c.policy.minFare \in Nat
    /\ IsFiniteSet(c.others)
    /\ \A d \in c.others : Snapshot(d)
    /\ \A d, e \in c.others : d.dep = e.dep \/ d.order = e.order => d = e

ASSUME SimulationsAssumption ==
  \A c \in Simulations :
    /\ c.seats \in Nat /\ c.others \in Seq(Nat)
    /\ c.requests \in Seq([pax : Nat, at : Int])

(* A file is a list of rows; a row that is well formed has counts in its   *)
(* numbers.                                                                *)
File(f) ==
  /\ f.pickups \in Seq(Range(f.pickups)) /\ f.policies \in Seq(Range(f.policies))
  /\ f.schedule \in Seq(Range(f.schedule)) /\ f.inventory \in Seq(Range(f.inventory))
  /\ \A r \in Range(f.schedule) : r.valid => r.capacity \in Nat
  /\ \A r \in Range(f.inventory) : r.valid => r.confirmed \in Nat /\ r.active \in Nat

ASSUME LoadsAssumption == \A c \in Loads : File(c.first) /\ File(c.second)

VARIABLE desk

Desk(topic, case, result) == [topic |-> topic, case |-> case, result |-> result]

DecisionsInit ==
  /\ desk \in [topic : {"catalogue", "turn", "market", "simulation", "payment"}]
  /\ config \in Config
  /\ commitment \in {"confirmed", "finalized"}
  /\ intent = NoIntent
  /\ shown = NoIntent
  /\ chain = [s \in Signature |-> Absent]
  /\ ledger = <<>>
  /\ check = NotChecking
  /\ answer = NoAnswer
  /\ spent = [deploys |-> 0, requests |-> 0]

Undecided(topic) == desk = [topic |-> topic]

(* A database is seeded twice from the same files, then from others. *)
DecideCatalogue ==
  /\ Undecided("catalogue")
  /\ \E c \in Loads :
       LET once == Seed(EmptyCatalogue, c.first)
       IN  desk' = Desk("seeded", c, [once |-> once, twice |-> Seed(once, c.first),
                                      then |-> Seed(once, c.second)])
  /\ UNCHANGED paymentVars

DecideTurn ==
  /\ Undecided("turn")
  /\ \E c \in Turns :
       desk' = Desk("extracted", c, ExtractTurn(c.said, c.catalogue, ThisTurn,
                                                c.provider, c.reply, c.t))
  /\ UNCHANGED paymentVars

DecideMarket ==
  /\ Undecided("market")
  /\ \E c \in Markets :
       desk' = Desk("offers", c, EvaluateRevenueTwin(c.primary, c.others, c.demand, c.policy))
  /\ UNCHANGED paymentVars

DecideSimulation ==
  /\ Undecided("simulation")
  /\ \E c \in Simulations :
       desk' = Desk("simulated", c,
                    RunRevenueTwinSimulation(c.seats, c.others, c.requests, c.accepts))
  /\ UNCHANGED paymentVars

PaymentStep ==
  \/ \E p \in {"mock", "solana_devnet"} : CreateIntent(p) \/ RestoreIntent(p)
  \/ Redeploy
  \/ ChainMoves
  \/ \E c \in Claim : AskMock(c)
  \/ \E s \in Signature : AskBySignature(s)
  \/ AskByReference
  \/ ListCandidates
  \/ ReadStatus
  \/ ReadTransaction

VerifyStep ==
  /\ Undecided("payment")
  /\ PaymentStep
  /\ UNCHANGED desk

Next == DecideCatalogue \/ DecideTurn \/ DecideMarket \/ DecideSimulation \/ VerifyStep

DecisionsSpec == DecisionsInit /\ [][Next]_<<paymentVars, desk>>
-----------------------------------------------------------------------------
(***************************************************************************)
(* Seeding again from the same files changes nothing.  After any load, no  *)
(* two departures are of one route and time, a departure on sale is one of *)
(* the files loaded last, stopping at pickup points that are in use, and   *)
(* the seed's own bookings leave no departure overbooked - as long as the  *)
(* inventory file names it once and says at least as much about it as the  *)
(* one before (schedule-fixture.ts 464-493, 612-750).                      *)
(***************************************************************************)
SeatsOf(db, d) ==
  SumFunction([key \in {k \in DOMAIN db.seats : k[1] = d} |-> db.seats[key]])

NamedOnce(inventory, d) ==
  Cardinality({i \in DOMAIN inventory : inventory[i].id = d}) = 1

Restated(before, inventory, d) ==
  \A key \in DOMAIN before.seats : key[1] = d =>
    \E i \in DOMAIN inventory :
      /\ inventory[i].id = d
      /\ Quantity(inventory[i], key[2]) > 0

Seeded(before, files, after) ==
  /\ \A d, e \in DOMAIN after.departures : d # e =>
       \/ after.departures[d].route # after.departures[e].route
       \/ after.departures[d].at # after.departures[e].at
  /\ after # before =>
       \A d \in DOMAIN after.departures :
         LET row == after.departures[d]
         IN  /\ row.status = "SCHEDULED" =>
                  /\ \E i \in DOMAIN files.schedule :
                       files.schedule[i].id = d /\ files.schedule[i].status = "SCHEDULED"
                  /\ files.pickups # <<>> =>
                       \A code \in row.stops : code \in DOMAIN after.pickups /\ after.pickups[code]
             /\ /\ d \in ValuesOf(files.schedule, LAMBDA r : r.id)
                /\ NamedOnce(files.inventory, d)
                /\ Restated(before, files.inventory, d)
                => SeatsOf(after, d) <= row.capacity

SeedIsSound ==
  desk.topic = "seeded" =>
    LET c == desk.case
        r == desk.result
    IN  /\ r.twice = r.once
        /\ Seeded(EmptyCatalogue, c.first, r.once)
        /\ Seeded(r.once, c.second, r.then)

(***************************************************************************)
(* A draft is built from words that were said.  What the parser            *)
(* understood stands, the date apart; anything else comes from a sure      *)
(* proposal of the configured model about this very turn, a number of      *)
(* passengers only when the customer spoke one; contact details come from  *)
(* the parser alone; a route is one that runs, a departure taken from the  *)
(* model is the one departure of that date and hour (append-transcript-    *)
(* turn.ts 379-462).  An extraction stored as ACCEPTED is complete: the    *)
(* outcome and the diagnostics are computed in two packages.               *)
(***************************************************************************)
SureOf(c, f) ==
  /\ c.provider = "openai"
  /\ c.reply.error = "NONE"
  /\ f \in DOMAIN c.reply.candidate
  /\ LET p == c.reply.candidate[f]
     IN  p.status = "PRESENT" /\ p.confidence >= 90 /\ p.turns = {ThisTurn}

FromWords(c, facts) ==
  LET parsed == ExtractReplayFacts(c.said, Offered(c.catalogue, c.t), c.t)
  IN  /\ \A f \in DOMAIN facts \ {"day", "month"} :
           parsed[f] # None => facts[f] = parsed[f]
      /\ facts.phone = parsed.phone
      /\ facts.from # parsed.from => SureOf(c, "origin")
      /\ facts.to # parsed.to => SureOf(c, "destination")
      /\ facts.pax # parsed.pax => SureOf(c, "passengerCount") /\ c.said.counts
      /\ facts.pickup # parsed.pickup => SureOf(c, "pickupPoint")
      /\ (facts.time # parsed.time \/ facts.day # parsed.day \/ facts.month # parsed.month) =>
           /\ SureOf(c, "departureDate") /\ SureOf(c, "departureTime")
           /\ Cardinality({d \in Offered(c.catalogue, c.t) :
                /\ <<d.from, d.to>> = <<facts.from, facts.to>>
                /\ d.date.day = facts.day /\ d.date.month = facts.month
                /\ d.date = c.reply.candidate["departureDate"].value
                /\ d.time = facts.time}) = 1

FactsAreSaid ==
  desk.topic = "extracted" =>
    LET c == desk.case
        facts == desk.result.facts
    IN  /\ FromWords(c, facts)
        /\ facts.from = None <=> facts.to = None
        /\ facts.from # None => <<facts.from, facts.to>> \in Routes(Offered(c.catalogue, c.t))
        /\ facts.pax # None => facts.pax \in 1 .. 36
        /\ facts.time # None => facts.time \in [hour : 0 .. 23, minute : 0 .. 59]
        /\ desk.result.status = "ACCEPTED" =>
             desk.result.missing = {} /\ desk.result.contradictions = {}

(***************************************************************************)
(* An offer is one the operator can honour and would make: it fits the     *)
(* whole group within the customer's flexibility and the policy's shift,   *)
(* undercuts neither the least fare nor the policy's cap, and a partner's  *)
(* bus is never discounted beyond what the operator's own bus would be; a  *)
(* proactive move leaves the alternative its surplus; own buses and nearer *)
(* departures come first; the status tells whether there is an offer.  A   *)
(* simulation sells no seat twice (packages/domain/src/revenue-twin).      *)
(***************************************************************************)
Honourable(c, o) ==
  \E d \in c.others :
    /\ o.dep = d.dep
    /\ d.dep # c.primary.dep
    /\ d.relation \in c.policy.relations
    /\ o.pax = c.demand.pax /\ o.pax <= d.available
    /\ o.shift = d.at - c.primary.at
    /\ Abs(o.shift) <= c.policy.maxShift
    /\ WithinFlexibility(o.shift, c.demand)
    /\ o.final = d.fare - o.discount
    /\ o.discount \in 0 .. c.policy.maxDiscount
    /\ o.discount * 10000 <= d.fare * c.policy.maxBasisPoints
    /\ o.final >= c.policy.minFare
    /\ o.discount <= Discount([d EXCEPT !.relation = "OWN_FLEET"], c.policy, o.shift)
    /\ CanServe(c.primary, c.demand) =>
         d.available - o.pax >= c.policy.surplus /\ c.primary.available <= c.policy.scarce

RelationOf(c, o) == (CHOOSE d \in c.others : d.dep = o.dep).relation

Ordered(c, offers) ==
  \A i, j \in DOMAIN offers : i < j =>
    /\ offers[i].dep # offers[j].dep
    /\ RelationOf(c, offers[j]) = "OWN_FLEET" => RelationOf(c, offers[i]) = "OWN_FLEET"
    /\ RelationOf(c, offers[i]) = RelationOf(c, offers[j]) =>
         Abs(offers[i].shift) <= Abs(offers[j].shift)

NoSeatTwice(c, result) ==
  /\ result.primary \in 0 .. c.seats
  /\ SumFunction(result.alternatives) + result.accepted = SumFunction(c.others)
  /\ result.index = Len(c.requests) + 1

OffersPriced ==
  /\ desk.topic = "offers" =>
       LET offers == desk.result.offers
       IN  /\ Len(offers) <= 3
           /\ \A i \in DOMAIN offers : Honourable(desk.case, offers[i])
           /\ Ordered(desk.case, offers)
           /\ offers # <<>> <=> desk.result.status \in
                {"PROACTIVE_OFFERS_AVAILABLE", "OVERFLOW_OFFERS_AVAILABLE"}
           /\ desk.result.impact.gross = desk.result.impact.net + desk.result.impact.discount
  /\ desk.topic = "simulated" => NoSeatTwice(desk.case, desk.result)

(***************************************************************************)
(* A payment is CONFIRMED only by a transaction that has reached the       *)
(* required confirmation without error, mentions the intent and pays the   *)
(* intent's wallet exactly what the customer was last shown, whatever has  *)
(* been deployed since; the mock confirms no intent of the chain.  It is   *)
(* refused by discovery only when no transaction found could still turn    *)
(* out to be that payment (devnet-verifier.ts 63-217, payment-provider.ts  *)
(* 87-155).                                                                *)
(***************************************************************************)
Pays(s) ==
  LET content == chain[s].content
      matching == {i \in DOMAIN content.transfers :
                     content.transfers[i].to = shown.wallet}
  IN  /\ matching # {}
      /\ MapThenSumSet(LAMBDA i : content.transfers[i].lamports, matching) = shown.amount
      /\ content.mentions

VerdictJustified ==
  CASE answer.status = "CONFIRMED" /\ answer.provider = "mock" ->
         /\ intent.scheme = "mock"
         /\ answer.claim.amount = shown.amount
         /\ answer.claim.wallet = shown.wallet
    [] answer.status = "CONFIRMED" /\ answer.provider # "mock" ->
         /\ OnChain(answer.sig)
         /\ IsCommitmentSatisfied(chain[answer.sig].stage, commitment)
         /\ ~chain[answer.sig].err
         /\ Pays(answer.sig)
    [] answer.status = "REJECTED" /\ answer.provider # "mock" ->
         IF answer.found = <<>>
         THEN answer.code = "PAYMENT_TRANSACTION_FAILED" \/ ~Pays(answer.sig)
         ELSE \A i \in DOMAIN answer.found :
                chain[answer.found[i]].err \/ ~Pays(answer.found[i])
    [] OTHER -> TRUE
=============================================================================
