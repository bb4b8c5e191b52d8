--------------------------- MODULE MCConversation ---------------------------
(* An instance of TranscriptAdmission for TLC. *)
EXTENDS ConversationProperties, TLC

CONSTANTS k1, k2, b1, rival, d1, d2, d3, w1, w2, t1, t2, n1, n2

Says(dep, pax, rest, confirms) ==
  [dep |-> dep, pax |-> pax, rest |-> rest, confirms |-> confirms]
Turn(speaker, kind, at, facts) ==
  [speaker |-> speaker, kind |-> kind, at |-> at, facts |-> facts]

HoldKeys == {k1, k2}
Bookings == {b1, rival}
Departures == {d1, d2, d3}
Workers == {w1, w2}
TurnIds == {t1, t2}
NoIntents == {}

(* The bus asked for takes one passenger; two alternatives within half an  *)
(* hour, one a partner's.                                                  *)
MCCapacity == (d1 :> 1) @@ (d2 :> 2) @@ (d3 :> 2)
MCDepartsAt == (d1 :> 9) @@ (d2 :> 9) @@ (d3 :> 9)
MCFare == [d \in {d1, d2, d3} |-> 2]
MCDeposit == [d \in {d1, d2, d3} |-> 1]
MCCatalogue ==
  (d1 :> [at |-> 420, order |-> 1, fare |-> 180000, relation |-> "OWN_FLEET", pickups |-> {}])
  @@ (d2 :> [at |-> 435, order |-> 2, fare |-> 180000, relation |-> "OWN_FLEET", pickups |-> {}])
  @@ (d3 :> [at |-> 450, order |-> 3, fare |-> 160000, relation |-> "VERIFIED_PARTNER",
             pickups |-> {}])

(* POLICY, with thresholds to the size of the buses. *)
MCPolicy ==
  [enabled |-> TRUE, maxDiscount |-> 30000, maxBasisPoints |-> 2000, minFare |-> 100000,
   maxShift |-> 120, proactive |-> TRUE, scarce |-> 0, surplus |-> 1, ttl |-> 1,
   relations |-> Relation, version |-> "SRRRO-V1"]

(* Everything at once, and a selection. *)
MCSaid ==
  (t1 :> Turn("CUSTOMER", "facts", 435, Says(d1, 2, TRUE, FALSE)))
  @@ (t2 :> Turn("CUSTOMER", "waitlist", 0, Says(None, 0, FALSE, FALSE)))
  @@ (n1 :> Turn("CUSTOMER", "waitlist", 0, Says(None, 0, FALSE, FALSE)))
  @@ (n2 :> Turn("CUSTOMER", "waitlist", 0, Says(None, 0, FALSE, FALSE)))
(* The selection was made twice; it is live once. *)
MCHistory == <<n1, n2>>
MCUtterance == {Said[id].facts : id \in TurnId}

MCRivalWants == {<<d3, 1>>}

Symmetry == Permutations(HoldKey) \cup Permutations(Worker)
=============================================================================
