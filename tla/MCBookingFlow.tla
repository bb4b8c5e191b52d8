--------------------------- MODULE MCBookingFlow ---------------------------
(* Instances of BookingFlow for TLC. *)
EXTENDS BookingProperties, TLC

CONSTANTS k1, k2, k3, b1, b2, d1, d2, i1, i2, s1, s2, c1, c2

Says(dep, pax, rest, confirms) ==
  [dep |-> dep, pax |-> pax, rest |-> rest, confirms |-> confirms]

(* d1 has one seat less than the two parties want together, and leaves     *)
(* before modelled time ends.                                              *)
MCCapacity == (d1 :> 2) @@ (d2 :> 1)
MCDepartsAt == (d1 :> 3) @@ (d2 :> 9)
(* On d2 the deposit of one seat is all of its fare. *)
MCFare == (d1 :> 2) @@ (d2 :> 1)
MCDeposit == (d1 :> 1) @@ (d2 :> 1)
MCDepartsLate == (d1 :> 9) @@ (d2 :> 9)

(* Everything at once, a change of party, a change of bus, a bare "yes".   *)
MCUtterance ==
  {Says(d1, 1, TRUE, FALSE), Says(d1, 2, TRUE, TRUE), Says(d2, 0, FALSE, FALSE),
   Says(None, 0, FALSE, TRUE)}
MCUtteranceFull == {Says(d1, 1, TRUE, TRUE)}

HoldKeys2 == {k1, k2}
HoldKeys3 == {k1, k2, k3}
Bookings1 == {b1}
Bookings2 == {b1, b2}
MCDeparture == {d1, d2}
IntentKeys2 == {i1, i2}
Signatures1 == {s1}
Signatures2 == {s1, s2}
Clients1 == {c1}
Clients2 == {c1, c2}

Symmetry ==
  Permutations(HoldKey) \cup Permutations(Booking) \cup Permutations(IntentKey)
    \cup Permutations(Signature) \cup Permutations(Client)
=============================================================================
