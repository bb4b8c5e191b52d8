---------------------------- MODULE MCInventory ----------------------------
(* Instance of Inventory for TLC: two bookings, a full bus and an empty one. *)
EXTENDS Inventory, TLC

CONSTANTS k1, k2, k3, b1, b2, d1, d2

MCHoldKey == {k1, k2, k3}
MCBooking == {b1, b2}
MCDeparture == {d1, d2}
MCCapacity == (d1 :> 3) @@ (d2 :> 2)

Keys == Permutations(MCHoldKey)
Bookings == Permutations(MCBooking)
Symmetry == Keys \cup Bookings
=============================================================================
