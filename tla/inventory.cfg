\* Holds of two bookings on two departures; the wall clock may stop at MaxTime.
SPECIFICATION InventorySpec
CONSTANTS
  k1 = k1
  k2 = k2
  k3 = k3
  b1 = b1
  b2 = b2
  d1 = d1
  d2 = d2
  HoldKey <- MCHoldKey
  Booking <- MCBooking
  Departure <- MCDeparture
  Capacity <- MCCapacity
  MaxParty = 2
  HoldTTL = 2
  MaxLag = 1
  MaxTime = 4
SYMMETRY Symmetry
INVARIANTS
  InventoryTypeOK
  NoOverbooking
  OneActiveHoldPerBooking
PROPERTY
  HoldLifecycle
