\* A hold expires under a slow verification while another booking wants the seats.
SPECIFICATION Spec
CONSTANTS
  k1 = k1
  k2 = k2
  k3 = k3
  b1 = b1
  b2 = b2
  d1 = d1
  d2 = d2
  i1 = i1
  i2 = i2
  s1 = s1
  s2 = s2
  c1 = c1
  c2 = c2
  None = None
  HoldKey <- HoldKeys3
  Booking <- Bookings2
  Departure <- MCDeparture
  IntentKey <- IntentKeys2
  Signature <- Signatures2
  Client <- Clients1
  Utterance <- MCUtterance
  Capacity <- MCCapacity
  DepartsAt <- MCDepartsLate
  Fare <- MCFare
  Deposit <- MCDeposit
  MaxParty = 2
  HoldTTL = 2
  MaxLag = 0
  MaxTime = 3
  MaxTurns = 3
SYMMETRY Symmetry
CHECK_DEADLOCK FALSE
INVARIANT
  PaidSeatHeld
