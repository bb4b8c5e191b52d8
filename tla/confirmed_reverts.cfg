\* Two verifications of one payment intent race.
SPECIFICATION Spec
CONSTANTS
  k1 = k1
  k2 = k2
  k3 = k3
  b1 = b1
  b2 = b2
  d1 = d1
  d2 = d2
  i1 = i1
  i2 = i2
  s1 = s1
  s2 = s2
  c1 = c1
  c2 = c2
  None = None
  HoldKey <- HoldKeys2
  Booking <- Bookings1
  Departure <- MCDeparture
  IntentKey <- IntentKeys2
  Signature <- Signatures2
  Client <- Clients2
  Utterance <- MCUtteranceFull
  Capacity <- MCCapacity
  DepartsAt <- MCDepartsAt
  Fare <- MCFare
  Deposit <- MCDeposit
  MaxParty = 2
  HoldTTL = 2
  MaxLag = 0
  MaxTime = 2
  MaxTurns = 2
SYMMETRY Symmetry
CHECK_DEADLOCK FALSE
PROPERTY
  ConfirmedIntentNeverReverts
