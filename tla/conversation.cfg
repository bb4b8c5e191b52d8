\* One call, a rival customer, two requests in flight.
SPECIFICATION HistorySpec
CONSTANTS
  k1 = k1
  k2 = k2
  b1 = b1
  rival = rival
  d1 = d1
  d2 = d2
  d3 = d3
  w1 = w1
  w2 = w2
  t1 = t1
  t2 = t2
  n1 = n1
  n2 = n2
  None = None
  AnyPickup = AnyPickup
  HoldKey <- HoldKeys
  Booking <- Bookings
  Rival = rival
  RivalWants <- MCRivalWants
  MaxRequests = 1
  Departure <- Departures
  IntentKey <- NoIntents
  Signature <- NoIntents
  Client <- NoIntents
  Worker <- Workers
  TurnId <- TurnIds
  Said <- MCSaid
  History <- MCHistory
  Utterance <- MCUtterance
  Capacity <- MCCapacity
  DepartsAt <- MCDepartsAt
  Fare <- MCFare
  Deposit <- MCDeposit
  Catalogue <- MCCatalogue
  Policy <- MCPolicy
  MaxParty = 2
  HoldTTL = 1
  MaxLag = 1
  MaxTime = 1
  MaxTurns = 2
  MaxEvals = 2
SYMMETRY Symmetry
CHECK_DEADLOCK FALSE
INVARIANTS
  ConversationTypeOK
  OneAcceptedPerEvaluation
  AcceptedHasItsSeats
  TurnStoredOnce
  AnswersParse
  NoticeRestoresHistory
PROPERTIES
  DecisionStands
  TerminalCallNeverReopens
