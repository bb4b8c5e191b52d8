\* One intent, two transactions, one redeployment, two verifications; the
\* cases of MCDecisions.
SPECIFICATION DecisionsSpec
CONSTANTS
  s1 = s1
  s2 = s2
  da = da
  db = db
  dc = dc
  dd = dd
  de = de
  hue = hue
  danang = danang
  nhatrang = nhatrang
  station = station
  market = market
  thisTurn = thisTurn
  lastTurn = lastTurn
  None = None
  AnyPickup = AnyPickup
  ThisTurn = thisTurn
  Length <- MCLength
  PointsOf <- MCPointsOf
  Signature <- MCSignature
  Content <- MCContent
  Config <- MCConfig
  Claim <- MCClaim
  Turns <- MCTurns
  Loads <- MCLoads
  Markets <- MCMarkets
  Simulations <- MCSimulations
  OrderAmount = 9
  CandidateLimit = 2
  MaxDeploys = 1
  MaxRequests = 2
SYMMETRY Symmetry
CHECK_DEADLOCK FALSE
INVARIANTS
  SeedIsSound
  FactsAreSaid
  OffersPriced
  VerdictJustified
