SPECIFICATION FairSpec
CONSTANTS
  People = {p1, p2}
  Limit = 2
  Amounts = {1, 2, 3}
  StockTTL = 2
  RateLimit = 1
  RateTTL = 2
  Writers = {w1, w2}
  MaxStock = 4
  MaxTimes = 3
  MaxField = 2
  NoKey = NoKey
INVARIANTS
  TypeOK
  Conserved
  WithinLimit
  RateExact
  NoLostUpdate
PROPERTIES
  RateRenews
  ImplementsAllotment
