SPECIFICATION FairSpec
CONSTANTS
  Nodes = {0, 1}
  Kinds <- AllKinds
  SeqSize = 2
  NodeSize = 2
  MaxClock = 2
  MaxBack = 1
  MaxIds = 3
INVARIANTS
  TypeOK
  Unique
  Increasing
PROPERTY
  OverflowReturns
