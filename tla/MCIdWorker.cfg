SPECIFICATION FairSpec
CONSTANTS
  Nodes = {1}
  Kinds = {"IdWorker"}
  SeqSize = 2
  NodeSize = 2
  MaxClock = 3
  MaxBack = 1
  MaxIds = 4
PROPERTY
  NextMillisReturns
