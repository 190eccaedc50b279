SPECIFICATION Spec
CONSTANTS
  Nodes = {1}
  Kinds = {"IdBuilder"}
  SeqSize = 4
  NodeSize = 2
  MaxClock = 3
  MaxBack = 1
  MaxIds = 4
INVARIANT
  RefusalKeepsUnique
