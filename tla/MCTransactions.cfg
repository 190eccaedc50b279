SPECIFICATION Spec
CONSTANTS
  Threads = {w, q}
  Workers = {w}
  NumSlaves = 2
  MaxIndex = 1
  Limit = 2
  Statuses = {s1, s2, s3, s4}
  MaxDepth = 3
  NoStatus = NoStatus
  NoTx = NoTx
SYMMETRY StatusSymmetry
INVARIANTS
  TypeOK
  CleanThread
  Covered
  NoSilentLoss
  Separated
  RouteKept
  CountersBounded
