SPECIFICATION FairSpec
CONSTANTS
  a = a
  b = b
  Locks = {l1, l2}
  NoEntry = NoEntry
  Keys <- MCKeys
  KeyLists <- MCKeyLists
  Stamps = {1, 2}
  Timeouts = {2}
  MaxOrphans = 1
INVARIANTS
  TypeOK
  Exclusion
  AllOrNothing
PROPERTIES
  OnlyOwnerFrees
  KeysComeFree
  LockReturns
