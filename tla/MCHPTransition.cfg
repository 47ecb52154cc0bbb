SPECIFICATION Spec
CONSTANTS
  LockKinds = {50, 100, 150}
  LockValues = {0, 1, 2, 4}
  MaxLocks = 3
  One = 4
  MaxHPs = {0, 4, 20}
  Ratios = {0, 2}
  StartHP = 20
  Deltas <- MCDeltas
  Kinds = {100}
  SetValues = {1}
  SetRatios = {0, 1}
  LockLists <- MCLockLists
  Missing = Missing
  Lowest <- MCLowest
  Highest = 9
INVARIANT ScanFindsLock
INVARIANT HitsAddUp
PROPERTY LockHolds
PROPERTY CapHolds
PROPERTY GatedDamageConserved
CHECK_DEADLOCK FALSE
