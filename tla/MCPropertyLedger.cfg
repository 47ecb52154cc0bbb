CONSTANTS
  a = a
  b = b
  c1 = c1
  c2 = c2
  c4 = c4
  c6 = c6
  c7 = c7
  Cell = {a, b, c1, c2, c4, c6, c7}
  NoCell = NoCell
  Special = {b, c2}
  KindOf <- KindOfEach
  BaseOf <- Bases
  Owner = {m1, m2}
  Values = {1, 2}
  TargetLists <- Lists
  MaxSlot = 2
  MaxRecords = 2
  MaxShown = 2
  Limit = 3
  Scale = 4
  Shift = 4
SPECIFICATION MCSpec
SYMMETRY SameOwners
INVARIANT OneOwnerPerSlot
INVARIANT ShownIsRebuilt
PROPERTY OneContributorPerStep
INVARIANT ComparisonIsExact
PROPERTY ImplementsLedger
PROPERTY ImplementsInteger
CHECK_DEADLOCK FALSE
