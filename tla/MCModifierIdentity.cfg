CONSTANTS
  AnyFlag = 100
  NoCaster = NoCaster
  NoProvider = NoProvider
  Absent = Absent
  Entity = {1, 2}
  Key <- TwoNames
  StackingOf <- TwoStackings
  Template <- OneTemplate
  Copies = {0}
  MaxOrdinal = 2
  MaxLife = 1
SPECIFICATION IdentitySpec
INVARIANT RefsNeverReused
CHECK_DEADLOCK FALSE
