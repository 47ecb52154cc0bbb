CONSTANTS
  AnyFlag = 100
  NoCaster = NoCaster
  NoProvider = NoProvider
  Absent = Absent
  Entity = {1}
  Key <- LifeKeys
  StackingOf <- LifeStacking
  Template <- LifeTemplates
  Copies = {0, 1, 2}
  MaxOrdinal = 1
  MaxLife = 2
SPECIFICATION Spec
PROPERTY SurvivorsKept
PROPERTY LifeNeverShrinks
CHECK_DEADLOCK FALSE
