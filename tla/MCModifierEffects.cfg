CONSTANTS
  a = a
  AnyFlag = 100
  NoCaster = NoCaster
  NoProvider = NoProvider
  Absent = Absent
  Entity = {1, 2}
  Key <- AllKeys
  StackingOf <- Stackings
  Template <- FreshTemplate
  Copies = {0}
  MaxOrdinal = 2
  MaxLife = 1
  Cell = {a}
  NoCell = NoCell
  Special = {}
  KindOf <- Additive
  BaseOf <- ZeroBase
  Values = {1}
  TargetLists <- OneTarget
  MaxSlot = 2
  MaxRecords = 1
  MaxShown = 1
SPECIFICATION CarefulSpec
CONSTRAINT OneUse
INVARIANT OneLivePerKey
INVARIANT OneLiveGlobally
INVARIANT NoOrphans
PROPERTY DestroyedIsFinal
PROPERTY DestroyedCannotContribute
CHECK_DEADLOCK FALSE
