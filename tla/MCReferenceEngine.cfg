CONSTANTS
  a = a
  b = b
  x = x
  Entity = {a, b, x}
  NoEntity = NoEntity
  Team <- MCTeam
  Seat <- MCSeat
  Selectable = {a, b, x}
  Ordinary = {a, x}
  Barred = {x}
  Task = {1}
  MaxHP = 2
  MaxToughness = 2
  BreakDamage = 1
  MaxPoints = 3
  Alias = {"AbilityTargetEntity", "AllEnemy", "AllTeammate"}
  Amounts = {1, 2}
  Stances = {1, 2}
  Gains <- MCGains
  Recharges <- MCRecharges
  Delays = {0, 2}
  Shifts <- MCShifts
  MaxElapsed = 3
  MaxShield = 2
  MaxQueue = 2
  MaxShift = 1
  Unset = Unset
  Name = {"stack", "replace", "merge"}
  StackingOf <- MCStacking
  Source <- MCSources
  Lives = {1, 2}
  Values = {0}
  MaxLength = 3
  MaxLife = 2
  Event = {"A", "B", "C"}
  NoEvent = "none"
  OperationId = {1, 2, 3, 4}
  ChildrenOf <- MCChildren
  EmitsOf <- MCEmits
  Uncompiled = {4}
  Entrypoints <- MCEntrypoints
  MaxRegistrations = 3
  MaxGiven = 2
  Owner = {a, x}
  Nobody = Nobody
  Key = {"n", "g", "h"}
  Hashed = {"g", "h"}
  Absent = Absent
  Failed = Failed
  Context <- MCContexts
  Expression <- MCExpressions
  Program <- MCPrograms
  PredicateId = {1, 2, 3, 4, 5, 6, 7, 8}
  PredicateOf <- MCPredicates
  OperationNo = {1, 2, 3, 4, 5, 6, 7, 8, 9, 10}
  OperationOf <- MCOperations
  Entrypoint <- MCEntryLists
  Quotient <- MCQuotient
  MaxValue = 1
SPECIFICATION MCSpec
ACTION_CONSTRAINT OneFamily
INVARIANT LivingAreScheduled
INVARIANT BreakPaidOnce
PROPERTY ImplementsLivingClock
INVARIANT TwinsShareMovedId
PROPERTY RemovedStayRemoved
INVARIANT DispatchIsBreadthFirst
INVARIANT ConditionsFindWrites
INVARIANT PostfixMeansTree
CHECK_DEADLOCK FALSE
