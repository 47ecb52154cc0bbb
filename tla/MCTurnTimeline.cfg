CONSTANTS
  e1 = e1
  e2 = e2
  e3 = e3
  NoEntity = NoEntity
  Entity = {e1, e2, e3}
  Slotless = {e3}
  Delays <- MCDelays
  Recharges <- MCRecharges
  MaxTurns = 3
SPECIFICATION MCSpec
PROPERTY ImplementsActionClock
PROPERTY NoOvertaking
PROPERTY FailureKeepsActingOrder
PROPERTY LoopEveryoneActs
CHECK_DEADLOCK FALSE
