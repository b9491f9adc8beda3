SPECIFICATION Spec
CONSTANTS
  Targets <- TwoTargets
  Slots <- FourSlots
  None = None
  MaxTimers = 4
  MaxVisits = 2
  MaxLosses = 0
PROPERTIES KeepsConnection
CHECK_DEADLOCK FALSE
