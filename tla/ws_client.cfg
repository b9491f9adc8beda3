SPECIFICATION Spec
CONSTANTS
  Targets <- TwoTargets
  Slots <- FourSlots
  None = None
  MaxTimers = 4
  MaxVisits = 3
  MaxLosses = 2
INVARIANTS OneSocket HeartbeatHasSocket ReconnectsToPage
PROPERTIES ConnectionKept
CHECK_DEADLOCK FALSE
