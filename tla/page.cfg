SPECIFICATION PageSpec
CONSTANTS
  Rooms <- TwoRooms
  Targets <- AllTargets
  None = None
  MaxCalls = 2
PROPERTIES FramesOfPage CatchesUp
CHECK_DEADLOCK FALSE
