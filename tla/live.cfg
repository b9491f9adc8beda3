SPECIFICATION Spec
CONSTANTS
  Conns <- TwoConns
  LogCap = 2
  SnapWindow = 1
  MaxBatch = 2
  MaxTotal = 3
INVARIANTS TypeOK NothingMissed TicksAreTold
PROPERTIES EndIsAnnounced DeadSocketsGo
CHECK_DEADLOCK FALSE
