SPECIFICATION RestartSpec
CONSTANTS
  w1 = w1
  Workers <- OneWorker
  MaxIds = 3
  MaxCrashes = 1
INVARIANTS TypeOK HostSeated RunningFull PresenceAgrees
PROPERTIES RoomKept TablesRespected Survives NeverBackToWaiting
CHECK_DEADLOCK FALSE
