SPECIFICATION ThreadFairSpec
CONSTANTS
  SealDuration = 0
  SoldierOnlyEnd = 0
  FullUnlockAt = 4
  DrawCheckStart = 4
  NoActionDraw = 3
  NoCaptureDraw = 4
  WaveCount = 1
  WaveOpen <- OneWave
  WaveWindow = 2
  UnlockWaves <- OneOffer
  Cooldown <- ShortCooldown
  Segment = 1
  InitialBoard <- ThreadBoard
  AllowDraw = TRUE
  Aims <- ThreadAims
  Wishes <- ThreadWishes
  Resigners = {1}
  Leavers = {}
  MaxLag = 1
  MaxTime = 6
  Requests <- TwoRequests
INVARIANTS ChoiceIsHeld RunningIsOpen
PROPERTIES EndSettles MovesEnd MatchEnds
CHECK_DEADLOCK FALSE
