SPECIFICATION Spec
CONSTANTS
  SealDuration = 0
  SoldierOnlyEnd = 0
  FullUnlockAt = 1
  DrawCheckStart = 50
  NoActionDraw = 50
  NoCaptureDraw = 50
  WaveCount = 1
  WaveOpen <- ShortWaveOpen
  WaveWindow = 1
  UnlockWaves <- ShortUnlockWaves
  Cooldown <- ShortCooldown
  Segment = 2
  InitialBoard <- StandardBoard
  AllowDraw = FALSE
  Aims <- OpeningAims
  Wishes = {}
  Resigners = {}
  Leavers = {}
  MaxLag = 1
  MaxTime = 6
CHECK_DEADLOCK FALSE
INVARIANT NoAllyStack
