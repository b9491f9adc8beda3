SPECIFICATION Spec
CONSTANTS
  SealDuration = 0
  SoldierOnlyEnd = 0
  FullUnlockAt = 1
  DrawCheckStart = 50
  NoActionDraw = 50
  NoCaptureDraw = 50
  WaveCount = 1
  WaveOpen <- ShortWaveOpen
  WaveWindow = 1
  UnlockWaves <- ShortUnlockWaves
  Cooldown <- ShortCooldown
  Segment = 3
  InitialBoard <- BattleBoard
  AllowDraw = FALSE
  Aims <- BattleAims
  Wishes = {}
  Resigners = {}
  Leavers = {}
  MaxLag = 2
  MaxTime = 8
INVARIANTS TypeOK ContactFree ListsStayTrue NoPassThrough MovesAreXiangqi
PROPERTIES CapturesEarned
CHECK_DEADLOCK FALSE
