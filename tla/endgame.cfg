SPECIFICATION Spec
CONSTANTS
  SealDuration = 0
  SoldierOnlyEnd = 0
  FullUnlockAt = 1
  DrawCheckStart = 4
  NoActionDraw = 3
  NoCaptureDraw = 5
  WaveCount = 1
  WaveOpen <- ShortWaveOpen
  WaveWindow = 1
  UnlockWaves <- ShortUnlockWaves
  Cooldown <- EndgameCooldown
  Segment = 1
  InitialBoard <- EndgameBoard
  AllowDraw = TRUE
  Aims <- EndgameAims
  Wishes = {}
  Resigners = {1}
  Leavers = {2}
  MaxLag = 2
  MaxTime = 7
INVARIANTS OutcomeJustified MoveOfferKept
PROPERTIES EndedIsFinal
CHECK_DEADLOCK FALSE
