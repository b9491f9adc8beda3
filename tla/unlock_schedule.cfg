SPECIFICATION Spec
CONSTANTS
  SealDuration = 3
  SoldierOnlyEnd = 5
  FullUnlockAt = 13
  DrawCheckStart = 15
  NoActionDraw = 6
  NoCaptureDraw = 9
  WaveCount = 4
  WaveOpen <- TensWaveOpen
  WaveWindow = 2
  UnlockWaves <- TensUnlockWaves
  Cooldown <- ShortCooldown
  Segment = 1
  InitialBoard <- GeneralsOnly
  AllowDraw = FALSE
  Aims <- NoAims
  Wishes <- BothWish
  Resigners = {}
  Leavers = {}
  MaxLag = 3
  MaxTime = 14
INVARIANTS UnlocksAccounted WavesSettled EveryWavePays UnlockOfferKept ForecastHolds
PROPERTIES OfferStands PromiseKept
CHECK_DEADLOCK FALSE
