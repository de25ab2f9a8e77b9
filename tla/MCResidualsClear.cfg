CONSTANTS
  SpoofedDwell = 3
  ClearDwell = 1
  MaxDwellPause = 4
  MaxConsecutiveDropout = 2
  StreakMax = 4
  None = None
  Steps <- Every
  MaxTime = 9
  FreezeGap = 2
  K = 10
  H = 56
  MagK = 10
  MagH = 60
  VelK = 6
  VelH = 18
  MaxJump = 50
  MaxMismatch = 80
  Persist = 2
  MaxClimb = 30
  HdopLimit = 400
  SatsLimit = 6
  Memory = 5
  VelMemory = 12
  WarmupFixes = 1
  GateStreak = 2
  FrozenRadius = 3
  FrozenMinVel = 10
  FrozenMinPath = 30
  Messages <- Kinds
  FixSteps = {1, 3}
  Bias = 50
  HonestFloor = 6
  WalkOff = 20
  MaxChurn = 3
SPECIFICATION RSpec
INVARIANT EveryCusumQuiescentAtClear
CHECK_DEADLOCK FALSE
