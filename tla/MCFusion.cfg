CONSTANTS
  SpoofedDwell = 2
  ClearDwell = 1
  MaxDwellPause = 2
  MaxConsecutiveDropout = 2
  StreakMax = 4
  None = None
  Steps <- AllSteps
  MaxTime = 9
  FreezeGap = 1
  FreezeOnSuspicious = TRUE
  FixSteps <- FixStepsMonotone
SPECIFICATION FSpec
INVARIANTS
  NoAidingUnderSuspicion
  SilentBeforeReady
  EachLatchAnswered
  EscalationInv
  DwellNeverRestarts
  FiringFixEscalates
  StallBound
  CleanStreakUnbroken
PROPERTIES
  SpoofedLatched
  ImplementsSpoofResponse
