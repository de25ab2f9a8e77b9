CONSTANTS
  DegradedThreshold = 3
  ReinitInterval = 2
  BusDownThreshold = 6
  FrozenOutputThreshold = 3
  Frames = {f1, f2}
  NoFrame = NoFrame
SPECIFICATION Spec
INVARIANTS
  StaleSamplesBounded
  NeverBlindForLong
  EndsOnlyWhenExhausted
PROPERTY SleeperNoticed
CHECK_DEADLOCK FALSE
