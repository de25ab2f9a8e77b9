CONSTANTS
  MaxSkew = 1
  MaxImuDt = 2
  WindowSecs = 2
  Capacity = 3
  MaxExtrapolation = 1
  BackTolerance = 0
  SensorTimes = {0, 1, 2, 3}
  None = None
  MaxTime = 4
SPECIFICATION Spec
INVARIANTS
  ServedOnFreshImu
  Bracketed
PROPERTY JitterFree
CHECK_DEADLOCK FALSE
