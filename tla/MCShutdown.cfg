CONSTANTS
  RtbWindow = 2
  SeverWindow = 1
  DrainTimeout = 1
  FlushTimeout = 1
  None = None
  MaxLatches = 2
  MaxTime = 0
SPECIFICATION Spec
INVARIANTS
  OneDumpPerProcess
  DumpsIntact
  EventTrailComplete
PROPERTY StopEnds
CHECK_DEADLOCK FALSE
