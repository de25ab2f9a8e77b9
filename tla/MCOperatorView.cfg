CONSTANTS
  States = {"Spoofed"}
  Modes = {0, 1}
  Mode0 = 0
  Staleness = 0
  BusCap = 2
  Nothing = Nothing
  LastHeartbeat = 2
  LastTick = 3
  MaxTransitions = 1
  MaxFailures = 1
SPECIFICATION ViewSpec
INVARIANT AlarmsAccountedFor
PROPERTIES LinkShown ModeShown
CHECK_DEADLOCK FALSE
