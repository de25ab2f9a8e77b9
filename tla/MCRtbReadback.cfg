CONSTANTS
  stabilize = stabilize
  rtl = rtl
  Alarms <- TwoAlarms
  Modes <- TwoModes
  Mode0 = stabilize
  RtlModes <- OneRtlMode
  DwellPolls = 2
  Window = 2
  MaxTime = 3
SPECIFICATION Spec
INVARIANTS
  ConfirmedOnLaterEvidence
  RefusedOnlyAfterReset
CHECK_DEADLOCK FALSE
