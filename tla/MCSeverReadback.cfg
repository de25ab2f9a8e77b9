CONSTANTS
  gps_type = gps_type
  p1 = p1
  Alarms <- TwoAlarms
  SeverParam = gps_type
  OtherParams <- OneOther
  Capacity = 1
  DwellEchoes = 2
  Window = 2
  MaxTime = 5
SPECIFICATION Spec
INVARIANTS
  ConfirmedByLaterZero
  ConfirmedByDwell
PROPERTY VerifyReturns
CHECK_DEADLOCK FALSE
