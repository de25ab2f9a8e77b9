CONSTANTS
  ActivityWindow = 3
  QuietLinkGrace = 4
  NoFixGrace = 6
  RepeatInterval = 5
  PollInterval = 2
  BackoffInitial = 1
  BackoffMax = 3
  None = None
  MaxTime = 13
SPECIFICATION GpsSpec
INVARIANTS
  NoBytesIsTrue
  FixlessLinkReported
  ReportWithdrawn
PROPERTY PortReopened
