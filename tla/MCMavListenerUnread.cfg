CONSTANTS
  Packets <- Datagrams
  AllowedIp = None
  Sysid = 1
  ListenerCap = 2
  None = None
  ExpectedPort = 14550
  FusionCap = 2
  Consumed = {}
SPECIFICATION ListenerSpec
PROPERTY NeverSilentlyDeaf
CHECK_DEADLOCK FALSE
