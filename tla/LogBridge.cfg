SPECIFICATION LogSpec
CONSTANTS
  Hosts = {h1}
  Device = device
  MaxQueue = 2
  Window = 1
  Threshold = 1
  Levels = {0, 1}
  MaxLines = 3
  HostLines = 1
  MaxHops = 1
INVARIANTS  LostOnlyByOverflow StreamOutlivesWriters
PROPERTY StopTearsDown
CHECK_DEADLOCK FALSE
