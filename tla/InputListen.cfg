SPECIFICATION ListenSpec
CONSTANTS
  Handlers = {h1, h2}
  Nodes = {kbd, mouse}
  BatchSize = 1
  Timeout = 1
  MaxPending = 2
  MaxStarts = 3
INVARIANTS DescriptorsClosed ReadyIsCurrent
PROPERTY AbandonedRecordingStops
CHECK_DEADLOCK FALSE
