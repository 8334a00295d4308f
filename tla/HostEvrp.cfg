SPECIFICATION HostSpec
CONSTANTS
  Handlers = {h1, h2, h3}
  Watch = watch
  Worker = worker
  None = none
  MaxCalls = 3
INVARIANTS NoDanglingClient 
PROPERTIES StopRecordingHonoured StopsReturn ReplayReturns
CHECK_DEADLOCK FALSE
