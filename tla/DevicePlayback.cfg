SPECIFICATION Spec
CONSTANTS
  h1 = h1
  h2 = h2
  h3 = h3
  Handlers <- MCHandlers
  Methods <- MCMethods
  NoHandler = none
  MaxEvents = 2
  MaxPlaybacks = 2
INVARIANTS PlayingMeansPlaying StopHonouredInLoop StaleStopIgnored OneSubscriber
CHECK_DEADLOCK FALSE
