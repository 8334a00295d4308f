SPECIFICATION Spec
CONSTANTS
  h1 = h1
  h2 = h2
  h3 = h3
  NoHandler = NoHandler
  Handlers <- MCHandlers
  Methods <- StopMethods
  MaxEvents = 2
  MaxPlaybacks = 1
INVARIANTS StopHonoured
CHECK_DEADLOCK FALSE
