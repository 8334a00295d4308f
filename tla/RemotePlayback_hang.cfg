SPECIFICATION RemoteSpec
CONSTANTS
  Threads <- MCThreads
  NoThread = "none"
  Handlers <- MCHandlers
  NoHandler = "none"
  Methods <- MCMethods
  WithProgress = {"player"}
  MaxEvents = 1
  MaxPlaybacks = 2
  MaxApiCalls = 2
PROPERTIES PlaybackWithProgressReturns
CHECK_DEADLOCK FALSE
