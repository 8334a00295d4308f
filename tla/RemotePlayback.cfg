SPECIFICATION RemoteSpec
CONSTANTS
  Threads <- MCThreads
  NoThread = "none"
  Handlers <- MCHandlers
  NoHandler = "none"
  Methods <- MCMethods
  WithProgress = {"player"}
  MaxEvents = 2
  MaxPlaybacks = 3
  MaxApiCalls = 3
INVARIANTS UploadExcludedByPlayback StreamWithinPlayback
PROPERTIES CallsReturn SubscriberReleased
CHECK_DEADLOCK FALSE
