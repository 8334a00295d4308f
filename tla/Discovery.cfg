SPECIFICATION DiscoverySpec
CONSTANTS
  Local = local
  Remote = remote
  Devices <- MCDevices
  Routes <- MCRoutes
  Deadline = 12
  ResendEvery = 4
  Slice = 5
  MaxDelay = 1
  MaxLoss = 1
  MaxStray = 1
  Named = named
  None = none
  Options <- MCOptions
  MaxOptions = 3
INVARIANTS ProbedRegularly AnswersHeard RetryFindsDevice SameHostPreferred CommandHonoured
PROPERTY MakeClientReturns
CHECK_DEADLOCK FALSE
