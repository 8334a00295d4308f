SPECIFICATION Spec
CONSTANTS
  Ids = {s1}
  Peers = {p1, p2}
  Clients = {evrpClient}
  Beaters = {evrpClient}
  NoId = NoId
  Lease = 4
  MinInterval = 1
  WakeDelay = 1
  RpcDelay = 1
  MaxClock = 6
INVARIANTS TypeOK LeaseHonoured HeartbeatKeepsSession
PROPERTIES RemovedOnlyWhenDue ExpiredSessionReclaimed
CHECK_DEADLOCK FALSE
