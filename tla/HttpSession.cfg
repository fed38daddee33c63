SPECIFICATION FairSpec
CONSTANTS
  c1 = c1
  c2 = c2
  NoConn = NoConn
  NoLength = NoLength
  Conns <- TwoConns
  Requests <- EveryRequest
  Strays <- StrayRequests
  Workloads <- ClientWork
  Services <- Registered
  Defaults <- DefaultChoices
CHECK_DEADLOCK FALSE
INVARIANTS
  TypeOK
  StatisticsExact
  SnapshotConsistent
  Authorised
  InStep
PROPERTIES
  SessionsEnd
