SPECIFICATION FairSpec
CONSTANTS
  Clients = {c1, c2}
  MaxConnections = 2
  MaxRequests = 2
  NoConn = NoConn
PROPERTIES
  SignalStops
  SessionEnds
  PendingServed
