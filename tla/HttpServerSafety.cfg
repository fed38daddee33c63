SPECIFICATION Spec
CONSTANTS
  Clients = {c1, c2, c3, c4}
  MaxConnections = 2
  MaxRequests = 1
  NoConn = NoConn
SYMMETRY ClientSymmetry
INVARIANTS
  TypeOK
  SlotExclusive
  SlotAccounting
PROPERTIES
  ReleasedAfterClose
  ImplementsPool
