SPECIFICATION FairSpec
CONSTANTS
  c1 = c1
  c2 = c2
  Clients = {c1, c2}
  Scenarios <- AllScenarios
  MaxCalls = 3
  MaxFaults = 1
  MaxSockets = 2
CHECK_DEADLOCK FALSE
INVARIANTS
  TypeOK
  AnswerIsMine
  ExecutedOnce
  ServedAsAsked
  ResultMatchesCall
  HeadersUnique
  OneMoreDatagram
PROPERTY CallReturns
