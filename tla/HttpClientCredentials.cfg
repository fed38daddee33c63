SPECIFICATION Spec
CONSTANTS
  t1 = t1
  t2 = t2
  Threads = {t1, t2}
  Scenarios <- AllScenarios
  Answers <- AllAnswers
  MaxCalls = 2
  MaxSockets = 2
  Blocks = {1, 2, 3}
  AuthSize = 15
  HeadPairs = 2
  MaxFaults = 2
CHECK_DEADLOCK FALSE
INVARIANT CredentialsArrive
