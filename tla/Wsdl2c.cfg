CONSTANTS
  Documents <- MCDocuments
  Nodes <- MCNodes
  NotInC <- MCNotInC
  MaxSets = 2
SPECIFICATION Program
INVARIANTS
  TypeOK
  SourcesCompile
  RoundTrip
  StubComplete
CHECK_DEADLOCK FALSE
