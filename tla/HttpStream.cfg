SPECIFICATION FairSpec
CONSTANTS
  Scripts <- RegularScripts
  ReadSizes <- Sizes
CHECK_DEADLOCK FALSE
INVARIANTS
  TypeOK
  NextIntact
PROPERTIES
  ReaderEnds
  ImplementsChannel
