SPECIFICATION Spec
CONSTANTS
  Messages <- AllMessages
  Words <- OtherWords
  Boundary <- TheBoundary
  ReaderSize = 6
  BufferSize = 8
  Slack = 3
  HeaderSize = 10
CHECK_DEADLOCK FALSE
INVARIANT
  RemainingWritten
