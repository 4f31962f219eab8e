SPECIFICATION DataSpec
CONSTANTS
  Byte = {"CR", "LF", ".", "x"}
  BufferMax = 2
  MaxZeroWrites = 2
  MaxText = 3
  MaxEnds = 2
  MaxRead = 3
INVARIANTS
  AcceptedIsSent
  SendDelivers
  ReadDelivers
PROPERTIES
  StreamIsFifo
  SendEnds
  ReadEnds
CHECK_DEADLOCK FALSE
