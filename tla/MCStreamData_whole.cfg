SPECIFICATION DataSpec
CONSTANTS
  Byte = {"CR", "LF", ".", "x"}
  BufferMax = 2
  MaxZeroWrites = 2
  MaxText = 3
  MaxEnds = 2
  MaxRead = 3
INVARIANTS
  MultilineIsWhole
CHECK_DEADLOCK FALSE
