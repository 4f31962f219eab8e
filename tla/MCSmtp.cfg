CONSTANTS
  Rcpts = {1, 2}
  Lists <- MCLists
  MaxCommands = 9
  MaxTimeouts = 1
  MaxConnects = 2
SPECIFICATION Spec
INVARIANTS
  InStep
  NoMutualWait
PROPERTIES
  SendReported
CHECK_DEADLOCK FALSE
