CONSTANTS
  N = 2
  MaxCommands = 6
  MaxTimeouts = 2
  MaxConnects = 2
SPECIFICATION Spec
INVARIANTS
  TableDense
  InStep
  SessionAgrees
CHECK_DEADLOCK FALSE
