SPECIFICATION Spec
CONSTANTS
  t1 = t1
  t2 = t2
  t3 = t3
  Threads <- MCThreads
  MaxCount = 3
  MaxErrors = 1
INVARIANTS
  WaitersCounted
  NoLostWakeup
PROPERTIES
  Implements
