SPECIFICATION Spec
CONSTANTS
  p1 = p1
  p2 = p2
  m1 = m1
  None = None
  Procs <- MCProcs
  Mtas <- MCMtas
  Inodes <- MCInodes
  RETRY = 1
  LOCKTO_RM = 1
  LOCKTO_GLOB = 2
  STATFAILS = 0
INVARIANTS
  TypeOK
  SafeLock
  WriterExclusion
  NoLeakedFcntlLock
PROPERTIES
  LockReturns
