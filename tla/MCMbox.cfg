SPECIFICATION Spec
CONSTANTS
  p1 = p1
  p2 = p2
  msg1 = msg1
  msg2 = msg2
  msg3 = msg3
  None = None
  Agent = Agent
  Procs <- MCProcs
  Msgs <- MCMsgs
  Inodes <- MCInodes
  Unterminated = {msg3}
  UidSpace = 8
  NoUid = {}
  DeliverUids = {0}
  MaxTime = 1
  MaxCrashes = 1
  MaxCalls = 4
SYMMETRY Symmetry
VIEW View
CONSTRAINT StillSafe
INVARIANTS
  NumbersDistinct
  NoMessageLost
  FileNumbersUnique
  AppendReturnsName
CHECK_DEADLOCK FALSE
PROPERTY
  NumbersStable
