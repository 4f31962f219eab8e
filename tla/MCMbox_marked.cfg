SPECIFICATION Spec
CONSTANTS
  p1 = p1
  p2 = p2
  msg1 = msg1
  msg2 = msg2
  msg3 = msg3
  None = None
  Agent = Agent
  Procs <- MCProcs
  Msgs <- MCMsgs
  Inodes <- MCInodes
  Unterminated = {}
  UidSpace = 8
  NoUid = {}
  DeliverUids = {0}
  MaxTime = 0
  MaxCrashes = 0
  MaxCalls = 4
INVARIANT
  MarkedAreExpunged
CHECK_DEADLOCK FALSE
