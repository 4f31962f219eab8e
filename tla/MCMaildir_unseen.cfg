SPECIFICATION Spec
CONSTANTS
  s1 = s1
  s2 = s2
  a = a
  b = b
  Sessions <- MCSessions
  Pid <- OwnPid
  Msgs <- MCMsgs
  Flags <- MCFlags
  NoUid = NoUid
  HardLinks = {TRUE}
  MAX_TRY_ALLOC = 2
  MaxTime = 1
  MaxCrashes = 0
  MaxChanges = 0
INVARIANT
  UpdateSeesAll
CHECK_DEADLOCK FALSE
