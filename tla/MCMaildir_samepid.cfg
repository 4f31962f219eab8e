SPECIFICATION Spec
CONSTANTS
  s1 = s1
  s2 = s2
  a = a
  b = b
  Sessions <- MCSessions
  Pid <- SamePid
  Msgs <- MCMsgs
  Flags <- MCFlags
  NoUid = NoUid
  HardLinks = {TRUE}
  MAX_TRY_ALLOC = 2
  MaxTime = 0
  MaxCrashes = 0
  MaxChanges = 0
INVARIANT
  NoMessageLost
CHECK_DEADLOCK FALSE
