SPECIFICATION Spec
CONSTANTS
  s1 = s1
  s2 = s2
  a = a
  b = b
  Sessions <- MCSessions
  Pid <- OwnPid
  Msgs <- MCMsgs
  Flags <- MCFlags
  NoUid = NoUid
  HardLinks = {TRUE, FALSE}
  MAX_TRY_ALLOC = 2
  MaxTime = 1
  MaxCrashes = 1
  MaxChanges = 2
SYMMETRY Symmetry
VIEW View
INVARIANTS
  NoMessageLost
  UidNamesOneMessage
CHECK_DEADLOCK FALSE
