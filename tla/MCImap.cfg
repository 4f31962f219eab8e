CONSTANTS
  MaxTags = 5
  MaxTimeouts = 1
  MaxConnects = 2
  MaxHeld = 2
  Uint32 = 10
SPECIFICATION Spec
VIEW View
INVARIANTS
  SuccessIsOwn
  SessionAgrees
  NoMutualWait
CHECK_DEADLOCK FALSE
