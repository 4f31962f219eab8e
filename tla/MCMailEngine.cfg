CONSTANTS
  Folders = {inbox, sub}
  Inbox = inbox
  Uids = {uid1}
  MaxMsgs = 2
  MaxLists = 2
  MaxRefs = 1
  MaxFrees = 1
SPECIFICATION Spec
CONSTRAINT GoesOn
VIEW View
INVARIANTS
  RefsCounted
  SessionsCurrent
  NoFault
CHECK_DEADLOCK FALSE
