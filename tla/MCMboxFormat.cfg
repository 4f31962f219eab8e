SPECIFICATION FileSpec
CONSTANTS
  Msgs = {a, b, c}
  Unterminated = {}
  UidSpace = 16
  MaxMessages = 3
  FieldUids = {1, 2, 3}
SYMMETRY Symmetry
INVARIANTS
  ParseNumbers
  ExpungePersistsNumbers
  IncrementalParse
CHECK_DEADLOCK FALSE
