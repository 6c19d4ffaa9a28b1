CONSTANTS
  Size = 8
  Hdr = 2
  Limit = 7
  Word = 16
  MaxParts = 3
SPECIFICATION Spec
INVARIANTS
  StoredInPlace
  TakenWhole
CHECK_DEADLOCK FALSE
