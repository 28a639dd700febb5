SPECIFICATION Spec
CONSTANTS
  SIGN = 4096
  Starts <- MCStarts
  Delays = {1, 2}
  Residences = {0, 245}
  Waits = {0, 1}
  MaxRounds = 3
INVARIANTS
  TypeOK
  OffsetIsRight
  Settles
CHECK_DEADLOCK FALSE
