SPECIFICATION Spec
CONSTANTS
  Slaves = {s1, s2}
  Checked = {s1}
  Master = m
  Offsets <- MCOffsets
  Precision = 100
  ExitOffset = 50
  SyncEnough = 2
  SYNC_TO_INIT_SHRESHOLD = 4
  MaxRounds = 4
INVARIANTS
  TypeOK
  OneRoundPerOffset
  EnoughRounds
  RunningIsPrecise
PROPERTIES
  NoErrorCorrectedTwice
  FinishedAreSynced
CHECK_DEADLOCK FALSE
