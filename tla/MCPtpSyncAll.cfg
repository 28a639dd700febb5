SPECIFICATION Spec
CONSTANTS
  Slaves = {s1, s2}
  Checked = {s1, s2}
  Master = m
  Offsets = {0}
  Precision = 100
  ExitOffset = 50
  SyncEnough = 2
  SYNC_TO_INIT_SHRESHOLD = 5
  MaxRounds = 4
SYMMETRY MCSymmetry
INVARIANT AllSyncedBeforeRunning
CHECK_DEADLOCK FALSE
