SPECIFICATION FairSpec
CONSTANTS
  cur_node_num = 2
  Entries = 1
  Blocks = 2
  ReportLimit = 2
  SlotLenPreset = FALSE
  Backlog = 2
INVARIANTS
  TypeOK
  BasicInPlace
  QuietWhenDone
PROPERTIES
  ConfigTakesEffect
CHECK_DEADLOCK FALSE
