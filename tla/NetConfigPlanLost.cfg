SPECIFICATION Spec
CONSTANTS
  cur_node_num = 2
  Entries = 1
  Blocks = 1
  ReportLimit = 2
  SlotLenPreset = FALSE
  Backlog = 2
INVARIANTS
  PlanConfirmedInChip
CHECK_DEADLOCK FALSE
