SPECIFICATION Spec
CONSTANTS
  Nodes <- MCNodes
  Strangers = {4, 5}
  MONITORED = 2
  MAX_NODE_NUM = 4
  MONITOR_TIMEOUT = 2
  NO_PKT_TIMEOUT = 2
  REPORT_INTERVAL = 1
  Gap = 1
  MaxStep = 1
  MaxWait = 1
  MaxBack = 1
  MaxClock = 8
  Backlog = 2
INVARIANTS
  TypeOK
  SilentIsFound
  AliveIsKept
CHECK_DEADLOCK FALSE
