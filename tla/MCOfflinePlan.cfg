SPECIFICATION Spec
CONSTANTS
  Chips <- MCChips
  Index <- MCIndex
  ShortIndex <- MCShortIndex
  Ports <- MCPorts
  InitDocs <- MCInitDocs
  PlanDocs <- MCPlanDocs
  Packets <- MCPackets
  None = None
  MaxPackets = 4
INVARIANTS
  TypeOK
  LocalPlanInForce
  RemoteEntriesInForce
  BasicRoutesKept
  PriorityOfThresholds
PROPERTIES
  LocalPlanEnds
CHECK_DEADLOCK FALSE
