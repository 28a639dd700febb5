SPECIFICATION Spec
CONSTANTS
  Chips <- MCChips
  Index <- MCIndex
  ShortIndex <- MCShortIndex
  Ports <- MCPorts
  InitDocs <- MCInitDocs
  PlanDocs <- MCPlanDocs
  Packets <- MCPackets
  None = None
  MaxPackets = 1
PROPERTIES
  TableConfirmed
CHECK_DEADLOCK FALSE
