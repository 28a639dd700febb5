SPECIFICATION Spec
CONSTANTS
  Ports <- MCPorts
  Host = 8
  Unwired = {4}
  Ids <- MCIds
  FirstOffer <- MCFirstOffer
  Parked = {3}
  FifoDepth = 4
  ModeSwitch = TRUE
INVARIANTS
  TypeOK
  Exclusive
  RefCount
CHECK_DEADLOCK FALSE
