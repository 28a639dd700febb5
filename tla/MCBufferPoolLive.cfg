SPECIFICATION FairSpec
CONSTANTS
  Ports <- MCPortsLive
  Host = 8
  Unwired = {}
  Ids <- MCIdsLive
  FirstOffer <- MCFirstOfferLive
  Parked = {}
  FifoDepth = 3
  ModeSwitch = FALSE
INVARIANTS
  RefCount
PROPERTIES
  IsSharedBuffer
  Refilled
CHECK_DEADLOCK FALSE
