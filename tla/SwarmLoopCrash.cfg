CONSTANTS
  Req = {r1}
  Capacity = 2
  MaxPending = 1
  TTL = 1
SPECIFICATION Spec
CHECK_DEADLOCK FALSE
INVARIANTS
  NodeSurvivesChannelErrors
