CONSTANTS
  Caller = {c1, c2}
  MaxRequests = 3
SPECIFICATION Spec
CHECK_DEADLOCK FALSE
INVARIANTS
  RepliesExplained
PROPERTIES
  EverythingSettles
