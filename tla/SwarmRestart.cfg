CONSTANTS
  Req = {r1, r2}
  Capacity = 1
  MaxPending = 1
  TTL = 1
  MaxRestarts = 1
SPECIFICATION SpecRestart
SYMMETRY Symmetry
CHECK_DEADLOCK FALSE
INVARIANTS
  AnswersOwnRequest
