CONSTANTS
  Req = {r1, r2, r3}
  Capacity = 1
  MaxPending = 2
  TTL = 1
SPECIFICATION Spec
CHECK_DEADLOCK FALSE
INVARIANTS
  TypeOK
  PendingAccounted
  PendingBounded
  NeverDeaf
  BlockedOnOwnQuery
PROPERTIES
  OnlyStaleEvicted
  ExchangeSpec
  QueryReturns
  LoopFollowsNode
  PendingReleased
