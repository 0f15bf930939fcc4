SPECIFICATION PathSpec
CONSTANTS
  p1 = p1
  p2 = p2
  nil = nil
  Peers <- MCPeers
  Addrs = {"a", "b"}
  Batches <- MCBatches
  Registrations <- MCRegistrations
  MaxEvents = 3
INVARIANTS
  ToldInOrder
  NothingLost
PROPERTY
  EventuallyTold
CHECK_DEADLOCK FALSE
