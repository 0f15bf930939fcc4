CONSTANTS
  Peer = {a, b}
  Pid = {p1}
  MaxTasks = 2
  MaxConns = 2
  MaxCloses = 2
SPECIFICATION Spec
CHECK_DEADLOCK FALSE
INVARIANTS
  TrackerConsistent
  LossExplained
PROPERTIES
  LossAnnounced
  LossDetected
