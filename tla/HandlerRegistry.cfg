CONSTANTS
  Node = {n1, n2}
  Type = {t1}
  Pid = {p1, p2}
  MaxCalls = 2
  MaxEvents = 1
SPECIFICATION Spec
CHECK_DEADLOCK FALSE
INVARIANTS
  TypeOK
  ReverseIndexExact
  MonitorsBacked
  SubscribersAsAcknowledged
PROPERTIES
  ExactDelivery
  DeadSubscriberForgotten
  CallsAnswered
