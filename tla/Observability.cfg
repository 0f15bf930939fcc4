CONSTANTS
  MaxChecks = 2
  MaxAsked = 1
  MaxStarts = 2
  MaxEvents = 1
  MaxCalls = 2
SPECIFICATION Spec
CHECK_DEADLOCK FALSE
INVARIANTS
  ObserversConsistent
  CountsExact
PROPERTIES
  ChecksGoOn
