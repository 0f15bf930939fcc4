CONSTANTS
  NDeps = 2
  MaxIncarnations = 3
  MaxCrashes = 2
SPECIFICATION TreeSpec
CHECK_DEADLOCK FALSE
INVARIANTS
  TreeConsistent
  DependentsHear
PROPERTIES
  DeadNodeForgotten
