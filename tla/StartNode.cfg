SPECIFICATION Spec
CONSTANTS
  n1 = n1
  n2 = n2
  Bad = Bad
  None = None
  Nodes = {n1, n2}
  Configs <- MCConfigs
  Width = 8
  DEFAULT <- MCDEFAULT
  OverflowChecks = FALSE
  MaxStarts = 2
INVARIANTS
  StartsClean
  OneRuntime
CHECK_DEADLOCK FALSE
