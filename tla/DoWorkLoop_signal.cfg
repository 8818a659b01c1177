SPECIFICATION Spec
CONSTANTS
  N = 2
  Priority <- MCPriorityPair
  MaxCost = 1
  MayThrow = {}
  MayFail = {}
  MaxLate = 8
  SinceCap = 12
INVARIANTS
  ShutdownClosesPorts
\* openhatd stops when it is told to or when a port fails
CHECK_DEADLOCK FALSE
