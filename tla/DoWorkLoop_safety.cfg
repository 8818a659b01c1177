SPECIFICATION TransientSpec
CONSTANTS
  N = 3
  Priority <- MCPriority
  MaxCost = 2
  MayThrow = {2}
  MayFail = {3}
  MaxLate = 8
  SinceCap = 12
INVARIANTS
  SpacingInv
  LatenessInv
  SleepInv
PROPERTIES
  EveryPortServed
  ShutdownEnds
\* openhatd stops when it is told to or when a port fails
CHECK_DEADLOCK FALSE
