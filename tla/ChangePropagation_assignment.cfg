SPECIFICATION CascadeSpec
CONSTANTS
  DigitalPorts = {1, 2, 3, 4, 5}
  OnChangeInt <- MCInt
  OnChangeUser <- MCUser
  Refusing = {5}
  Unsavable = {4}
  Assignments = {2}
  Targets <- MCTargets
  MaxDepth = 8
INVARIANTS
  DepthInv
