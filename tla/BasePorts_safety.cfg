SPECIFICATION BaseSpec
CONSTANTS
  DigitalPorts = {1, 2, 3, 4, 5}
  OnChangeInt <- MCInt
  OnChangeUser <- MCUser
  Refusing = {5}
  Unsavable = {4}
  Assignments = {}
  Targets <- NoTargets
  MaxDepth = 8
  Configs <- MCConfigs
  UserWrites = TRUE
  Ports = {p1, p2}
  Values = {0, 1}
  Initial <- AllZero
  Absent = Absent
  Throttle = 2
  MayFail = TRUE
  MaxStarts = 3
  KillTime = 1
  AgeCap = 2
  ExitCodesFit = FALSE
INVARIANTS
  BaseInv
  DepthInv
  OneProcess
  EndIsReal
  SavedAtShutdown
  RestoresOneMoment
PROPERTIES
  CascadeEnds
  MastersInformed
  StateSurvives
  WaiterEnds
