SPECIFICATION WindowsSpec
CONSTANTS
  Sensors = {"closed", "open"}
  FaultySensors = {"closed", "open"}
  EnableDelay = 2
  MotorDelay = 1
  OpeningTime = 2
  ClosingTime = 2
  ForceTo = "OPEN"
  HasReset = TRUE
  ResetTo = "CLOSED"
  PositionAfterClose = 3
  PositionAfterOpen <- Absent
  AgeCap = 3
  HasEnable = TRUE
INVARIANTS
  DriveInv
  ReportsInv
  MotorRestsInv
PROPERTIES
  CommandsObeyed
  ForcedNeverReversed
  DriveSafely
  RelayTargetReached
