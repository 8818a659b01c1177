SPECIFICATION SignalSpec
CONSTANTS
  SignalConfigs <- OneShot
  Digital <- MCDigital
PROPERTIES
  ResetsAfterHighTime
