SPECIFICATION DevicesSpec
CONSTANTS
  MqttConfigs <- MCMqttConfigs
  PolledConfigs <- OnePortEach
  Expiries = {0, 1}
  GaugeMax = 1
INVARIANTS
  DevicesInv
PROPERTIES
  DevicesShown
  CommandsEnd
  SilencesNoticed
