SPECIFICATION MqttSpec
CONSTANTS
  MqttConfigs <- Expiring
PROPERTIES
  DeviceShown
