------------------------------ MODULE MCDevices ------------------------------
(***************************************************************************)
(* The plugins whose ports stand for devices, in one specification for     *)
(* TLC: a behaviour is one of MqttPorts, PolledPorts or WeatherPorts, the  *)
(* others stay at their initial states.                                    *)
(***************************************************************************)
EXTENDS MCMqttPorts, PolledPorts, WeatherPorts

OnePortEach == {{p} : p \in FritzKinds \cup FroniusKinds}

VARIABLE which   \* the module a behaviour is about

DevicesInit ==
  /\ which \in {"mqtt", "polled", "weather"}
  /\ MqttInit
  /\ which # "mqtt" => mqtt = CHOOSE c \in MqttConfigs : TRUE
  /\ PolledInit
  /\ which # "polled" => polled = CHOOSE c \in PolledConfigs : TRUE
  /\ GaugeInit
  /\ which # "weather" => expirySeconds = CHOOSE e \in Expiries : TRUE

DevicesNext ==
  /\ \/ which = "mqtt" /\ MqttNext /\ UNCHANGED <<polledVars, gaugeVars>>
     \/ which = "polled" /\ PolledNext /\ UNCHANGED <<mqttVars, gaugeVars>>
     \/ which = "weather" /\ GaugeNext /\ UNCHANGED <<mqttVars, polledVars>>
  /\ UNCHANGED which

\* as every plugin has one port here, one condition stands for all ports
DevicesFairness ==
  /\ WF_mqttVars(which = "mqtt" /\ WorkThread)
  /\ WF_mqttVars(which = "mqtt" /\ Callback)
  /\ SF_mqttVars(which = "mqtt" /\ DeviceAnswers)
  /\ SF_mqttVars(which = "mqtt" /\ ReceiveOnce)
  /\ WF_mqttVars(which = "mqtt" /\ ReceiveRest)
  /\ WF_mqttVars(which = "mqtt" /\ MqttDoWork)
  /\ WF_mqttVars(which = "mqtt" /\ QueryTimePasses)
  /\ WF_polledVars(which = "polled" /\ \E p \in polled : PortWork(p, TRUE))
  /\ WF_polledVars(which = "polled" /\ \E p \in polled : PortWork(p, FALSE))
  /\ WF_polledVars(which = "polled" /\ PollThread)
  /\ SF_gaugeVars(which = "weather" /\ ProcessData)
  /\ WF_gaugeVars(which = "weather" /\ WaitForData)
  /\ WF_gaugeVars(which = "weather" /\ GaugeTick)

DevicesSpec ==
  /\ DevicesInit
  /\ [][DevicesNext]_<<which, mqttVars, polledVars, gaugeVars>>
  /\ DevicesFairness

-----------------------------------------------------------------------------
\* The variables have their types; subscriptions survive reconnections; and a
\* socket is as the last command has set it (MqttInv, PolledInv).
DevicesInv == MqttInv /\ PolledInv /\ GaugeTypeOK

\* A port comes to show what its device does, when nothing disturbs the device
\* or the connection any more (DeviceShown, ReadingsShown, GaugeShows).
DevicesShown ==
  /\ which = "mqtt" => DeviceShown
  /\ which = "polled" => ReadingsShown
  /\ which = "weather" => GaugeShows

\* The silence of a device or of a weather station is noticed (SilenceNoticed,
\* GaugeExpires).
SilencesNoticed ==
  /\ which = "mqtt" => SilenceNoticed
  /\ which = "weather" => GaugeExpires
=============================================================================
