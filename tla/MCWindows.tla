------------------------------ MODULE MCWindows ------------------------------
(***************************************************************************)
(* Instances of WindowHBridge and WindowRelay for TLC, in one              *)
(* specification: two windows with the same settings, one in each control  *)
(* mode; a behaviour is one of either, the other stays at an initial       *)
(* state.                                                                  *)
(***************************************************************************)
EXTENDS WindowHBridge

\* a position setting that is not given
Absent == -1

\* the window in serial relay mode
VARIABLES
  relayStage, relayState, relayTarget, relayPosition, relayNewlySet,
  relayDelayAge, relayOpenAge, relayBroken, relayErrorLine, relayStatus,
  relayForced, relayEnable, direction, rest

Relay ==
  INSTANCE WindowRelay WITH
    stage <- relayStage, currentState <- relayState, targetState <- relayTarget,
    position <- relayPosition, positionNewlySet <- relayNewlySet,
    delayAge <- relayDelayAge, openAge <- relayOpenAge, broken <- relayBroken,
    errorLine <- relayErrorLine, status <- relayStatus, forced <- relayForced,
    enable <- relayEnable

relayWindow ==
  <<relayStage, relayState, relayTarget, relayPosition, relayNewlySet,
    relayDelayAge, relayOpenAge, relayBroken, relayErrorLine, relayStatus,
    relayForced, relayEnable, direction, rest>>

VARIABLE which   \* what a behaviour is about

WindowsInit ==
  /\ which \in {"bridge", "relay"}
  /\ Init /\ Relay!Init
  /\ which # "bridge" => position = OFF /\ ~lineA /\ ~lineB /\ ~enable
  /\ which # "relay" => relayPosition = OFF /\ ~relayEnable /\ ~direction

WindowsNext ==
  /\ \/ which = "bridge" /\ Next /\ UNCHANGED relayWindow
     \/ which = "relay" /\ Relay!Next /\ UNCHANGED hBridgeVars
  /\ UNCHANGED which

WindowsFairness ==
  /\ WF_hBridgeVars(which = "bridge" /\ DoWork)
  /\ WF_hBridgeVars(which = "bridge" /\ Tick /\ UNCHANGED <<motorVars, enable>>)
  /\ WF_relayWindow(which = "relay" /\ Relay!DoWork)
  /\ WF_relayWindow(which = "relay" /\ Relay!Time)

WindowsSpec ==
  /\ WindowsInit /\ [][WindowsNext]_<<which, hBridgeVars, relayWindow>>
  /\ WindowsFairness

\* WindowRelay: the relays behave as readme.txt promises.
DriveSafely == Relay!DriveSafely

\* WindowRelay: a target is reached as in H-bridge mode.
RelayTargetReached == Relay!TargetReached
=============================================================================
