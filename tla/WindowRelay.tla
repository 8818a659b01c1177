----------------------------- MODULE WindowRelay -----------------------------
(***************************************************************************)
(* WindowPort in serial relay mode: one relay closes the circuit of the    *)
(* motor (Enable), the other one selects its direction.                    *)
(***************************************************************************)
EXTENDS WindowPort

VARIABLES
  enable,      \* the Enable relay is on
  direction,   \* the Direction relay is on, the motor would open the window
  rest         \* time since the Enable relay was switched off

relayVars == <<enable, direction, rest>>
serialVars == <<stage, currentState, targetState, portVars, timerVars,
                forced, broken, relayVars>>

TypeOK ==
  /\ PortTypeOK
  /\ enable \in BOOLEAN
  /\ direction \in BOOLEAN
  /\ rest \in 0 .. AgeCap

-----------------------------------------------------------------------------
(* The relays *)

\* disableMotor: the Enable relay, then the Direction relay
DisableMotor ==
  /\ enable' = FALSE
  /\ direction' = FALSE
  /\ rest' = IF enable THEN 0 ELSE rest

\* setMotorOpening or setMotorClosing, then enableMotor
EnableMotor(g) ==
  /\ direction' = (g = "OPEN")
  /\ enable' = TRUE
  /\ rest' = 0

KeepRelays == UNCHANGED relayVars

BeforeEnable(g) ==
  IF g = "OPEN" THEN "WAITING_BEFORE_ENABLE_OPENING"
                ELSE "WAITING_BEFORE_ENABLE_CLOSING"

\* mutant of Prepare: the timer is not set
PrepareWithoutTimer(g) ==
  /\ DisableMotor
  /\ Become(BeforeEnable(g))
  /\ UNCHANGED timerVars

\* a movement towards g starts with switching off and waiting
Prepare(g) ==
  /\ delayAge' = 0
  /\ DisableMotor
  /\ Become(BeforeEnable(g))
  /\ UNCHANGED openAge

-----------------------------------------------------------------------------
(* The state machine: one action per state.  on is the set of sensors that *)
(* signal; a broken sensor throws when it is read.                         *)

\* doWork goes on with the second half unless it has thrown
Continue(thrown) == stage' = IF thrown THEN "machine" ELSE "policy"

Idle == Stay /\ KeepRelays /\ UNCHANGED timerVars

\* UNKNOWN
Initialize ==
  /\ currentState = "UNKNOWN"
  /\ delayAge' = 0
  /\ DisableMotor
  /\ Enter("WAITING_AFTER_DISABLE")
  /\ targetState' = TargetOf(position, targetState)
  /\ Continue(FALSE)
  /\ UNCHANGED openAge

\* WAITING_AFTER_DISABLE
AwaitDisable ==
  /\ currentState = "WAITING_AFTER_DISABLE"
  /\ IF delayAge > EnableDelay THEN Become("UNKNOWN_WAITING") ELSE Stay
  /\ Continue(FALSE)
  /\ KeepRelays /\ UNCHANGED timerVars

\* UNKNOWN_WAITING
AwaitCommand(on) ==
  /\ currentState = "UNKNOWN_WAITING"
  /\ Continue(broken # {})
  /\ KeepRelays /\ UNCHANGED openAge
  /\ \/ /\ broken # {} \/ (on = {} /\ targetState = "UNKNOWN")
        /\ Stay /\ UNCHANGED delayAge
     \/ /\ broken = {} /\ on # {}
        /\ Become(Detected(on)) /\ UNCHANGED delayAge
     \/ /\ broken = {} /\ on = {} /\ targetState \in Goals
        /\ delayAge' = 0
        /\ Become(BeforeEnable(targetState))

\* OPEN, CLOSED
RestAt(g, on) ==
  /\ currentState = g
  /\ LET wrong == Sensor(Other(g))
         leaves == targetState = Other(g)
     IN /\ IF leaves THEN delayAge' = 0 /\ DisableMotor
                     ELSE KeepRelays /\ UNCHANGED delayAge
        /\ Continue(wrong \in broken)
        /\ Become(IF wrong \in on \ broken THEN "ERR"
                  ELSE IF leaves THEN BeforeEnable(Other(g)) ELSE g)
  /\ UNCHANGED openAge

\* mutant of AwaitEnable: the timer starts again in every call
AwaitEnableRestarting(g) ==
  /\ currentState = BeforeEnable(g)
  /\ Continue(FALSE)
  /\ IF delayAge > EnableDelay
     THEN openAge' = 0 /\ EnableMotor(g) /\ Become(Moving(g)) /\ UNCHANGED delayAge
     ELSE delayAge' = 0 /\ Stay /\ KeepRelays /\ UNCHANGED openAge

\* WAITING_BEFORE_ENABLE_OPENING, WAITING_BEFORE_ENABLE_CLOSING
AwaitEnable(g) ==
  /\ currentState = BeforeEnable(g)
  /\ Continue(FALSE)
  /\ \/ /\ targetState = Other(g)
        /\ delayAge' = 0
        /\ Become(BeforeEnable(Other(g)))
        /\ KeepRelays /\ UNCHANGED openAge
     \/ /\ targetState # Other(g)
        /\ delayAge > EnableDelay
        /\ openAge' = 0
        /\ EnableMotor(g)
        /\ Become(Moving(g))
        /\ UNCHANGED delayAge
     \/ /\ targetState # Other(g)
        /\ delayAge <= EnableDelay
        /\ Idle

\* OPENING, CLOSING
Move(g, on) ==
  /\ currentState = Moving(g)
  /\ Continue(targetState # Other(g) /\ Sensor(g) \in broken)
  /\ \/ /\ targetState = Other(g)
        /\ Prepare(Other(g))
     \/ /\ targetState # Other(g)
        /\ Sensor(g) \in on \ broken
        /\ DisableMotor
        /\ Become(g)
        /\ UNCHANGED timerVars
     \/ /\ targetState # Other(g)
        /\ Sensor(g) \notin on \cup broken
        /\ openAge > TimeFor(g)
        /\ DisableMotor
        /\ Become(IF Sensor(g) \in Sensors THEN "ERR" ELSE g)
        /\ UNCHANGED timerVars
     \/ /\ targetState # Other(g)
        /\ \/ Sensor(g) \in broken
           \/ Sensor(g) \notin on /\ openAge <= TimeFor(g)
        /\ Idle

\* ERR: the state machine does nothing
Rest == currentState = "ERR" /\ Continue(FALSE) /\ Idle

\* the first half of doWork
Machine ==
  /\ stage = "machine"
  /\ \/ Initialize
     \/ AwaitDisable
     \/ \E on \in SUBSET Sensors :
          \/ AwaitCommand(on)
          \/ \E g \in Goals : RestAt(g, on) \/ Move(g, on)
     \/ \E g \in Goals : AwaitEnable(g)
     \/ Rest
  /\ UNCHANGED <<forced, broken>>

-----------------------------------------------------------------------------
\* The lines of the relays may have any level before the first call.
Init ==
  /\ PortInit
  /\ enable \in BOOLEAN
  /\ direction \in BOOLEAN
  /\ rest = 0

DoWork == Machine \/ (Policy /\ KeepRelays)

\* the clock also counts the time the motor has been switched off
Time ==
  /\ Tick
  /\ rest' = IF enable THEN rest ELSE Older(rest)
  /\ UNCHANGED <<enable, direction>>

Next ==
  \/ DoWork
  \/ (SetPosition \/ SensorChanges) /\ KeepRelays
  \/ Time

Spec == Init /\ [][Next]_serialVars

\* OPDI::doWork calls the port again and again, and time goes on.
FairSpec == Spec /\ WF_serialVars(DoWork) /\ WF_serialVars(Time)

-----------------------------------------------------------------------------
(* Properties *)

\* The relays behave as readme.txt promises for the sake of the coils: the
\* direction never changes while they are connected, and they stay
\* disconnected for longer than EnableDelay before the next movement.
Drive == INSTANCE RelayDrive WITH Delay <- EnableDelay, RestCap <- AgeCap

DriveSafely == Drive!DriveSpec

\* The relays agree with the state: they connect a coil only while the window
\* moves, and it is the coil of the right direction.
RelayInv ==
  currentState # "UNKNOWN" =>
    (enable <=> \E g \in Goals : currentState = Moving(g) /\ (direction <=> g = "OPEN"))
=============================================================================
