---------------------------- MODULE WindowHBridge ----------------------------
(***************************************************************************)
(* WindowPort in H-bridge mode: two motor lines that turn the motor one    *)
(* way or the other, and an optional line that enables its supply.  Lines  *)
(* are modelled by whether they are active, so that the settings           *)
(* MotorActive and EnableActive disappear.                                 *)
(***************************************************************************)
EXTENDS WindowPort

CONSTANTS
  HasEnable,   \* an Enable port is configured
  MotorDelay   \* setting, in ticks

ASSUME HBridgeAssumption ==
  HasEnable \in BOOLEAN /\ MotorDelay \in 0 .. EnableDelay

VARIABLES
  lineA, lineB,    \* the motor lines
  enable,          \* the Enable line
  isMotorOn

motorVars == <<lineA, lineB, isMotorOn>>
hBridgeVars == <<stage, currentState, targetState, portVars, timerVars,
                 forced, broken, motorVars, enable>>

TypeOK ==
  /\ PortTypeOK
  /\ lineA \in BOOLEAN
  /\ lineB \in BOOLEAN
  /\ enable \in BOOLEAN
  /\ isMotorOn \in BOOLEAN

-----------------------------------------------------------------------------
(* The motor *)

\* the motor lines
SetLines(a, b) ==
  /\ lineA' = a
  /\ lineB' = b

\* setMotorOpening, setMotorClosing
SetMotor(g) == SetLines(g = "OPEN", g = "CLOSED") /\ isMotorOn' = TRUE

SetMotorOff == SetLines(FALSE, FALSE) /\ isMotorOn' = FALSE

KeepMotor == UNCHANGED motorVars

EnableMotor == enable' = (IF HasEnable THEN TRUE ELSE enable)
DisableMotor == enable' = (IF HasEnable THEN FALSE ELSE enable)

\* the state a movement towards g starts with
Started(g) == IF EnableDelay > 0 THEN "WAITING_AFTER_ENABLE" ELSE Moving(g)

\* checkOpenHBridge, checkCloseHBridge, except for the state
Start(g) ==
  IF EnableDelay > 0
  THEN /\ delayAge' = 0
       /\ EnableMotor
       /\ KeepMotor
       /\ UNCHANGED openAge
  ELSE /\ openAge' = 0
       /\ SetMotor(g)
       /\ UNCHANGED <<delayAge, enable>>

\* the motor turns around
TurnTowards(g) ==
  /\ openAge' = 0
  /\ SetMotor(g)
  /\ Become(Moving(g))
  /\ UNCHANGED <<delayAge, enable>>

\* the state an end of a movement leads to: directly, or after the delay
Settled(waiting, state) == IF EnableDelay > 0 THEN waiting ELSE state

Settle(waiting, state) ==
  /\ delayAge' = IF EnableDelay > 0 THEN 0 ELSE delayAge
  /\ Become(Settled(waiting, state))
  /\ UNCHANGED <<openAge, enable>>

BeforeDisable(g) ==
  IF g = "OPEN" THEN "WAITING_BEFORE_DISABLE_OPEN"
                ELSE "WAITING_BEFORE_DISABLE_CLOSED"

-----------------------------------------------------------------------------
(* The state machine: one action per state.  on is the set of sensors that *)
(* signal; a broken sensor throws when it is read.                         *)

\* doWork goes on with the second half unless it has thrown
Continue(thrown) == stage' = IF thrown THEN "machine" ELSE "policy"

\* mutant of Initialize: the motor lines are left as they are
InitializeRunning(on) ==
  /\ currentState = "UNKNOWN"
  /\ KeepMotor
  /\ DisableMotor
  /\ Continue(FALSE)
  /\ Become(Detected(on))
  /\ UNCHANGED timerVars

\* UNKNOWN
Initialize(on) ==
  /\ currentState = "UNKNOWN"
  /\ SetMotorOff
  /\ DisableMotor
  /\ Continue(broken # {})
  /\ \/ broken # {} /\ Stay
     \/ /\ broken = {}
        /\ Enter(Detected(on))
        /\ targetState' = TargetOf(position', TargetAfter(Detected(on)))
  /\ UNCHANGED timerVars

\* UNKNOWN_WAITING
AwaitCommand(on) ==
  /\ currentState = "UNKNOWN_WAITING"
  /\ Continue(broken # {})
  /\ \/ /\ broken # {}
        /\ Stay /\ KeepMotor /\ UNCHANGED <<timerVars, enable>>
     \/ /\ broken = {}
        /\ \/ /\ on # {}
              /\ Become(Detected(on))
              /\ KeepMotor /\ UNCHANGED <<timerVars, enable>>
           \/ /\ on = {}
              /\ targetState \in Goals
              /\ Start(targetState)
              /\ Become(Started(targetState))
           \/ /\ on = {}
              /\ targetState = "UNKNOWN"
              /\ Stay /\ KeepMotor /\ UNCHANGED <<timerVars, enable>>

\* OPEN, CLOSED: the opposite movement may start, and only then the opposite
\* sensor is looked at
RestAt(g, on) ==
  /\ currentState = g
  /\ LET wrong == Sensor(Other(g))
         leaves == targetState = Other(g)
         next == IF leaves THEN Started(Other(g)) ELSE g
     IN /\ \/ leaves /\ Start(Other(g))
           \/ ~leaves /\ KeepMotor /\ UNCHANGED <<timerVars, enable>>
        /\ Continue(wrong \in broken)
        /\ Become(IF wrong \in on \ broken THEN "ERR" ELSE next)

\* mutant of AwaitEnable: the timer starts again in every call
AwaitEnableRestarting ==
  /\ currentState = "WAITING_AFTER_ENABLE"
  /\ Continue(FALSE)
  /\ IF delayAge > EnableDelay /\ targetState \in Goals
     THEN TurnTowards(targetState)
     ELSE delayAge' = 0 /\ Stay /\ KeepMotor /\ UNCHANGED <<openAge, enable>>

\* WAITING_AFTER_ENABLE
AwaitEnable ==
  /\ currentState = "WAITING_AFTER_ENABLE"
  /\ Continue(FALSE)
  /\ IF delayAge > EnableDelay /\ targetState \in Goals
     THEN TurnTowards(targetState)
     ELSE /\ IF delayAge > EnableDelay THEN Become("UNKNOWN_WAITING") ELSE Stay
          /\ KeepMotor /\ UNCHANGED <<timerVars, enable>>

\* mutant of AwaitDisable: the end of the motor delay is not looked at
AwaitDisableRunning(g) ==
  /\ currentState = BeforeDisable(g)
  /\ Continue(FALSE)
  /\ \/ /\ targetState = Other(g)
        /\ TurnTowards(Other(g))
     \/ /\ targetState # Other(g)
        /\ KeepMotor
        /\ IF delayAge > EnableDelay THEN DisableMotor /\ Become(g)
                                     ELSE Stay /\ UNCHANGED enable
        /\ UNCHANGED timerVars

\* WAITING_BEFORE_DISABLE_OPEN, WAITING_BEFORE_DISABLE_CLOSED
AwaitDisable(g) ==
  /\ currentState = BeforeDisable(g)
  /\ Continue(FALSE)
  /\ \/ /\ targetState = Other(g)
        /\ TurnTowards(Other(g))
     \/ /\ targetState # Other(g)
        /\ IF isMotorOn /\ delayAge > MotorDelay THEN SetMotorOff ELSE KeepMotor
        /\ IF delayAge > EnableDelay THEN DisableMotor /\ Become(g)
                                     ELSE Stay /\ UNCHANGED enable
        /\ UNCHANGED timerVars

\* WAITING_BEFORE_DISABLE_ERROR
AwaitDisableError ==
  /\ currentState = "WAITING_BEFORE_DISABLE_ERROR"
  /\ Continue(FALSE)
  /\ KeepMotor
  /\ IF delayAge > EnableDelay THEN DisableMotor /\ Become("ERR")
                               ELSE Stay /\ UNCHANGED enable
  /\ UNCHANGED timerVars

\* OPENING, CLOSING
Move(g, on) ==
  /\ currentState = Moving(g)
  /\ Continue(targetState # Other(g) /\ Sensor(g) \in broken)
  /\ \/ /\ targetState = Other(g)
        /\ TurnTowards(Other(g))
     \/ /\ targetState # Other(g)
        /\ \/ /\ Sensor(g) \in broken
              /\ Stay /\ KeepMotor /\ UNCHANGED <<timerVars, enable>>
           \/ /\ Sensor(g) \in on \ broken
              /\ KeepMotor
              /\ Settle(BeforeDisable(g), g)
           \/ /\ Sensor(g) \notin on \cup broken
              /\ openAge > TimeFor(g)
              /\ SetMotorOff
              /\ IF Sensor(g) \in Sensors
                 THEN Settle("WAITING_BEFORE_DISABLE_ERROR", "ERR")
                 ELSE Settle(BeforeDisable(g), g)
           \/ /\ Sensor(g) \notin on \cup broken
              /\ openAge <= TimeFor(g)
              /\ Stay /\ KeepMotor /\ UNCHANGED <<timerVars, enable>>

\* the states the state machine does nothing in
Rest ==
  /\ currentState = "ERR"
  /\ Continue(FALSE)
  /\ Stay /\ KeepMotor /\ UNCHANGED <<timerVars, enable>>

\* the first half of doWork
Machine ==
  /\ stage = "machine"
  /\ \/ \E on \in SUBSET Sensors :
          \/ Initialize(on)
          \/ AwaitCommand(on)
          \/ \E g \in Goals : RestAt(g, on) \/ Move(g, on)
     \/ AwaitEnable
     \/ \E g \in Goals : AwaitDisable(g)
     \/ AwaitDisableError
     \/ Rest
  /\ UNCHANGED <<forced, broken>>

-----------------------------------------------------------------------------
Init ==
  /\ PortInit
  /\ lineA \in BOOLEAN
  /\ lineB \in BOOLEAN
  /\ enable \in BOOLEAN
  /\ isMotorOn = FALSE

DoWork == Machine \/ (Policy /\ UNCHANGED <<motorVars, enable>>)

Next ==
  \/ DoWork
  \/ (SetPosition \/ SensorChanges \/ Tick) /\ UNCHANGED <<motorVars, enable>>

Spec == Init /\ [][Next]_hBridgeVars

\* OPDI::doWork calls the port again and again, and time goes on.
FairSpec ==
  Spec /\ WF_hBridgeVars(DoWork) /\ WF_hBridgeVars(Tick /\ UNCHANGED <<motorVars, enable>>)

-----------------------------------------------------------------------------
(* Properties *)

\* The motor lines agree with the state: never both active, active in the
\* right direction while the window moves, and isMotorOn tells whether one is.
DriveInv ==
  currentState # "UNKNOWN" =>
    /\ ~(lineA /\ lineB)
    /\ isMotorOn <=> lineA \/ lineB
    /\ \A g \in Goals : currentState = Moving(g) => (lineA <=> g = "OPEN") /\ isMotorOn

MotorAtRest == ~lineA /\ ~lineB

\* A window that has arrived does not drive its motor any more: readme.txt lets
\* it "remain active for some time", MotorDelay, which is over before
\* EnableDelay is.
ArrivedRestsInv == currentState \in Goals => MotorAtRest

\* A window in the error state, which "serves as a protection in case of some
\* serious problem" (readme.txt), does not drive its motor.
ErrorRestsInv == currentState = "ERR" => MotorAtRest

\* Nor does a window that waits for a command or for its supply.
MotorRestsInv ==
  /\ ArrivedRestsInv
  /\ ErrorRestsInv
  /\ currentState \in {"UNKNOWN_WAITING", "WAITING_AFTER_ENABLE"} => MotorAtRest

\* readme.txt: the window "can be stopped at any time": selecting Off ends
\* every movement, provided that the sensor ports can be read in the end.
OffStops ==
  SensorsWork =>
    ((positionNewlySet /\ position = OFF) ~> (~(lineA \/ lineB) \/ position # OFF))

\* What a user commands happens: a target is reached, and Off stops.
CommandsObeyed == TargetReached /\ OffStops
=============================================================================
