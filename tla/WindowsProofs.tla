---------------------------- MODULE WindowsProofs ----------------------------
(***************************************************************************)
(* Proofs about MCWindows, for all delays, sensors and settings.  H-bridge *)
(* mode: the motor lines agree with the state, and the motor rests         *)
(* whenever the window does.  Serial relay mode: it implements RelayDrive. *)
(***************************************************************************)
EXTENDS MCWindows, TLAPS

\* What the steps keep of the types.
LinesOK ==
  /\ lineA \in BOOLEAN
  /\ lineB \in BOOLEAN
  /\ isMotorOn \in BOOLEAN
  /\ delayAge \in Nat

LEMMA LinesInit == Init => LinesOK
  BY TimeAssumption DEF Init, PortInit, LinesOK

\* The motor is kept, switched off, or turned in one of the directions.
MotorStep == KeepMotor \/ SetMotorOff \/ \E g \in Goals : SetMotor(g)

LEMMA MotorStepType ==
  ASSUME LinesOK, MotorStep
  PROVE  lineA' \in BOOLEAN /\ lineB' \in BOOLEAN /\ isMotorOn' \in BOOLEAN
<1>1. CASE KeepMotor
  BY <1>1 DEF LinesOK, KeepMotor, motorVars
<1>2. CASE SetMotorOff
  BY <1>2 DEF SetMotorOff, SetLines
<1>3. ASSUME NEW g \in Goals, SetMotor(g)
      PROVE  lineA' \in BOOLEAN /\ lineB' \in BOOLEAN /\ isMotorOn' \in BOOLEAN
  BY <1>3 DEF SetMotor, SetLines
<1>4. QED BY <1>1, <1>2, <1>3 DEF MotorStep

LEMMA StartStep ==
  ASSUME NEW g \in Goals, Start(g)
  PROVE  /\ delayAge' \in {0, delayAge}
         /\ EnableDelay > 0 => KeepMotor
         /\ ~(EnableDelay > 0) => SetMotor(g)
  BY DEF Start

\* What the first half of doWork does to the motor and its timer.
LEMMA MachineMotor == Machine => MotorStep /\ delayAge' \in {0, delayAge}
<1> SUFFICES ASSUME Machine PROVE MotorStep /\ delayAge' \in {0, delayAge}
  OBVIOUS
<1> USE DEF MotorStep, timerVars
<1>1. ASSUME NEW on \in SUBSET Sensors, Initialize(on)
      PROVE  MotorStep /\ delayAge' \in {0, delayAge}
  BY <1>1 DEF Initialize
<1>2. ASSUME NEW on \in SUBSET Sensors, AwaitCommand(on)
      PROVE  MotorStep /\ delayAge' \in {0, delayAge}
  BY <1>2, StartStep DEF AwaitCommand
<1>3. ASSUME NEW on \in SUBSET Sensors, NEW g \in Goals, RestAt(g, on)
      PROVE  MotorStep /\ delayAge' \in {0, delayAge}
  <2>1. Other(g) \in Goals
    BY DEF Other, Goals
  <2>2. Start(Other(g)) \/ (KeepMotor /\ delayAge' = delayAge)
    BY <1>3 DEF RestAt
  <2>3. QED BY <2>1, <2>2, StartStep
<1>4. ASSUME NEW on \in SUBSET Sensors, NEW g \in Goals, Move(g, on)
      PROVE  MotorStep /\ delayAge' \in {0, delayAge}
  <2>1. Other(g) \in Goals
    BY DEF Other, Goals
  <2>2. QED BY <1>4, <2>1 DEF Move, TurnTowards, Settle
<1>5. CASE AwaitEnable
  BY <1>5 DEF AwaitEnable, TurnTowards
<1>6. ASSUME NEW g \in Goals, AwaitDisable(g)
      PROVE  MotorStep /\ delayAge' \in {0, delayAge}
  <2>1. Other(g) \in Goals
    BY DEF Other, Goals
  <2>2. QED BY <1>6, <2>1 DEF AwaitDisable, TurnTowards
<1>7. CASE AwaitDisableError
  BY <1>7 DEF AwaitDisableError
<1>8. CASE Rest
  BY <1>8 DEF Rest
<1>9. QED BY <1>1, <1>2, <1>3, <1>4, <1>5, <1>6, <1>7, <1>8 DEF Machine

LEMMA LinesStep == LinesOK /\ [Next]_hBridgeVars => LinesOK'
<1> SUFFICES ASSUME LinesOK, [Next]_hBridgeVars PROVE LinesOK'
  OBVIOUS
<1>1. CASE Machine
  <2>1. delayAge' \in Nat
    BY <1>1, MachineMotor DEF LinesOK
  <2>2. QED BY <1>1, <2>1, MachineMotor, MotorStepType DEF LinesOK
<1>2. CASE Policy /\ UNCHANGED <<motorVars, enable>>
  BY <1>2 DEF LinesOK, motorVars, Policy, timerVars
<1>3. CASE (SetPosition \/ SensorChanges \/ Tick) /\ UNCHANGED <<motorVars, enable>>
  BY <1>3 DEF LinesOK, motorVars, SetPosition, SensorChanges, Tick, timerVars,
              Older
<1>4. CASE UNCHANGED hBridgeVars
  BY <1>4 DEF LinesOK, hBridgeVars, motorVars, timerVars
<1>5. QED BY <1>1, <1>2, <1>3, <1>4, TimeAssumption DEF Next, DoWork

-----------------------------------------------------------------------------
(* DriveInv *)

\* Never both lines, and the flag tells whether one is active.
LinesAgree ==
  /\ ~(lineA /\ lineB)
  /\ isMotorOn <=> lineA \/ lineB

\* The motor turns into the direction of the goal.
Drives(g) == (lineA <=> g = "OPEN") /\ isMotorOn

LEMMA DriveParts ==
  DriveInv <=> (currentState # "UNKNOWN" =>
                  /\ LinesAgree
                  /\ \A g \in Goals : currentState = Moving(g) => Drives(g))
  BY DEF DriveInv, LinesAgree, Drives

LEMMA OffAgrees == SetMotorOff => LinesAgree'
  BY DEF SetMotorOff, SetLines, LinesAgree

LEMMA SetAgrees ==
  ASSUME NEW g \in Goals, SetMotor(g)
  PROVE  LinesAgree' /\ Drives(g)'
  BY DEF SetMotor, SetLines, LinesAgree, Drives, Goals

Movements == {"OPENING", "CLOSING"}

\* A window that goes on with the motor as it is.
LEMMA KeptDrives ==
  ASSUME DriveInv, KeepMotor, currentState # "UNKNOWN",
         currentState' = currentState \/ currentState' \notin Movements
  PROVE  DriveInv'
<1>1. LinesAgree' /\ \A g \in Goals : Drives(g) => Drives(g)'
  BY DriveParts DEF KeepMotor, motorVars, LinesAgree, Drives
<1>2. \A g \in Goals : Moving(g) \in Movements
  BY DEF Goals, Moving, Movements
<1>3. \A g \in Goals : currentState' = Moving(g) => Drives(g)'
  BY <1>1, <1>2, DriveParts
<1>4. QED BY <1>1, <1>3 DEF DriveInv, LinesAgree, Drives

\* A window whose motor is switched off does not move.
LEMMA OffDrives ==
  ASSUME SetMotorOff, currentState' \notin Movements
  PROVE  DriveInv'
<1>1. \A g \in Goals : Moving(g) \in Movements
  BY DEF Goals, Moving, Movements
<1>2. QED BY <1>1, OffAgrees DEF DriveInv, LinesAgree

\* A window that starts to move, or turns around.
LEMMA TurnedDrives ==
  ASSUME NEW g \in Goals, SetMotor(g),
         currentState' = Moving(g) \/ currentState' \notin Movements
  PROVE  DriveInv'
<1>1. \A h \in Goals : currentState' = Moving(h) => h = g
  BY DEF Goals, Moving, Movements
<1>2. QED BY <1>1, SetAgrees DEF DriveInv, LinesAgree, Drives

\* A movement that starts: the supply is switched on and the motor rests, or the
\* motor is turned on, and then the window may also be found in error.
LEMMA StartDrives ==
  ASSUME NEW g \in Goals, DriveInv, Start(g), currentState # "UNKNOWN",
         currentState' \in {Started(g), "ERR"}
  PROVE  DriveInv'
<1>1. CASE EnableDelay > 0
  <2>1. KeepMotor /\ currentState' \notin Movements
    BY <1>1, StartStep DEF Started, Movements
  <2>2. QED BY <2>1, KeptDrives
<1>2. CASE ~(EnableDelay > 0)
  <2>1. SetMotor(g) /\ currentState' \in {Moving(g), "ERR"}
    BY <1>2, StartStep DEF Started
  <2>2. QED BY <2>1, TurnedDrives DEF Movements
<1>3. QED BY <1>1, <1>2

LEMMA TurnTowardsDrives ==
  ASSUME NEW g \in Goals, TurnTowards(g)
  PROVE  DriveInv'
  BY TurnedDrives DEF TurnTowards, Become, Enter

LEMMA InitializeDrives ==
  ASSUME NEW on \in SUBSET Sensors, Initialize(on) PROVE DriveInv'
<1>1. currentState' \notin Movements
  BY DEF Initialize, Enter, Stay, Detected, Movements
<1>2. QED BY <1>1, OffDrives DEF Initialize

LEMMA AwaitCommandDrives ==
  ASSUME NEW on \in SUBSET Sensors, DriveInv, AwaitCommand(on)
  PROVE  DriveInv'
<1>1. CASE KeepMotor /\ currentState' \in {currentState, Detected(on)}
  BY <1>1, KeptDrives DEF AwaitCommand, Detected, Movements
<1>2. CASE /\ targetState \in Goals /\ Start(targetState)
           /\ currentState' = Started(targetState)
  BY <1>2, StartDrives DEF AwaitCommand
<1>3. QED
  BY <1>1, <1>2 DEF AwaitCommand, Stay, Become, Enter

LEMMA RestAtDrives ==
  ASSUME NEW g \in Goals, NEW on \in SUBSET Sensors, DriveInv, RestAt(g, on)
  PROVE  DriveInv'
<1>1. currentState = g /\ Other(g) \in Goals
  BY DEF RestAt, Other, Goals
<1>2. currentState # "UNKNOWN" /\ g \notin Movements
  BY <1>1 DEF Goals, Movements
<1>3. CASE targetState = Other(g)
  <2>1. Start(Other(g)) /\ currentState' \in {Started(Other(g)), "ERR"}
    BY <1>3 DEF RestAt, Become, Enter
  <2>2. QED BY <1>1, <1>2, <2>1, StartDrives
<1>4. CASE targetState # Other(g)
  <2>1. KeepMotor /\ currentState' \in {g, "ERR"}
    BY <1>4 DEF RestAt, Become, Enter
  <2>2. QED BY <1>2, <2>1, KeptDrives DEF Movements
<1>5. QED BY <1>3, <1>4

LEMMA MoveDrives ==
  ASSUME NEW g \in Goals, NEW on \in SUBSET Sensors, DriveInv, Move(g, on)
  PROVE  DriveInv'
<1>1. currentState # "UNKNOWN" /\ Other(g) \in Goals
  BY DEF Move, Moving, Other, Goals
<1>2. \/ TurnTowards(Other(g))
      \/ KeepMotor /\ currentState' \in {currentState, BeforeDisable(g), g}
      \/ /\ SetMotorOff
         /\ currentState' \in {"WAITING_BEFORE_DISABLE_ERROR", "ERR",
                               BeforeDisable(g), g}
  BY DEF Move, Stay, Settle, Settled, Become, Enter
<1>3. BeforeDisable(g) \notin Movements /\ g \notin Movements
  BY DEF BeforeDisable, Goals, Movements
<1>4. CASE TurnTowards(Other(g))
  BY <1>1, <1>4, TurnTowardsDrives
<1>5. CASE KeepMotor /\ currentState' \in {currentState, BeforeDisable(g), g}
  BY <1>1, <1>3, <1>5, KeptDrives
<1>6. CASE /\ SetMotorOff
           /\ currentState' \in {"WAITING_BEFORE_DISABLE_ERROR", "ERR",
                                 BeforeDisable(g), g}
  BY <1>3, <1>6, OffDrives DEF Movements
<1>7. QED BY <1>2, <1>4, <1>5, <1>6

LEMMA AwaitDisableDrives ==
  ASSUME NEW g \in Goals, DriveInv, AwaitDisable(g)
  PROVE  DriveInv'
<1>1. /\ currentState \notin {"UNKNOWN"} \cup Movements
      /\ Other(g) \in Goals /\ g \notin Movements
  BY DEF AwaitDisable, BeforeDisable, Other, Goals, Movements
<1>2. \/ TurnTowards(Other(g))
      \/ /\ KeepMotor \/ SetMotorOff
         /\ currentState' \in {currentState, g}
  BY DEF AwaitDisable, Stay, Become, Enter
<1>3. CASE TurnTowards(Other(g))
  BY <1>1, <1>3, TurnTowardsDrives
<1>4. CASE KeepMotor /\ currentState' \in {currentState, g}
  BY <1>1, <1>4, KeptDrives
<1>5. CASE SetMotorOff /\ currentState' \in {currentState, g}
  BY <1>1, <1>5, OffDrives
<1>6. QED BY <1>2, <1>3, <1>4, <1>5

LEMMA MachineDrives == DriveInv /\ Machine => DriveInv'
<1> SUFFICES ASSUME DriveInv, Machine PROVE DriveInv'
  OBVIOUS
<1>1. CASE AwaitEnable
  <2>1. \/ targetState \in Goals /\ TurnTowards(targetState)
        \/ KeepMotor /\ currentState' \in {currentState, "UNKNOWN_WAITING"}
    BY <1>1 DEF AwaitEnable, Become, Enter, Stay
  <2>2. CASE targetState \in Goals /\ TurnTowards(targetState)
    BY <2>2, TurnTowardsDrives
  <2>3. CASE KeepMotor /\ currentState' \in {currentState, "UNKNOWN_WAITING"}
    BY <1>1, <2>3, KeptDrives DEF AwaitEnable, Movements
  <2>4. QED BY <2>1, <2>2, <2>3
<1>2. CASE AwaitDisableError
  <2>1. KeepMotor /\ currentState' \in {currentState, "ERR"}
    BY <1>2 DEF AwaitDisableError, Become, Enter, Stay
  <2>2. QED BY <1>2, <2>1, KeptDrives DEF AwaitDisableError, Movements
<1>3. CASE Rest
  BY <1>3, KeptDrives DEF Rest, Stay
<1>4. QED
  BY <1>1, <1>2, <1>3, InitializeDrives, AwaitCommandDrives, RestAtDrives,
     MoveDrives, AwaitDisableDrives
  DEF Machine

LEMMA PolicyStates == Policy => currentState' \in {currentState, "UNKNOWN"}
  BY DEF Policy, ObeyForce, Reset, FollowNewPosition, FollowPosition,
         RemainInError

LEMMA DriveStep == DriveInv /\ [Next]_hBridgeVars => DriveInv'
<1> SUFFICES ASSUME DriveInv, [Next]_hBridgeVars PROVE DriveInv'
  OBVIOUS
<1>1. ASSUME KeepMotor, currentState' \in {currentState, "UNKNOWN"}
      PROVE  DriveInv'
  <2>1. CASE currentState' = "UNKNOWN"
    BY <2>1 DEF DriveInv
  <2>2. CASE currentState' # "UNKNOWN"
    BY <1>1, <2>2, KeptDrives
  <2>3. QED BY <2>1, <2>2
<1>2. CASE Policy /\ UNCHANGED <<motorVars, enable>>
  BY <1>1, <1>2, PolicyStates DEF KeepMotor
<1>3. CASE (SetPosition \/ SensorChanges \/ Tick) /\ UNCHANGED <<motorVars, enable>>
  BY <1>1, <1>3 DEF SetPosition, SensorChanges, Tick, KeepMotor
<1>4. CASE UNCHANGED hBridgeVars
  BY <1>1, <1>4 DEF hBridgeVars, KeepMotor
<1>5. QED BY <1>2, <1>3, <1>4, MachineDrives DEF Next, DoWork

\* In H-bridge mode the two motor lines are never active together, isMotorOn
\* tells whether one is, and a moving window turns its motor the right way: over
\* every sequence of targets, sensor faults, errors and resets.
THEOREM BridgeDrives == Spec => []DriveInv
<1>1. Init => DriveInv
  BY DEF Init, PortInit, DriveInv
<1>2. QED BY <1>1, DriveStep, PTL DEF Spec

-----------------------------------------------------------------------------
(* MotorRestsInv: with EnableDelay every end of a movement passes a state in *)
(* which the motor is switched off.                                          *)

\* The states a window may wait or remain in, the one before an error that
\* has been found by a timeout included.
Standing ==
  {"OPEN", "CLOSED", "ERR", "UNKNOWN_WAITING", "WAITING_AFTER_ENABLE",
   "WAITING_BEFORE_DISABLE_ERROR"}

Quiet == currentState \in Standing => MotorAtRest

LEMMA OffQuiet == SetMotorOff => Quiet'
  BY DEF SetMotorOff, SetLines, Quiet, MotorAtRest

LEMMA KeptQuiet ==
  ASSUME Quiet, KeepMotor, currentState \in Standing \/ currentState' \notin Standing
  PROVE  Quiet'
  BY DEF Quiet, KeepMotor, motorVars, MotorAtRest

LEMMA TurnedQuiet == ASSUME NEW g \in Goals, TurnTowards(g) PROVE Quiet'
  BY DEF TurnTowards, Become, Enter, Moving, Quiet, Standing

LEMMA AwaitDisableQuiet ==
  ASSUME NEW g \in Goals, LinesOK, DriveInv, Quiet, AwaitDisable(g)
  PROVE  Quiet'
<1>1. currentState = BeforeDisable(g) /\ Other(g) \in Goals
  BY DEF AwaitDisable, Other, Goals
<1>2. currentState \notin Standing /\ currentState # "UNKNOWN"
  BY <1>1 DEF BeforeDisable, Standing
<1>3. CASE targetState = Other(g)
  BY <1>1, <1>3, TurnedQuiet DEF AwaitDisable
<1>4. CASE targetState # Other(g) /\ SetMotorOff
  BY <1>4, OffQuiet
<1>5. CASE targetState # Other(g) /\ KeepMotor /\ delayAge > EnableDelay
  <2>1. delayAge > MotorDelay
    BY <1>5, HBridgeAssumption, TimeAssumption DEF LinesOK
  <2>2. ~isMotorOn \/ SetMotorOff
    BY <1>5, <2>1 DEF AwaitDisable
  <2>3. ASSUME ~isMotorOn PROVE Quiet'
    BY <1>2, <1>5, <2>3 DEF DriveInv, KeepMotor, motorVars, Quiet, MotorAtRest
  <2>4. QED BY <2>2, <2>3, OffQuiet
<1>6. CASE targetState # Other(g) /\ KeepMotor /\ ~(delayAge > EnableDelay)
  <2>1. currentState' = currentState
    BY <1>6 DEF AwaitDisable, Stay
  <2>2. QED BY <1>2, <1>6, <2>1, KeptQuiet
<1>7. QED BY <1>3, <1>4, <1>5, <1>6 DEF AwaitDisable

LEMMA MoveQuiet ==
  ASSUME NEW g \in Goals, NEW on \in SUBSET Sensors, EnableDelay > 0, Quiet,
         Move(g, on)
  PROVE  Quiet'
<1>1. Other(g) \in Goals
  BY DEF Other, Goals
<1>2. \/ TurnTowards(Other(g))
      \/ SetMotorOff
      \/ KeepMotor /\ currentState' \in {currentState, BeforeDisable(g)}
  BY DEF Move, Stay, Settle, Settled, Become, Enter
<1>3. currentState \notin Standing /\ BeforeDisable(g) \notin Standing
  BY DEF Move, Moving, BeforeDisable, Goals, Standing
<1>4. QED BY <1>1, <1>2, <1>3, TurnedQuiet, OffQuiet, KeptQuiet

LEMMA MachineQuiet ==
  ASSUME EnableDelay > 0, LinesOK, DriveInv, Quiet, Machine
  PROVE  Quiet'
<1>1. ASSUME NEW on \in SUBSET Sensors, Initialize(on) PROVE Quiet'
  BY <1>1, OffQuiet DEF Initialize
<1>2. ASSUME NEW on \in SUBSET Sensors, AwaitCommand(on) PROVE Quiet'
  BY <1>2, StartStep, KeptQuiet DEF AwaitCommand, Standing
<1>3. ASSUME NEW on \in SUBSET Sensors, NEW g \in Goals, RestAt(g, on)
      PROVE  Quiet'
  <2>1. currentState \in Standing /\ Other(g) \in Goals
    BY <1>3 DEF RestAt, Other, Goals, Standing
  <2>2. KeepMotor
    BY <1>3, <2>1, StartStep DEF RestAt
  <2>3. QED BY <2>1, <2>2, KeptQuiet
<1>4. CASE AwaitEnable
  <2>1. \/ targetState \in Goals /\ TurnTowards(targetState)
        \/ KeepMotor
    BY <1>4 DEF AwaitEnable
  <2>2. currentState \in Standing
    BY <1>4 DEF AwaitEnable, Standing
  <2>3. QED BY <2>1, <2>2, TurnedQuiet, KeptQuiet
<1>5. CASE AwaitDisableError
  BY <1>5, KeptQuiet DEF AwaitDisableError, Standing
<1>6. CASE Rest
  BY <1>6, KeptQuiet DEF Rest, Standing
<1>7. QED
  BY <1>1, <1>2, <1>3, <1>4, <1>5, <1>6, AwaitDisableQuiet, MoveQuiet
  DEF Machine

LEMMA QuietStep ==
  ASSUME EnableDelay > 0, LinesOK, DriveInv, Quiet, [Next]_hBridgeVars
  PROVE  Quiet'
<1>1. ASSUME KeepMotor, currentState' \in {currentState, "UNKNOWN"} PROVE Quiet'
  BY <1>1, KeptQuiet DEF Standing
<1>2. CASE Policy /\ UNCHANGED <<motorVars, enable>>
  BY <1>1, <1>2, PolicyStates DEF KeepMotor
<1>3. CASE (SetPosition \/ SensorChanges \/ Tick) /\ UNCHANGED <<motorVars, enable>>
  BY <1>1, <1>3 DEF SetPosition, SensorChanges, Tick, KeepMotor
<1>4. CASE UNCHANGED hBridgeVars
  BY <1>1, <1>4 DEF hBridgeVars, KeepMotor
<1>5. QED BY <1>2, <1>3, <1>4, MachineQuiet DEF Next, DoWork

\* With an EnableDelay, a window that has arrived, is in the error state, waits
\* for a command or for its supply does not drive its motor.  (Without one the
\* error state may, as ErrorRestsInv shows on an instance.)
THEOREM MotorRests ==
  ASSUME EnableDelay > 0
  PROVE  Spec => []MotorRestsInv
<1>1. Init => LinesOK /\ DriveInv /\ Quiet
  BY LinesInit DEF Init, PortInit, DriveInv, Quiet, Standing
<1>2. LinesOK /\ DriveInv /\ Quiet /\ [Next]_hBridgeVars
        => (LinesOK /\ DriveInv /\ Quiet)'
  BY LinesStep, DriveStep, QuietStep
<1>3. Quiet => MotorRestsInv
  BY DEF Quiet, Standing, MotorRestsInv, ArrivedRestsInv, ErrorRestsInv, Goals
<1>4. QED BY <1>1, <1>2, <1>3, PTL DEF Spec

-----------------------------------------------------------------------------
(* ReportsInv, which only depends on WindowPort *)

\* setCurrentState keeps what the window shows in step with its state.
LEMMA EnterReports ==
  ASSUME NEW state, ReportsInv, Enter(state)
  PROVE  ReportsInv'
<1>1. errorLine' <=> state = "ERR"
  BY DEF Enter, ReportsInv
<1>2. state \in Shown => status' = state
  BY DEF Enter, ReportsInv
<1>3. QED BY <1>1, <1>2 DEF Enter, ReportsInv

LEMMA KeptReports ==
  ASSUME ReportsInv, UNCHANGED <<currentState, errorLine, status>>
  PROVE  ReportsInv'
  BY DEF ReportsInv

\* What the state machine does is to enter a state or to stay.
LEMMA MachineReports ==
  ASSUME ReportsInv, Machine
  PROVE  ReportsInv'
<1>1. (\E state \in States : Enter(state)) \/ Stay
  <2> USE DEF Become, Settle, TurnTowards
  <2>1. \A g \in Goals : /\ Moving(g) \in States /\ Started(g) \in States
                         /\ Other(g) \in Goals /\ g \in States
                         /\ BeforeDisable(g) \in States
    BY DEF Goals, Moving, Started, Other, BeforeDisable, States
  <2>2. \A on : Detected(on) \in States
    BY DEF Detected, States
  <2>3. \A w, v \in States : Settled(w, v) \in States
    BY DEF Settled
  <2>4. {"ERR", "UNKNOWN_WAITING", "WAITING_BEFORE_DISABLE_ERROR"} \subseteq States
    BY DEF States
  <2>5. ASSUME NEW on \in SUBSET Sensors, Initialize(on) \/ AwaitCommand(on)
        PROVE  (\E state \in States : Enter(state)) \/ Stay
    BY <2>1, <2>2, <2>5 DEF Initialize, AwaitCommand
  <2>6. ASSUME NEW on \in SUBSET Sensors, NEW g \in Goals, RestAt(g, on)
        PROVE  (\E state \in States : Enter(state)) \/ Stay
    BY <2>1, <2>4, <2>6 DEF RestAt
  <2>7. ASSUME NEW on \in SUBSET Sensors, NEW g \in Goals, Move(g, on)
        PROVE  (\E state \in States : Enter(state)) \/ Stay
    BY <2>1, <2>3, <2>4, <2>7 DEF Move
  <2>8. ASSUME NEW g \in Goals, AwaitDisable(g)
        PROVE  (\E state \in States : Enter(state)) \/ Stay
    BY <2>1, <2>8 DEF AwaitDisable
  <2>9. ASSUME AwaitEnable \/ AwaitDisableError \/ Rest
        PROVE  (\E state \in States : Enter(state)) \/ Stay
    BY <2>1, <2>4, <2>9 DEF AwaitEnable, AwaitDisableError, Rest
  <2>10. QED BY <2>5, <2>6, <2>7, <2>8, <2>9 DEF Machine
<1>2. QED BY <1>1, EnterReports, KeptReports DEF Stay, portVars

LEMMA PolicyReports ==
  ASSUME ReportsInv, Policy
  PROVE  ReportsInv'
<1>1. CASE Reset
  BY <1>1 DEF Reset, ReportsInv
<1>2. CASE FollowNewPosition
  <2>1. CASE position = OFF
    BY <1>2, <2>1 DEF FollowNewPosition, ReportsInv
  <2>2. CASE position # OFF
    BY <1>2, <2>2, KeptReports DEF FollowNewPosition
  <2>3. QED BY <2>1, <2>2
<1>3. CASE ObeyForce \/ FollowPosition \/ RemainInError
  BY <1>3, KeptReports DEF ObeyForce, FollowPosition, RemainInError, portVars
<1>4. QED BY <1>1, <1>2, <1>3 DEF Policy

\* In H-bridge mode the error ports are High exactly in the error state, and the
\* status port shows the state the window is in, whatever enters it.
THEOREM BridgeReports == Spec => []ReportsInv
<1>1. Init => ReportsInv
  BY DEF Init, PortInit, ReportsInv, Shown
<1>2. ReportsInv /\ [Next]_hBridgeVars => ReportsInv'
  <2> SUFFICES ASSUME ReportsInv, [Next]_hBridgeVars PROVE ReportsInv'
    OBVIOUS
  <2>1. CASE SetPosition \/ SensorChanges \/ Tick
    BY <2>1, KeptReports DEF SetPosition, SensorChanges, Tick, portVars
  <2>2. CASE UNCHANGED hBridgeVars
    BY <2>2, KeptReports DEF hBridgeVars, portVars
  <2>3. QED BY <2>1, <2>2, MachineReports, PolicyReports DEF Next, DoWork
<1>3. QED BY <1>1, <1>2, PTL DEF Spec

-----------------------------------------------------------------------------
(* Serial relay mode implements RelayDrive *)

\* The states in which the relays may connect a coil.
Driven == {"UNKNOWN", "OPENING", "CLOSING"}

\* The states in which it waits before it switches the relay on.
Waiting == {"WAITING_BEFORE_ENABLE_OPENING", "WAITING_BEFORE_ENABLE_CLOSING"}

\* The invariant of the refinement: the coils are disconnected in all other
\* states, and while the window waits, the delay timer has been running for no
\* longer than they have been disconnected.
Rested ==
  /\ relayDelayAge \in Nat
  /\ relayEnable \in BOOLEAN
  /\ rest \in Nat
  /\ relayEnable => relayState \in Driven
  /\ relayState \in Waiting => relayDelayAge <= rest

\* What a step does to the relays.
Safe == [Relay!Drive!DriveNext]_(Relay!Drive!drive)

LEMMA RestedInit == Relay!Init => Rested /\ Relay!Drive!DriveInit
  BY TimeAssumption
  DEF Relay!Init, Relay!PortInit, Rested, Relay!Drive!DriveInit, Driven, Waiting

-----------------------------------------------------------------------------
(* The first half of doWork *)

LEMMA DisconnectSafe == Relay!DisableMotor => Safe
  BY DEF Relay!DisableMotor, Safe, Relay!Drive!DriveNext, Relay!Drive!Disconnect

LEMMA ConnectSafe ==
  ASSUME NEW g \in Relay!Goals, Relay!EnableMotor(g), relayEnable = FALSE, rest > EnableDelay
  PROVE  Safe
  BY DEF Relay!EnableMotor, Safe, Relay!Drive!DriveNext, Relay!Drive!Connect

LEMMA KeepSafe == Relay!KeepRelays => Safe
  BY DEF Relay!KeepRelays, Relay!relayVars, Safe, Relay!Drive!drive

\* Switching off leaves the window rested when the timer starts with it, or
\* when the next state is not one in which it waits.
LEMMA DisconnectRested ==
  ASSUME Rested, Relay!DisableMotor,
         relayDelayAge' = 0 \/ (relayDelayAge' = relayDelayAge /\ relayState' \notin Waiting)
  PROVE  Rested'
<1>1. relayEnable' = FALSE /\ relayEnable' \in BOOLEAN
  BY DEF Relay!DisableMotor
<1>2. rest' \in Nat
  BY DEF Relay!DisableMotor, Rested
<1>3. relayDelayAge' \in Nat
  BY DEF Rested
<1>4. relayState' \in Waiting => relayDelayAge' <= rest'
  BY <1>2
<1>5. QED BY <1>1, <1>2, <1>3, <1>4 DEF Rested

\* So does a step that leaves the relays alone.
LEMMA KeepRested ==
  ASSUME Rested, Relay!KeepRelays, relayDelayAge' \in {0, relayDelayAge},
         relayEnable => relayState' \in Driven,
         relayState' \in Waiting =>
           relayDelayAge' = 0 \/ (relayDelayAge' = relayDelayAge /\ relayState \in Waiting)
  PROVE  Rested'
  BY DEF Rested, Relay!KeepRelays, Relay!relayVars

LEMMA InitializeStep == Rested /\ Relay!Initialize => Rested' /\ Safe
  BY DisconnectSafe, DisconnectRested DEF Relay!Initialize

LEMMA AwaitDisableStep == Rested /\ Relay!AwaitDisable => Rested' /\ Safe
<1> SUFFICES ASSUME Rested, Relay!AwaitDisable PROVE Rested' /\ Safe
  OBVIOUS
<1>1. Relay!KeepRelays /\ relayDelayAge' = relayDelayAge
  BY DEF Relay!AwaitDisable, Relay!timerVars
<1>2. relayState' \in {"WAITING_AFTER_DISABLE", "UNKNOWN_WAITING"} /\ ~relayEnable
  BY DEF Relay!AwaitDisable, Relay!Become, Relay!Enter, Relay!Stay, Rested, Driven
<1>3. QED
  BY <1>1, <1>2, KeepSafe, KeepRested DEF Waiting

LEMMA AwaitCommandStep ==
  ASSUME NEW on, Rested, Relay!AwaitCommand(on)
  PROVE  Rested' /\ Safe
<1>1. Relay!KeepRelays /\ ~relayEnable
  BY DEF Relay!AwaitCommand, Rested, Driven
<1>2. relayDelayAge' = 0 \/ (relayDelayAge' = relayDelayAge /\ relayState' \notin Waiting)
  BY DEF Relay!AwaitCommand, Relay!Become, Relay!Enter, Relay!Stay, Relay!Detected, Waiting
<1>3. QED
  BY <1>1, <1>2, KeepSafe, KeepRested

LEMMA RestAtStep ==
  ASSUME NEW g \in Relay!Goals, NEW on, Rested, Relay!RestAt(g, on)
  PROVE  Rested' /\ Safe
<1>1. CASE relayTarget = Relay!Other(g)
  <2>1. Relay!DisableMotor /\ relayDelayAge' = 0
    BY <1>1 DEF Relay!RestAt
  <2>2. QED BY <2>1, DisconnectSafe, DisconnectRested
<1>2. CASE relayTarget # Relay!Other(g)
  <2>1. Relay!KeepRelays /\ relayDelayAge' = relayDelayAge
    BY <1>2 DEF Relay!RestAt
  <2>2. relayState' \in {"ERR", g} /\ relayState = g
    BY <1>2 DEF Relay!RestAt, Relay!Become, Relay!Enter
  <2>3. ~relayEnable
    BY <2>2 DEF Rested, Driven, Relay!Goals
  <2>4. relayState' \notin Waiting
    BY <2>2 DEF Relay!Goals, Waiting
  <2>5. QED BY <2>1, <2>3, <2>4, KeepSafe, KeepRested
<1>3. QED BY <1>1, <1>2

LEMMA AwaitEnableStep ==
  ASSUME NEW g \in Relay!Goals, Rested, Relay!AwaitEnable(g)
  PROVE  Rested' /\ Safe
<1> USE DEF Relay!AwaitEnable, Relay!Become, Relay!Enter
<1>1. relayState \in Waiting /\ ~relayEnable /\ relayDelayAge <= rest
  BY DEF Relay!Goals, Relay!BeforeEnable, Waiting, Driven, Rested
<1>2. CASE relayTarget = Relay!Other(g)
  <2>1. Relay!KeepRelays /\ relayDelayAge' = 0
    BY <1>2
  <2>2. QED BY <1>1, <2>1, KeepSafe, KeepRested
<1>3. CASE relayTarget # Relay!Other(g) /\ relayDelayAge > EnableDelay
  <2>1. Relay!EnableMotor(g) /\ relayDelayAge' = relayDelayAge /\ relayState' = Relay!Moving(g)
    BY <1>3, TimeAssumption DEF Rested
  <2>2. rest > EnableDelay
    BY <1>1, <1>3, TimeAssumption DEF Rested
  <2>3. Safe
    BY <1>1, <2>1, <2>2, ConnectSafe DEF Rested
  <2>4. relayState' \in Driven /\ relayState' \notin Waiting
    BY <2>1 DEF Relay!Goals, Relay!Moving, Driven, Waiting
  <2>5. QED BY <2>1, <2>3, <2>4 DEF Rested, Relay!EnableMotor
<1>4. CASE relayTarget # Relay!Other(g) /\ relayDelayAge <= EnableDelay
  <2>1. Relay!Idle
    BY <1>4, TimeAssumption DEF Rested
  <2>2. Relay!KeepRelays /\ relayDelayAge' = relayDelayAge /\ relayState' = relayState
    BY <2>1 DEF Relay!Idle, Relay!Stay, Relay!timerVars
  <2>3. QED BY <1>1, <2>2, KeepSafe, KeepRested
<1>5. QED BY <1>2, <1>3, <1>4 

LEMMA MoveStep ==
  ASSUME NEW g \in Relay!Goals, NEW on, Rested, Relay!Move(g, on)
  PROVE  Rested' /\ Safe
<1>1. \/ Relay!DisableMotor /\ relayDelayAge' = 0
      \/ Relay!DisableMotor /\ relayDelayAge' = relayDelayAge /\ relayState' \in {g, "ERR"}
      \/ Relay!Idle
  BY DEF Relay!Move, Relay!Prepare, Relay!Become, Relay!Enter, Relay!timerVars
<1>2. relayState \in Driven /\ relayState \notin Waiting
  BY DEF Relay!Move, Relay!Goals, Relay!Moving, Driven, Waiting
<1>3. CASE Relay!DisableMotor /\ relayDelayAge' = 0
  BY <1>3, DisconnectSafe, DisconnectRested
<1>4. CASE Relay!DisableMotor /\ relayDelayAge' = relayDelayAge /\ relayState' \in {g, "ERR"}
  <2>1. relayState' \notin Waiting
    BY <1>4 DEF Relay!Goals, Waiting
  <2>2. QED BY <1>4, <2>1, DisconnectSafe, DisconnectRested
<1>5. CASE Relay!Idle
  <2>1. Relay!KeepRelays /\ relayDelayAge' = relayDelayAge /\ relayState' = relayState
    BY <1>5 DEF Relay!Idle, Relay!Stay, Relay!timerVars
  <2>2. QED BY <1>2, <2>1, KeepSafe, KeepRested
<1>6. QED BY <1>1, <1>3, <1>4, <1>5

LEMMA MachineStep == Rested /\ Relay!Machine => Rested' /\ Safe
<1>1. ASSUME Rested, Relay!Rest PROVE Rested' /\ Safe
  <2>1. Relay!KeepRelays /\ relayDelayAge' = relayDelayAge /\ relayState' = relayState
        /\ relayState = "ERR"
    BY <1>1 DEF Relay!Rest, Relay!Idle, Relay!Stay, Relay!timerVars
  <2>2. ~relayEnable
    BY <1>1, <2>1 DEF Rested, Driven
  <2>3. QED BY <1>1, <2>1, <2>2, KeepSafe, KeepRested DEF Waiting
<1>2. QED
  BY <1>1, InitializeStep, AwaitDisableStep, AwaitCommandStep, RestAtStep,
     AwaitEnableStep, MoveStep
  DEF Relay!Machine

-----------------------------------------------------------------------------
(* The other steps *)

LEMMA PolicyStep == Rested /\ Relay!Policy /\ Relay!KeepRelays => Rested' /\ Safe
<1> SUFFICES ASSUME Rested, Relay!Policy, Relay!KeepRelays PROVE Rested' /\ Safe
  OBVIOUS
<1>1. relayDelayAge' = relayDelayAge
  BY DEF Relay!Policy, Relay!timerVars
<1>2. relayState' = relayState \/ relayState' = "UNKNOWN"
  BY DEF Relay!Policy, Relay!ObeyForce, Relay!Reset, Relay!FollowNewPosition, Relay!FollowPosition, Relay!RemainInError
<1>3. relayEnable => relayState' \in Driven
  BY <1>2 DEF Rested, Driven
<1>4. relayState' \in Waiting => relayState \in Waiting
  BY <1>2 DEF Waiting
<1>5. QED BY <1>1, <1>3, <1>4, KeepSafe, KeepRested

LEMMA OutsideStep ==
  Rested /\ (Relay!SetPosition \/ Relay!SensorChanges) /\ Relay!KeepRelays => Rested' /\ Safe
<1> SUFFICES ASSUME Rested, Relay!SetPosition \/ Relay!SensorChanges, Relay!KeepRelays
             PROVE  Rested' /\ Safe
  OBVIOUS
<1>1. relayDelayAge' = relayDelayAge /\ relayState' = relayState
  BY DEF Relay!SetPosition, Relay!SensorChanges, Relay!timerVars
<1>2. QED BY <1>1, KeepSafe, KeepRested DEF Rested

\* The delay timer and the rest of the coils grow at the same pace.
LEMMA TimeStep == Rested /\ Relay!Time => Rested' /\ Safe
<1> SUFFICES ASSUME Rested, Relay!Time PROVE Rested' /\ Safe
  OBVIOUS
<1>1. /\ relayDelayAge' = Relay!Older(relayDelayAge) /\ relayState' = relayState
      /\ rest' = IF relayEnable THEN rest ELSE Relay!Older(rest)
      /\ relayEnable' = relayEnable /\ direction' = direction
  BY DEF Relay!Time, Relay!Tick
<1>2. Rested'
  <2>1. /\ relayDelayAge' \in Nat /\ rest' \in Nat
        /\ relayDelayAge <= rest /\ ~relayEnable => relayDelayAge' <= rest'
    BY <1>1, TimeAssumption DEF Rested, Relay!Older
  <2>2. relayState \in Waiting => ~relayEnable
    BY DEF Rested, Driven, Waiting
  <2>3. QED BY <1>1, <2>1, <2>2 DEF Rested
<1>3. ASSUME relayEnable PROVE Safe
  BY <1>1, <1>3 DEF Safe, Relay!Drive!drive
<1>4. ASSUME ~relayEnable PROVE Safe
  BY <1>1, <1>4 DEF Safe, Relay!Drive!DriveNext, Relay!Drive!Wait, Relay!Older
<1>5. QED BY <1>2, <1>3, <1>4

LEMMA RestedStep == Rested /\ [Relay!Next]_relayWindow => Rested' /\ Safe
<1>1. ASSUME Rested, UNCHANGED relayWindow PROVE Rested' /\ Safe
  BY <1>1 DEF relayWindow, Relay!timerVars, Rested, Safe, Relay!Drive!drive
<1>2. QED
  BY <1>1, MachineStep, PolicyStep, OutsideStep, TimeStep DEF Relay!Next, Relay!DoWork

LEMMA RelaySteps ==
  /\ WindowsInit => Relay!Init
  /\ [WindowsNext]_<<which, hBridgeVars, relayWindow>> => [Relay!Next]_relayWindow
BY DEF WindowsInit, WindowsNext

\* Serial relay mode implements RelayDrive: the direction never changes while a
\* coil is connected, and the coils rest for longer than EnableDelay.
THEOREM RelaySafe == WindowsSpec => DriveSafely
  BY RelaySteps, RestedInit, RestedStep, PTL DEF WindowsSpec, DriveSafely, Relay!DriveSafely, Relay!Drive!DriveSpec, Safe

\* The promise about the direction holds of the relay mode itself.
THEOREM NeverSwitchedHot == WindowsSpec => Relay!Drive!NoHotSwitch
<1>1. Safe => [relayEnable /\ relayEnable' => direction' = direction]_(Relay!Drive!drive)
  BY DEF Safe, Relay!Drive!DriveNext, Relay!Drive!Disconnect, Relay!Drive!Connect, Relay!Drive!Wait,
         Relay!Drive!drive
<1>2. QED
  BY <1>1, RelaySteps, RestedInit, RestedStep, PTL DEF WindowsSpec, Relay!Drive!NoHotSwitch

-----------------------------------------------------------------------------
(* The relays agree with the state *)

\* The other half of RelayInv: a window that moves is driven, and in the
\* direction of its movement.
Aligned ==
  \A g \in Relay!Goals :
    relayState = Relay!Moving(g) => relayEnable /\ (direction <=> g = "OPEN")


LEMMA AlignedInit == Relay!Init => Aligned
  BY DEF Relay!Init, Relay!PortInit, Aligned, Relay!Goals, Relay!Moving

\* Nothing is to be shown of a window that does not move.
LEMMA StandingAligned == relayState' \notin Movements => Aligned'
  BY DEF Aligned, Movements, Relay!Goals, Relay!Moving

LEMMA KeptAligned ==
  Aligned /\ Relay!KeepRelays /\ relayState' = relayState => Aligned'
  BY DEF Aligned, Relay!KeepRelays, Relay!relayVars

LEMMA AlignedMachine == Aligned /\ Relay!Machine => Aligned'
<1> SUFFICES ASSUME Aligned, Relay!Machine PROVE Aligned'
  OBVIOUS
<1>1. CASE Relay!Initialize
  BY <1>1, StandingAligned DEF Relay!Initialize, Relay!Enter, Movements
<1>2. CASE Relay!AwaitDisable
  <2>1. relayState' \in {"WAITING_AFTER_DISABLE", "UNKNOWN_WAITING"}
    BY <1>2 DEF Relay!AwaitDisable, Relay!Become, Relay!Enter, Relay!Stay
  <2>2. QED BY <2>1, StandingAligned DEF Movements
<1>3. ASSUME NEW on \in SUBSET Sensors, Relay!AwaitCommand(on) PROVE Aligned'
  <2>1. relayState' \notin Movements
    BY <1>3 DEF Relay!AwaitCommand, Relay!Become, Relay!Enter, Relay!Stay, Relay!Detected, Relay!BeforeEnable, Movements
  <2>2. QED BY <2>1, StandingAligned
<1>4. ASSUME NEW on \in SUBSET Sensors, NEW g \in Relay!Goals, Relay!RestAt(g, on)
      PROVE  Aligned'
  <2>1. relayState' \notin Movements
    BY <1>4 DEF Relay!RestAt, Relay!Become, Relay!Enter, Relay!BeforeEnable, Movements, Relay!Goals
  <2>2. QED BY <2>1, StandingAligned
<1>5. ASSUME NEW on \in SUBSET Sensors, NEW g \in Relay!Goals, Relay!Move(g, on)
      PROVE  Aligned'
  <2>1. \/ relayState' \in {Relay!BeforeEnable(Relay!Other(g)), g, "ERR"}
        \/ Relay!KeepRelays /\ relayState' = relayState
    BY <1>5 DEF Relay!Move, Relay!Prepare, Relay!Become, Relay!Enter, Relay!Idle, Relay!Stay
  <2>2. CASE relayState' \in {Relay!BeforeEnable(Relay!Other(g)), g, "ERR"}
    <3>1. relayState' \notin Movements
      BY <2>2 DEF Relay!BeforeEnable, Movements, Relay!Goals
    <3>2. QED BY <3>1, StandingAligned
  <2>3. QED BY <2>1, <2>2, KeptAligned
<1>6. ASSUME NEW g \in Relay!Goals, Relay!AwaitEnable(g) PROVE Aligned'
  <2>1. \/ relayState' = Relay!BeforeEnable(Relay!Other(g))
        \/ Relay!EnableMotor(g) /\ relayState' = Relay!Moving(g)
        \/ Relay!KeepRelays /\ relayState' = relayState
    BY <1>6 DEF Relay!AwaitEnable, Relay!Become, Relay!Enter, Relay!Idle, Relay!Stay
  <2>2. CASE relayState' = Relay!BeforeEnable(Relay!Other(g))
    BY <2>2, StandingAligned DEF Relay!BeforeEnable, Movements
  <2>3. CASE Relay!EnableMotor(g) /\ relayState' = Relay!Moving(g)
    BY <2>3 DEF Relay!EnableMotor, Aligned, Relay!Goals, Relay!Moving
  <2>4. QED BY <2>1, <2>2, <2>3, KeptAligned
<1>7. CASE Relay!Rest
  BY <1>7, KeptAligned DEF Relay!Rest, Relay!Idle, Relay!Stay
<1>8. QED BY <1>1, <1>2, <1>3, <1>4, <1>5, <1>6, <1>7 DEF Relay!Machine

LEMMA AlignedStep == Aligned /\ [Relay!Next]_relayWindow => Aligned'
<1> SUFFICES ASSUME Aligned, [Relay!Next]_relayWindow PROVE Aligned'
  OBVIOUS
<1>1. CASE Relay!Policy /\ Relay!KeepRelays
  <2>1. relayState' = relayState \/ relayState' = "UNKNOWN"
    BY <1>1 DEF Relay!Policy, Relay!ObeyForce, Relay!Reset, Relay!FollowNewPosition, Relay!FollowPosition,
                Relay!RemainInError
  <2>2. QED BY <1>1, <2>1, KeptAligned, StandingAligned DEF Movements
<1>2. CASE (Relay!SetPosition \/ Relay!SensorChanges) /\ Relay!KeepRelays
  BY <1>2, KeptAligned DEF Relay!SetPosition, Relay!SensorChanges
<1>3. CASE Relay!Time
  BY <1>3 DEF Relay!Time, Relay!Tick, Aligned
<1>4. CASE UNCHANGED relayWindow
  BY <1>4, KeptAligned DEF relayWindow, Relay!KeepRelays, Relay!relayVars
<1>5. QED BY <1>1, <1>2, <1>3, <1>4, AlignedMachine DEF Relay!Next, Relay!DoWork

\* A coil is connected exactly while the window moves, and it is the one of the
\* direction in which it moves; only the first call of doWork, in the state
\* UNKNOWN, finds the relays at any level.
THEOREM RelaysAgree == WindowsSpec => []Relay!RelayInv
<1>1. Rested /\ Aligned => Relay!RelayInv
  BY DEF Rested, Aligned, Relay!RelayInv, Driven, Relay!Goals, Relay!Moving
<1>2. QED
  BY <1>1, RelaySteps, RestedInit, RestedStep, AlignedInit, AlignedStep, PTL DEF WindowsSpec

-----------------------------------------------------------------------------
(* Force ports, first in H-bridge mode                                     *)

\* What the force ports have demanded is still the target when the state
\* machine runs next, also after a call that has thrown.
ForcedTarget == stage = "machine" /\ forced \in Goals => targetState = forced

\* What the state machine does to a window whose target is g.
Obeys(g) ==
  /\ stage' = "machine" => targetState' = g
  /\ currentState' = Moving(Other(g)) => currentState' = currentState

LEMMA GoalNames ==
  /\ Goals = {"OPEN", "CLOSED"}
  /\ Moving("OPEN") = "OPENING" /\ Moving("CLOSED") = "CLOSING"
  /\ Other("OPEN") = "CLOSED" /\ Other("CLOSED") = "OPEN"
  /\ Started("OPEN") \in {"WAITING_AFTER_ENABLE", "OPENING"}
  /\ Started("CLOSED") \in {"WAITING_AFTER_ENABLE", "CLOSING"}
  /\ BeforeDisable("OPEN") = "WAITING_BEFORE_DISABLE_OPEN"
  /\ BeforeDisable("CLOSED") = "WAITING_BEFORE_DISABLE_CLOSED"
BY DEF Goals, Moving, Other, Started, BeforeDisable

LEMMA BecomeObeys ==
  ASSUME NEW g \in Goals, NEW state, Become(state), targetState = g, state # Moving(Other(g)),
         state \notin {"UNKNOWN", "ERR"} \/ stage' = "policy"
  PROVE  Obeys(g)
BY DEF Become, Enter, TargetAfter, Obeys

LEMMA StayObeys == ASSUME NEW g \in Goals, Stay, targetState = g PROVE Obeys(g)
BY DEF Stay, Obeys

LEMMA MachineObeys == ASSUME NEW g \in Goals, targetState = g, Machine PROVE Obeys(g)
<1> USE GoalNames
<1>1. \A h \in Goals : Moving(h) \notin {"UNKNOWN", "ERR", "UNKNOWN_WAITING", "OPEN", "CLOSED", "WAITING_AFTER_ENABLE",
                                         "WAITING_BEFORE_DISABLE_OPEN", "WAITING_BEFORE_DISABLE_CLOSED",
                                         "WAITING_BEFORE_DISABLE_ERROR"}
      OBVIOUS
<1>2. /\ Moving(g) # Moving(Other(g)) /\ Started(g) # Moving(Other(g)) /\ Other(g) \in Goals
      /\ \A h \in Goals : g = Other(h) \/ g = h
      OBVIOUS
<1>3. \A on : Detected(on) \in {"ERR", "CLOSED", "OPEN", "UNKNOWN_WAITING"}
      BY DEF Detected
<1>4. ASSUME NEW on, Initialize(on) PROVE Obeys(g)
  <2>1. CASE broken # {}
        BY <1>4, <2>1, StayObeys DEF Initialize, Stay, portVars
  <2>2. CASE broken = {}
        BY <1>1, <1>2, <1>3, <1>4, <2>2 DEF Initialize, Continue, Enter, Obeys
  <2> QED BY <2>1, <2>2
<1>5. ASSUME NEW on, AwaitCommand(on) PROVE Obeys(g)
  <2>1. Stay => Obeys(g)
        BY StayObeys
  <2>2. broken = {} => stage' = "policy"
        BY <1>5 DEF AwaitCommand, Continue
  <2>3. CASE broken = {} /\ Become(Detected(on))
        BY <1>1, <1>2, <1>3, <2>2, <2>3, BecomeObeys
  <2>4. CASE broken = {} /\ Become(Started(targetState))
        BY <1>2, <2>2, <2>4, BecomeObeys
  <2> QED BY <1>5, <2>1, <2>3, <2>4 DEF AwaitCommand
<1>6. ASSUME NEW h \in Goals, NEW on, RestAt(h, on) PROVE Obeys(g)
  <2> DEFINE wrong == Sensor(Other(h))
             next == IF targetState = Other(h) THEN Started(Other(h)) ELSE h
  <2>1. Continue(wrong \in broken) /\ Become(IF wrong \in on \ broken THEN "ERR" ELSE next)
        BY <1>6 DEF RestAt
  <2>2. next # Moving(Other(g)) /\ next \notin {"UNKNOWN", "ERR"}
        BY <1>1, <1>2
  <2>3. CASE wrong \in on \ broken
    <3>1. stage' = "policy"
          BY <2>1, <2>3 DEF Continue
    <3> QED BY <1>1, <1>2, <2>1, <2>3, <3>1, BecomeObeys
  <2>4. CASE ~(wrong \in on \ broken)
        BY <2>1, <2>2, <2>4, BecomeObeys
  <2> QED BY <2>3, <2>4
<1>7. ASSUME NEW h \in Goals, TurnTowards(h), targetState = h PROVE Obeys(g)
      BY <1>1, <1>2, <1>7, BecomeObeys DEF TurnTowards
<1>8. ASSUME NEW h \in Goals, NEW on, Move(h, on) PROVE Obeys(g)
  <2>1. CASE targetState = Other(h)
        BY <1>7, <1>8, <2>1 DEF Move
  <2>2. CASE targetState # Other(h)
    <3>1. Sensor(h) \notin broken => stage' = "policy"
          BY <1>8, <2>2 DEF Move, Continue
    <3>2. Stay => Obeys(g)
          BY StayObeys
    <3>3. Settled(BeforeDisable(h), h) # Moving(Other(g)) /\ Settled("WAITING_BEFORE_DISABLE_ERROR", "ERR") # Moving(Other(g))
          BY <1>1, <1>2 DEF Settled
    <3>4. CASE Sensor(h) \notin broken /\ Settle(BeforeDisable(h), h)
          BY <3>1, <3>3, <3>4, BecomeObeys DEF Settle
    <3>5. CASE Sensor(h) \notin broken /\ Settle("WAITING_BEFORE_DISABLE_ERROR", "ERR")
          BY <3>1, <3>3, <3>5, BecomeObeys DEF Settle
    <3> QED BY <1>8, <2>2, <3>2, <3>4, <3>5 DEF Move
  <2> QED BY <2>1, <2>2
<1>9. CASE AwaitEnable
  <2>1. stage' = "policy"
        BY <1>9 DEF AwaitEnable, Continue
  <2>2. CASE delayAge > EnableDelay
        BY <1>1, <1>2, <1>7, <1>9, <2>1, <2>2, BecomeObeys DEF AwaitEnable
  <2>3. CASE ~(delayAge > EnableDelay)
        BY <1>9, <2>3, StayObeys DEF AwaitEnable
  <2> QED BY <2>2, <2>3
<1>10. ASSUME NEW h \in Goals, AwaitDisable(h) PROVE Obeys(g)
  <2>1. CASE targetState = Other(h)
        BY <1>7, <1>10, <2>1 DEF AwaitDisable
  <2>2. CASE targetState # Other(h)
    <3>1. Become(h) => Obeys(g)
          BY <1>1, <1>2, BecomeObeys
    <3> QED BY <1>10, <2>2, <3>1, StayObeys DEF AwaitDisable
  <2> QED BY <2>1, <2>2
<1>11. CASE AwaitDisableError
  <2>1. stage' = "policy"
        BY <1>11 DEF AwaitDisableError, Continue
  <2> QED BY <1>1, <1>2, <1>11, <2>1, BecomeObeys, StayObeys DEF AwaitDisableError
<1>12. CASE Rest
       BY <1>12, StayObeys DEF Rest
<1> QED BY <1>4, <1>5, <1>6, <1>8, <1>9, <1>10, <1>11, <1>12 DEF Machine

LEMMA ForcedStep == ForcedTarget /\ [Next]_hBridgeVars => ForcedTarget'
<1> SUFFICES ASSUME ForcedTarget, [Next]_hBridgeVars, stage' = "machine", forced' \in Goals PROVE targetState' = forced'
    BY DEF ForcedTarget
<1>1. CASE Machine
      BY <1>1, MachineObeys DEF Machine, ForcedTarget, Obeys
<1>2. CASE Policy
      BY <1>2 DEF Policy, ObeyForce, Reset, FollowNewPosition, FollowPosition, RemainInError, Goals
<1>3. CASE SetPosition \/ SensorChanges \/ Tick \/ UNCHANGED hBridgeVars
      BY <1>3 DEF SetPosition, SensorChanges, Tick, hBridgeVars, ForcedTarget
<1> QED BY <1>1, <1>2, <1>3 DEF Next, DoWork

LEMMA ForcedKept ==
  ForcedTarget /\ [Next]_hBridgeVars =>
    [(forced \in Goals /\ currentState' = Moving(Other(forced)))
       => currentState' = currentState]_<<currentState, forced>>
<1> SUFFICES ASSUME ForcedTarget, [Next]_hBridgeVars, forced \in Goals, currentState' = Moving(Other(forced))
             PROVE  currentState' = currentState
    OBVIOUS
<1>1. CASE Machine
      BY <1>1, MachineObeys DEF Machine, ForcedTarget, Obeys
<1>2. CASE Policy
  <2>1. currentState' \in {currentState, "UNKNOWN"}
        BY <1>2, PolicyStates
  <2> QED BY <2>1, GoalNames
<1>3. CASE SetPosition \/ SensorChanges \/ Tick \/ UNCHANGED hBridgeVars
      BY <1>3 DEF SetPosition, SensorChanges, Tick, hBridgeVars
<1> QED BY <1>1, <1>2, <1>3 DEF Next, DoWork


-----------------------------------------------------------------------------
(* ... and in serial relay mode                                            *)

RelayForcedTarget == relayStage = "machine" /\ relayForced \in Goals => relayTarget = relayForced

RelayObeys(g) ==
  /\ relayStage' = "machine" => relayTarget' = g
  /\ relayState' = Moving(Other(g)) => relayState' = relayState

LEMMA RelayNames ==
  /\ \A g : Relay!Moving(g) = Moving(g) /\ Relay!Other(g) = Other(g)
  /\ Relay!Goals = Goals
  /\ Relay!BeforeEnable("OPEN") = "WAITING_BEFORE_ENABLE_OPENING"
  /\ Relay!BeforeEnable("CLOSED") = "WAITING_BEFORE_ENABLE_CLOSING"
BY DEF Relay!Moving, Moving, Relay!Other, Other, Relay!Goals, Goals, Relay!BeforeEnable

LEMMA RelayBecomeObeys ==
  ASSUME NEW g \in Goals, NEW state, Relay!Become(state), relayTarget = g,
         state # Moving(Other(g)), state \notin {"UNKNOWN", "ERR"} \/ relayStage' = "policy"
  PROVE  RelayObeys(g)
BY DEF Relay!Become, Relay!Enter, Relay!TargetAfter, RelayObeys

LEMMA RelayStayObeys == ASSUME NEW g \in Goals, Relay!Stay, relayTarget = g PROVE RelayObeys(g)
BY DEF Relay!Stay, RelayObeys

LEMMA RelayMachineObeys == ASSUME NEW g \in Goals, relayTarget = g, Relay!Machine PROVE RelayObeys(g)
<1> USE GoalNames, RelayNames
<1>1. /\ Moving(Other(g)) \in {"OPENING", "CLOSING"} /\ Moving(g) # Moving(Other(g)) /\ Other(g) \in Goals
      /\ \A h \in Goals : Relay!BeforeEnable(h) \in {"WAITING_BEFORE_ENABLE_OPENING", "WAITING_BEFORE_ENABLE_CLOSING"}
      /\ \A h \in Goals : (g = Other(h) \/ g = h) /\ h \in {"OPEN", "CLOSED"} /\ Other(h) \in Goals
      OBVIOUS
<1>2. \A on : Relay!Detected(on) \in {"ERR", "CLOSED", "OPEN", "UNKNOWN_WAITING"}
      BY DEF Relay!Detected
<1>3. Relay!Stay => RelayObeys(g)
      BY RelayStayObeys
<1>4. CASE Relay!Initialize
      BY <1>1, <1>4 DEF Relay!Initialize, Relay!Continue, Relay!Enter, RelayObeys
<1>5. CASE Relay!AwaitDisable
      BY <1>1, <1>3, <1>5, RelayBecomeObeys DEF Relay!AwaitDisable
<1>6. ASSUME NEW on, Relay!AwaitCommand(on) PROVE RelayObeys(g)
  <2>1. relayBroken = {} => relayStage' = "policy"
        BY <1>6 DEF Relay!AwaitCommand, Relay!Continue
  <2>2. CASE relayBroken = {} /\ Relay!Become(Relay!Detected(on))
        BY <1>1, <1>2, <2>1, <2>2, RelayBecomeObeys
  <2>3. CASE Relay!Become(Relay!BeforeEnable(relayTarget))
        BY <1>1, <2>3, RelayBecomeObeys
  <2> QED BY <1>3, <1>6, <2>2, <2>3 DEF Relay!AwaitCommand
<1>7. ASSUME NEW h \in Goals, NEW on, Relay!RestAt(h, on) PROVE RelayObeys(g)
  <2> DEFINE wrong == Relay!Sensor(Relay!Other(h))
             next == IF relayTarget = Relay!Other(h) THEN Relay!BeforeEnable(Relay!Other(h)) ELSE h
  <2>1. Relay!Continue(wrong \in relayBroken) /\ Relay!Become(IF wrong \in on \ relayBroken THEN "ERR" ELSE next)
        BY <1>7 DEF Relay!RestAt
  <2>2. next # Moving(Other(g)) /\ next \notin {"UNKNOWN", "ERR"}
        BY <1>1
  <2>3. CASE wrong \in on \ relayBroken
    <3>1. relayStage' = "policy"
          BY <2>1, <2>3 DEF Relay!Continue
    <3> QED BY <1>1, <2>1, <2>3, <3>1, RelayBecomeObeys
  <2>4. CASE ~(wrong \in on \ relayBroken)
        BY <2>1, <2>2, <2>4, RelayBecomeObeys
  <2> QED BY <2>3, <2>4
<1>8. ASSUME NEW h \in Goals, NEW on, Relay!Move(h, on) PROVE RelayObeys(g)
  <2>1. CASE relayTarget = Other(h)
    <3>1. Relay!Become(Relay!BeforeEnable(Other(h)))
          BY <1>8, <2>1 DEF Relay!Move, Relay!Prepare
    <3> QED BY <1>1, <3>1, RelayBecomeObeys
  <2>2. CASE relayTarget # Other(h)
    <3>1. Relay!Sensor(h) \notin relayBroken => relayStage' = "policy"
          BY <1>8, <2>2 DEF Relay!Move, Relay!Continue
    <3>2. CASE Relay!Sensor(h) \notin relayBroken /\ (Relay!Become(h) \/ Relay!Become("ERR"))
          BY <1>1, <3>1, <3>2, RelayBecomeObeys
    <3> QED BY <1>3, <1>8, <2>2, <3>2 DEF Relay!Move, Relay!Idle
  <2> QED BY <2>1, <2>2
<1>9. ASSUME NEW h \in Goals, Relay!AwaitEnable(h) PROVE RelayObeys(g)
  <2>1. CASE relayTarget = Other(h)
    <3>1. Relay!Become(Relay!BeforeEnable(Other(h)))
          BY <1>9, <2>1 DEF Relay!AwaitEnable
    <3> QED BY <1>1, <3>1, RelayBecomeObeys
  <2>2. CASE relayTarget # Other(h)
    <3>1. h = g
          BY <1>1, <2>2
    <3>2. Relay!Become(Moving(h)) => RelayObeys(g)
          BY <1>1, <3>1, RelayBecomeObeys
    <3> QED BY <1>3, <1>9, <2>2, <3>2 DEF Relay!AwaitEnable, Relay!Idle
  <2> QED BY <2>1, <2>2
<1>10. CASE Relay!Rest
       BY <1>3, <1>10 DEF Relay!Rest, Relay!Idle
<1> QED BY <1>4, <1>5, <1>6, <1>7, <1>8, <1>9, <1>10 DEF Relay!Machine

LEMMA RelayForcedStep == RelayForcedTarget /\ [Relay!Next]_relayWindow => RelayForcedTarget'
<1> SUFFICES ASSUME RelayForcedTarget, [Relay!Next]_relayWindow, relayStage' = "machine", relayForced' \in Goals
             PROVE  relayTarget' = relayForced'
    BY DEF RelayForcedTarget
<1>1. CASE Relay!Machine
      BY <1>1, RelayMachineObeys DEF Relay!Machine, RelayForcedTarget, RelayObeys
<1>2. CASE Relay!Policy
      BY <1>2 DEF Relay!Policy, Relay!ObeyForce, Relay!Reset, Relay!FollowNewPosition, Relay!FollowPosition,
                  Relay!RemainInError, Goals
<1>3. CASE Relay!SetPosition \/ Relay!SensorChanges \/ Relay!Time \/ UNCHANGED relayWindow
      BY <1>3 DEF Relay!SetPosition, Relay!SensorChanges, Relay!Time, Relay!Tick, relayWindow, RelayForcedTarget
<1> QED BY <1>1, <1>2, <1>3 DEF Relay!Next, Relay!DoWork

LEMMA RelayForcedKept ==
  RelayForcedTarget /\ [Relay!Next]_relayWindow =>
    [(relayForced \in Relay!Goals /\ relayState' = Relay!Moving(Relay!Other(relayForced)))
       => relayState' = relayState]_<<relayState, relayForced>>
<1> SUFFICES ASSUME RelayForcedTarget, [Relay!Next]_relayWindow, relayForced \in Goals,
                    relayState' = Moving(Other(relayForced))
             PROVE  relayState' = relayState
    BY RelayNames
<1>1. CASE Relay!Machine
      BY <1>1, RelayMachineObeys DEF Relay!Machine, RelayForcedTarget, RelayObeys
<1>2. CASE Relay!Policy
  <2>1. relayState' \in {relayState, "UNKNOWN"}
        BY <1>2 DEF Relay!Policy, Relay!ObeyForce, Relay!Reset, Relay!FollowNewPosition, Relay!FollowPosition,
                    Relay!RemainInError
  <2> QED BY <2>1, GoalNames
<1>3. CASE Relay!SetPosition \/ Relay!SensorChanges \/ Relay!Time \/ UNCHANGED relayWindow
      BY <1>3 DEF Relay!SetPosition, Relay!SensorChanges, Relay!Time, Relay!Tick, relayWindow
<1> QED BY <1>1, <1>2, <1>3 DEF Relay!Next, Relay!DoWork

LEMMA BridgeSteps ==
  /\ WindowsInit => Init
  /\ [WindowsNext]_<<which, hBridgeVars, relayWindow>> => [Next]_hBridgeVars
BY DEF WindowsInit, WindowsNext

\* As long as a force port is High the window is not moved the other way, in
\* both control modes: after doWork has seen the force port its next call does
\* not start the opposite movement, for all settings, whatever the position,
\* the reset ports and failing sensors ask for.
THEOREM NeverReversed == WindowsSpec => ForcedNeverReversed /\ Relay!ForcedNeverReversed
<1>1. Init => ForcedTarget
      BY DEF Init, PortInit, ForcedTarget, Goals
<1>2. Relay!Init => RelayForcedTarget
      BY DEF Relay!Init, Relay!PortInit, RelayForcedTarget, Goals
<1>3. WindowsSpec => ForcedNeverReversed
      BY <1>1, BridgeSteps, ForcedStep, ForcedKept, PTL DEF WindowsSpec, ForcedNeverReversed
<1>4. WindowsSpec => Relay!ForcedNeverReversed
      BY <1>2, RelaySteps, RelayForcedStep, RelayForcedKept, PTL DEF WindowsSpec, Relay!ForcedNeverReversed
<1> QED BY <1>3, <1>4
=============================================================================
