----------------------------- MODULE WindowPort -----------------------------
(***************************************************************************)
(* The part of WindowPlugin's WindowPort that both control modes share:    *)
(* the selected position, the bookkeeping of setCurrentState, the timers   *)
(* and the second half of doWork, which derives the target state.          *)
(*                                                                         *)
(* One doWork call is two steps: the state machine of the control mode     *)
(* (modules WindowHBridge and WindowRelay), then Policy.  Nothing but the  *)
(* clock runs between them, so what the outside does happens while         *)
(* stage = "machine".  Port lines the window reads are inputs of the step  *)
(* that reads them: they may have any value at any time.                   *)
(***************************************************************************)
EXTENDS Integers

CONSTANTS
  Sensors,             \* the sensor ports configured, among "closed", "open"
  FaultySensors,       \* sensor ports that may be in an error state
  EnableDelay, OpeningTime, ClosingTime,  \* settings, in ticks
  ForceTo,             \* what the force ports demand, "none" without any
  HasReset,            \* ResetPorts is set
  ResetTo,             \* setting ResetTo, "none" for Off
  PositionAfterClose, PositionAfterOpen,  \* settings, -1 if absent
  AgeCap               \* bound: timers are counted up to this age

ASSUME SensorAssumption ==
  Sensors \subseteq {"closed", "open"} /\ FaultySensors \subseteq Sensors
ASSUME TimeAssumption ==
  /\ EnableDelay \in Nat
  /\ OpeningTime \in Nat \ {0}
  /\ ClosingTime \in Nat \ {0}
  /\ AgeCap \in Nat
  /\ EnableDelay < AgeCap /\ OpeningTime < AgeCap /\ ClosingTime < AgeCap
ASSUME SettingAssumption ==
  /\ ForceTo \in {"none", "OPEN", "CLOSED"}
  /\ HasReset \in BOOLEAN
  /\ ResetTo \in {"none", "OPEN", "CLOSED"}
  /\ PositionAfterClose \in -1 .. 3
  /\ PositionAfterOpen \in -1 .. 3

VARIABLES
  stage,             \* the half of doWork that runs next
  currentState,
  targetState,
  position,          \* position of the select port
  positionNewlySet,
  delayAge,          \* time since delayTimer was set
  openAge,           \* time since openTimer was set
  broken,            \* sensor ports that are in an error state
  errorLine,         \* line of the error ports
  status,            \* what the status port shows
  forced             \* the target the force ports demanded last, or "none"

portVars == <<position, positionNewlySet, errorLine, status>>
timerVars == <<delayAge, openAge>>

Goals == {"OPEN", "CLOSED"}

States ==
  {"UNKNOWN", "UNKNOWN_WAITING", "CLOSED", "OPEN", "WAITING_AFTER_ENABLE",
   "WAITING_BEFORE_DISABLE_OPEN", "WAITING_BEFORE_DISABLE_CLOSED",
   "WAITING_BEFORE_DISABLE_ERROR", "WAITING_BEFORE_ENABLE_OPENING",
   "WAITING_BEFORE_ENABLE_CLOSING", "WAITING_AFTER_DISABLE", "CLOSING",
   "OPENING", "ERR"}

\* the states setCurrentState shows on the status port
Shown == {"UNKNOWN", "CLOSED", "OPEN", "CLOSING", "OPENING", "ERR"}

OFF == 0
AUTO == 3

PortTypeOK ==
  /\ stage \in {"machine", "policy"}
  /\ currentState \in States
  /\ targetState \in {"UNKNOWN"} \cup Goals
  /\ position \in 0 .. 3
  /\ positionNewlySet \in BOOLEAN
  /\ delayAge \in 0 .. AgeCap
  /\ openAge \in 0 .. AgeCap
  /\ broken \subseteq FaultySensors
  /\ errorLine \in BOOLEAN
  /\ status \in Shown
  /\ forced \in {"none"} \cup Goals

-----------------------------------------------------------------------------
(* Helpers *)

\* what belongs to opening and to closing
Other(g) == IF g = "OPEN" THEN "CLOSED" ELSE "OPEN"
Moving(g) == IF g = "OPEN" THEN "OPENING" ELSE "CLOSING"
Sensor(g) == IF g = "OPEN" THEN "open" ELSE "closed"
TimeFor(g) == IF g = "OPEN" THEN OpeningTime ELSE ClosingTime

\* the target a manual position stands for; any other keeps the target
TargetOf(p, t) == CASE p = 1 -> "CLOSED" [] p = 2 -> "OPEN" [] OTHER -> t

\* what the sensors that signal (on) say about the window
Detected(on) ==
  CASE {"closed", "open"} \subseteq on -> "ERR"
    [] on = {"closed"} -> "CLOSED"
    [] on = {"open"} -> "OPEN"
    [] OTHER -> "UNKNOWN_WAITING"

\* A position that would only repeat the current state switches to automatic.
Effective(p, state) ==
  IF \/ PositionAfterClose >= 0 /\ p = 1 /\ state = "CLOSED"
     \/ PositionAfterOpen >= 0 /\ p = 2 /\ state = "OPEN"
  THEN AUTO ELSE p

\* the position setCurrentState selects by itself on entering a state
PositionAfter(state) ==
  CASE state = "CLOSED" -> PositionAfterClose
    [] state = "OPEN" -> PositionAfterOpen
    [] OTHER -> -1

AutoPositions(state) ==
  /\ state # currentState
  /\ targetState # "UNKNOWN"
  /\ PositionAfter(state) >= 0
  /\ position # OFF
  /\ position # PositionAfter(state)

\* setCurrentState, except for the target
Enter(state) ==
  /\ currentState' = state
  /\ errorLine' = IF state # currentState /\ "ERR" \in {state, currentState}
                  THEN state = "ERR" ELSE errorLine
  /\ status' = IF state # currentState /\ state \in Shown
               THEN state ELSE status
  /\ \/ /\ AutoPositions(state)
        /\ position' = Effective(PositionAfter(state), state)
        /\ positionNewlySet' = TRUE
     \/ /\ ~AutoPositions(state)
        /\ UNCHANGED <<position, positionNewlySet>>

\* setCurrentState's effect on the target: undefined states reset it
TargetAfter(state) ==
  IF state # currentState /\ state \in {"UNKNOWN", "ERR"}
  THEN "UNKNOWN" ELSE targetState

\* setCurrentState
Become(state) == Enter(state) /\ targetState' = TargetAfter(state)

Stay == UNCHANGED <<currentState, targetState, portVars>>

-----------------------------------------------------------------------------
PortInit ==
  /\ stage = "machine"
  /\ currentState = "UNKNOWN"
  /\ targetState = "UNKNOWN"
  /\ position \in 0 .. 3
  /\ positionNewlySet = FALSE
  /\ delayAge = AgeCap
  /\ openAge = AgeCap
  /\ broken = {}
  /\ errorLine = FALSE
  /\ status = "UNKNOWN"
  /\ forced = "none"

\* a click of the clock
Older(age) == IF age < AgeCap THEN age + 1 ELSE age

Tick ==
  /\ delayAge' = Older(delayAge)
  /\ openAge' = Older(openAge)
  /\ UNCHANGED <<stage, currentState, targetState, portVars, forced, broken>>

\* sensor ports enter or leave an error state
SensorChanges ==
  /\ stage = "machine"
  /\ broken' \in (SUBSET FaultySensors) \ {broken}
  /\ UNCHANGED <<stage, currentState, targetState, portVars, timerVars, forced>>

\* WindowPort::setPosition, called for the master or by another port
SetPosition ==
  /\ stage = "machine"
  /\ \E p \in 0 .. 3 :
       /\ currentState = "ERR" \/ position # p
       /\ position' = Effective(p, currentState)
  /\ positionNewlySet' = TRUE
  /\ UNCHANGED <<stage, currentState, targetState, errorLine, status,
                 timerVars, forced, broken>>

\* mutant of ObeyForce: a manual position goes before the force ports
ObeyForceUnlessManual ==
  /\ currentState # "ERR"
  /\ ForceTo # "none"
  /\ targetState' = TargetOf(position, ForceTo)
  /\ forced' = ForceTo
  /\ UNCHANGED <<currentState, portVars>>

\* a force port is High; it goes before everything but an error
ObeyForce ==
  /\ currentState # "ERR"
  /\ ForceTo # "none"
  /\ targetState' = ForceTo
  /\ forced' = ForceTo
  /\ UNCHANGED <<currentState, portVars>>

\* a reset port is High in the error state
Reset ==
  /\ currentState = "ERR"
  /\ HasReset
  /\ currentState' = "UNKNOWN"
  /\ errorLine' = FALSE
  /\ status' = "UNKNOWN"
  /\ \/ /\ ResetTo # "none"
        /\ targetState' = ResetTo
        /\ UNCHANGED <<position, positionNewlySet>>
     \/ /\ ResetTo = "none"
        /\ targetState' = "UNKNOWN"
        /\ position' = OFF
        /\ positionNewlySet' = FALSE
  /\ forced' = "none"

\* mutant of FollowNewPosition: the state is set without setCurrentState
FollowNewPositionSilently ==
  /\ positionNewlySet
  /\ positionNewlySet' = FALSE
  /\ currentState' = IF position = OFF THEN "UNKNOWN" ELSE currentState
  /\ targetState' = TargetOf(position, targetState)
  /\ forced' = "none"
  /\ UNCHANGED <<position, errorLine, status>>

\* the position has been changed since the last call
FollowNewPosition ==
  /\ positionNewlySet
  /\ positionNewlySet' = FALSE
  /\ \/ /\ position = OFF
        /\ currentState' = "UNKNOWN"
        /\ errorLine' = IF currentState = "ERR" THEN FALSE ELSE errorLine
        /\ status' = "UNKNOWN"
        /\ targetState' = TargetAfter("UNKNOWN")
     \/ /\ position # OFF
        /\ targetState' = TargetOf(position, targetState)
        /\ UNCHANGED <<currentState, errorLine, status>>
  /\ forced' = "none"
  /\ UNCHANGED <<position>>

\* Otherwise the position, or in automatic mode the AutoClose and AutoOpen
\* ports, decide; AutoClose goes first.
FollowPosition ==
  /\ ~positionNewlySet
  /\ currentState # "ERR"
  /\ \E autoClose, autoOpen \in BOOLEAN :
       targetState' = IF position < AUTO THEN TargetOf(position, targetState)
                      ELSE IF autoClose THEN "CLOSED"
                      ELSE IF autoOpen THEN "OPEN" ELSE targetState
  /\ forced' = "none"
  /\ UNCHANGED <<currentState, portVars>>

\* nothing happens automatically in the error state
RemainInError ==
  /\ ~positionNewlySet
  /\ currentState = "ERR"
  /\ forced' = "none"
  /\ UNCHANGED <<currentState, targetState, portVars>>

\* the second half of doWork
Policy ==
  /\ stage = "policy"
  /\ stage' = "machine"
  /\ ObeyForce \/ Reset \/ FollowNewPosition \/ FollowPosition \/ RemainInError
  /\ UNCHANGED <<timerVars, broken>>

-----------------------------------------------------------------------------
(* Properties both control modes have *)

\* setCurrentState keeps what the window shows to other ports in step with its
\* state: the error ports are High exactly in the error state, and the status
\* port never shows a position the window has left for another one.
ReportsInv ==
  /\ errorLine <=> currentState = "ERR"
  /\ currentState \in Shown => status = currentState

\* readme.txt: "As long as one of the ForceOpen ports is High, the window
\* cannot be closed any more", and the other way round: after doWork has seen
\* a force port, its next call does not start the opposite movement.
ForcedNeverReversed ==
  [][(forced \in Goals /\ currentState' = Moving(Other(forced)))
       => currentState' = currentState]_<<currentState, forced>>

\* no sensor port stays in an error state
SensorsWork == <>[](broken = {})

\* A target is reached, or the window reports an error, or the target changes:
\* the window never hangs between two positions, provided that its sensor ports
\* can be read in the end.
TargetReached ==
  SensorsWork => \A g \in Goals :
    targetState = g ~> (currentState \in {g, "ERR"} \/ targetState # g)
=============================================================================
