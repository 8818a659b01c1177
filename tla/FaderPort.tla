------------------------------ MODULE FaderPort ------------------------------
(***************************************************************************)
(* A Fader port: High, it moves the position of an output port from Left   *)
(* to Right within a duration; then it sets its end switches.  Left and    *)
(* Right may be the output port itself, and their values may be missing.   *)
(*                                                                         *)
(* Levels are parts of 100 %, time is in units longer than 5 ms.  The      *)
(* curve of the exponential mode is that of the linear one with other      *)
(* values in between.                                                      *)
(***************************************************************************)
EXTENDS Integers

CONSTANTS
  FaderConfigs   \* see FaderType

VARIABLES
  fader,         \* the configuration
  fadeLine,
  level,         \* position of the output port
  left, right,   \* resolved when the port is switched
  elapsed,       \* time since the start
  resolvable,    \* the values of Left and Right can be resolved
  action,        \* actionToPerform
  endSwitch,
  writer         \* history: "fader" if the fade has set the output last

faderVars == <<fader, fadeLine, level, left, right, elapsed, resolvable, action, endSwitch, writer>>

\* bound of the levels
MaxLevel == 4
Levels == 0 .. MaxLevel
Output == -1

FaderType ==
  [left : Levels \cup {Output}, right : Levels \cup {Output}, duration : 0 .. 3,
   linear : BOOLEAN, invert : BOOLEAN, switchOff : {"none", "left", "right"}]

ASSUME FaderAssumption == FaderConfigs \subseteq FaderType

FaderTypeOK ==
  /\ fader \in FaderType
  /\ fadeLine \in 0 .. 1
  /\ level \in Levels
  /\ left \in Levels /\ right \in Levels
  /\ elapsed \in 0 .. fader.duration + 1
  /\ resolvable \in BOOLEAN
  /\ action \in {"none", "left", "right"}
  /\ endSwitch \in 0 .. 1
  /\ writer \in {"others", "fader"}

FaderInit ==
  /\ fader \in FaderConfigs
  /\ fadeLine = 0
  /\ level = 0
  /\ left = 0 /\ right = 0
  /\ elapsed = 0
  /\ resolvable = TRUE
  /\ action = "none"
  /\ endSwitch = 0
  /\ writer = "others"

-----------------------------------------------------------------------------
(* setLine *)

Resolved(setting) == IF setting = Output THEN level ELSE setting

Resolve ==
  /\ left' = Resolved(fader.left)
  /\ right' = Resolved(fader.right)

\* An exception if the values are missing; a fade that would be too short is
\* refused after they are resolved.
SwitchOn ==
  /\ fadeLine = 0
  /\ resolvable
  /\ Resolve
  /\ fadeLine' = IF fader.duration > 0 THEN 1 ELSE 0
  /\ elapsed' = IF fader.duration > 0 THEN 0 ELSE elapsed
  /\ writer' = "others"
  /\ UNCHANGED <<fader, level, resolvable, action, endSwitch>>

\* the line is Low before the values are resolved, which may throw
TurnOff ==
  /\ fadeLine' = 0
  /\ action' = fader.switchOff
  /\ IF resolvable THEN Resolve ELSE UNCHANGED <<left, right>>

SwitchOff ==
  /\ fadeLine = 1
  /\ TurnOff
  /\ UNCHANGED <<fader, level, elapsed, resolvable, endSwitch, writer>>

-----------------------------------------------------------------------------
(* doWork *)

\* the level between left and right; with Invert it goes the other way
Fade(time) ==
  LET from == IF fader.invert /\ fader.linear THEN right ELSE left
      to == IF fader.invert /\ fader.linear THEN left ELSE right
      passed == IF fader.invert /\ ~fader.linear THEN fader.duration - time ELSE time
      part == IF fader.linear THEN passed * fader.duration ELSE passed * passed
  IN  (from * fader.duration * fader.duration + part * (to - from)) \div (fader.duration * fader.duration)

\* mutant of EndFade: the values are resolved before the line is set
EndFadeResolvingFirst ==
  /\ fadeLine = 1 /\ elapsed > fader.duration
  /\ resolvable
  /\ TurnOff
  /\ endSwitch' = 1
  /\ UNCHANGED <<fader, level, elapsed, resolvable, writer>>

\* An exception of setLine(0) is one of doWork: no end switch is set.
EndFade ==
  /\ fadeLine = 1 /\ elapsed > fader.duration
  /\ TurnOff
  /\ endSwitch' = IF resolvable THEN 1 ELSE endSwitch
  /\ UNCHANGED <<fader, level, elapsed, resolvable, writer>>

\* The action of switching off goes before the fade, also when the port has
\* been switched on again.
SetLevel ==
  /\ (fadeLine = 1 /\ elapsed <= fader.duration) \/ (fadeLine = 0 /\ action # "none")
  /\ level' = CASE action = "left" -> left [] action = "right" -> right [] OTHER -> Fade(elapsed)
  /\ writer' = IF action = "none" THEN "fader" ELSE "others"
  /\ action' = "none"
  /\ UNCHANGED <<fader, fadeLine, left, right, elapsed, resolvable, endSwitch>>

FaderDoWork == EndFade \/ SetLevel

-----------------------------------------------------------------------------
(* The rest of the program *)

FaderOthers ==
  /\ \/ level' \in Levels /\ writer' = "others" /\ UNCHANGED <<resolvable, endSwitch>>
     \/ resolvable' = ~resolvable /\ UNCHANGED <<level, writer, endSwitch>>
     \/ endSwitch' = 0 /\ UNCHANGED <<level, writer, resolvable>>
  /\ UNCHANGED <<fader, fadeLine, left, right, elapsed, action>>

FaderTick ==
  /\ fadeLine = 1 /\ elapsed <= fader.duration
  /\ elapsed' = elapsed + 1
  /\ UNCHANGED <<fader, fadeLine, level, left, right, resolvable, action, endSwitch, writer>>

FaderNext == SwitchOn \/ SwitchOff \/ FaderDoWork \/ FaderOthers \/ FaderTick

\* the main loop goes on, and time does
FaderFairness == WF_faderVars(FaderDoWork) /\ WF_faderVars(FaderTick)
FaderSpec == FaderInit /\ [][FaderNext]_faderVars /\ FaderFairness

-----------------------------------------------------------------------------
(* Properties *)

\* A fade moves its output in one direction, from Left to Right or with Invert
\* the other way, although Left and Right may refer to the output (setLine keeps
\* the values it has resolved), unless something else sets the output meanwhile:
\* others, or the action of switching off, which a port that is switched on again
\* at once performs in its new fade.
FadesOneWay ==
  [][SetLevel /\ action = "none" /\ writer = "fader" =>
      IF (left <= right) <=> ~fader.invert THEN level' >= level ELSE level' <= level]_faderVars

\* A fade ends, even if the values for the switch-off action are missing then.
FadeEnds == fadeLine = 1 ~> fadeLine = 0

\* The action of switching off is done once: while the port stays Low it leaves
\* its output alone.
OffActionEnds == <>[](fadeLine = 0) => <>[][~SetLevel]_faderVars

\* A fade runs in its direction, comes to an end, and is over then.
FadeRuns == FadesOneWay /\ FadeEnds /\ OffActionEnds
=============================================================================
