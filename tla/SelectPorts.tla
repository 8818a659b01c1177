----------------------------- MODULE SelectPorts -----------------------------
(***************************************************************************)
(* A SceneSelect port, the Selector ports that show and choose its         *)
(* position, and an ErrorDetector port that watches it.  Selecting a scene *)
(* changes other ports, which may be the Selector ports or the SceneSelect *)
(* port itself.                                                            *)
(***************************************************************************)
EXTENDS Integers, Sequences

CONSTANTS
  Selectors,        \* the Selector ports
  SelectorPosition, \* the position each of them stands for
  ErrorState,       \* and the line it takes while the position is not known
  SceneFiles,       \* sets of scene files: a sequence of settings for each position
  WorkOrder         \* the order of doWork: Selectors, "scene" and "detector"

\* a section of a scene file: "room" is the SceneSelect port, "lamp" any other
SettingType ==
  [port : {"room"}, value : Int] \cup [port : {"lamp"} \cup Selectors, value : 0 .. 1]

ASSUME SelectAssumption ==
  /\ SceneFiles \subseteq Seq(Seq(SettingType))
  /\ Selectors \cap {"room", "lamp", "scene", "detector"} = {}
  /\ SelectorPosition \in [Selectors -> Int]
  /\ ErrorState \in [Selectors -> {-1, 0, 1}]
  /\ WorkOrder \in Seq(Selectors \cup {"scene", "detector"}) /\ WorkOrder # <<>>

VARIABLES
  scenes,        \* the scene files, that of position p at p + 1
  room,          \* position of the SceneSelect port
  roomError,
  positionSet,   \* a scene has been selected
  selLine,       \* lines of the Selector ports
  outLine,       \* lines of their output ports
  lamp,          \* a port the scenes set
  detector,      \* line of the ErrorDetector port
  working,       \* whose doWork is next
  applied        \* position whose scene has been applied last, -1 for none

roomVars == <<scenes, room, roomError, positionSet, selLine, outLine, lamp, detector, working, applied>>

Positions == 0 .. Len(scenes) - 1
Undefined == -1

SelectTypeOK ==
  /\ scenes \in SceneFiles
  /\ room \in Positions
  /\ roomError \in BOOLEAN
  /\ positionSet \in BOOLEAN
  /\ selLine \in [Selectors -> 0 .. 1]
  /\ outLine \in [Selectors -> 0 .. 1]
  /\ lamp \in 0 .. 1
  /\ detector \in 0 .. 1
  /\ working \in 1 .. Len(WorkOrder)
  /\ applied \in Positions \cup {Undefined}

-----------------------------------------------------------------------------
(* Setters.  s is the state of the ports while settings are applied. *)

Now == [room |-> room, error |-> roomError, set |-> positionSet,
        sel |-> selLine, out |-> outLine, lamp |-> lamp]

Become(s) ==
  /\ room' = s.room /\ roomError' = s.error /\ positionSet' = s.set
  /\ selLine' = s.sel /\ outLine' = s.out /\ lamp' = s.lamp

\* SceneSelectPort::setPosition: a position that is refused has been noted
\* as a selection before
Select(s, position) ==
  IF position \in Positions
  THEN [s EXCEPT !.room = position, !.error = FALSE, !.set = TRUE]
  ELSE [s EXCEPT !.set = TRUE]

\* SelectorPort::setLine: selects the position if the line is High
SetSelector(s, selector, v) ==
  LET chosen == IF v = 1 THEN Select(s, SelectorPosition[selector]) ELSE s
  IN  [chosen EXCEPT !.sel[selector] = v, !.out[selector] = v]

\* one section of a scene file
Apply(s, setting) ==
  CASE setting.port = "room" -> Select(s, setting.value)
    [] setting.port = "lamp" -> [s EXCEPT !.lamp = setting.value]
    [] OTHER -> SetSelector(s, setting.port, setting.value)

\* all sections, one after the other
ApplyAll(s, settings) ==
  LET after[n \in 0 .. Len(settings)] == IF n = 0 THEN s ELSE Apply(after[n - 1], settings[n])
  IN  after[Len(settings)]

\* The position is selected by the configuration, or it is the first one.
SelectInit ==
  /\ scenes \in SceneFiles
  /\ room \in Positions
  /\ positionSet = (room > 0)
  /\ roomError = FALSE
  /\ selLine = [s \in Selectors |-> 0]
  /\ outLine = [s \in Selectors |-> 0]
  /\ lamp = 0
  /\ detector = 0
  /\ working = 1
  /\ applied = Undefined

-----------------------------------------------------------------------------
(* doWork *)

\* mutant of SelectorDoWork: the line is not set to Low
SelectorDoWorkHigh(s) ==
  /\ IF roomError
     THEN IF ErrorState[s] = Undefined THEN Become(Now) ELSE Become(SetSelector(Now, s, ErrorState[s]))
     ELSE Become([Now EXCEPT !.sel[s] = IF room = SelectorPosition[s] THEN 1 ELSE @,
                             !.out[s] = IF room = SelectorPosition[s] THEN 1 ELSE @])
  /\ UNCHANGED <<scenes, detector, applied>>

\* An error of the select port is answered with a call of setLine, which
\* selects a position when ErrorState is High; otherwise the line follows.
SelectorDoWork(s) ==
  /\ IF roomError
     THEN IF ErrorState[s] = Undefined THEN Become(Now) ELSE Become(SetSelector(Now, s, ErrorState[s]))
     ELSE LET new == IF room = SelectorPosition[s] THEN 1 ELSE 0
          IN  IF selLine[s] = new THEN Become(Now)
              ELSE Become([Now EXCEPT !.sel[s] = new, !.out[s] = new])
  /\ UNCHANGED <<scenes, detector, applied>>

\* SceneSelectPort::doWork: what the scene selects itself is forgotten
SceneDoWork ==
  /\ positionSet
  /\ Become([ApplyAll(Now, scenes[room + 1]) EXCEPT !.set = FALSE])
  /\ applied' = room
  /\ UNCHANGED <<scenes, detector>>

\* The scene file can not be read: an exception, and the scene stays selected.
SceneFails ==
  /\ positionSet
  /\ UNCHANGED <<scenes, room, roomError, positionSet, selLine, outLine, lamp, detector, applied>>

NoScene ==
  /\ ~positionSet
  /\ UNCHANGED <<scenes, room, roomError, positionSet, selLine, outLine, lamp, detector, applied>>

DetectorDoWork ==
  /\ detector' = IF roomError THEN 1 ELSE 0
  /\ UNCHANGED <<scenes, room, roomError, positionSet, selLine, outLine, lamp, applied>>

WorkDone == working' = (working % Len(WorkOrder)) + 1

SelectWork ==
  /\ CASE WorkOrder[working] = "scene" -> SceneDoWork \/ NoScene
       [] WorkOrder[working] = "detector" -> DetectorDoWork
       [] OTHER -> SelectorDoWork(WorkOrder[working])
  /\ WorkDone

\* An exception ends the iteration, the next one starts from the first port.
SceneThrows ==
  /\ WorkOrder[working] = "scene"
  /\ SceneFails
  /\ working' = 1

\* the user and other ports
SelectOutside ==
  /\ \/ \E p \in Positions \cup {Len(scenes)} : Become(Select(Now, p))
     \/ \E s \in Selectors, v \in 0 .. 1 : Become(SetSelector(Now, s, v))
     \/ Become([Now EXCEPT !.error = TRUE])
  /\ UNCHANGED <<scenes, detector, working, applied>>

SelectNext == SelectWork \/ SceneThrows \/ SelectOutside

\* the main loop goes on, and a file that can be read is read in the end
SelectFairness == WF_roomVars(SelectWork \/ SceneThrows) /\ SF_roomVars(WorkOrder[working] = "scene" /\ SceneDoWork /\ WorkDone)
SelectSpec == SelectInit /\ [][SelectNext]_roomVars /\ SelectFairness

-----------------------------------------------------------------------------
(* Properties *)

\* no scene selects another one, directly or by a Selector port
PlainScenes == \A i \in DOMAIN scenes : \A k \in DOMAIN scenes[i] : scenes[i][k].port = "lamp"

\* Whatever has changed the position, the user, a Selector port or the answer
\* to an error: its scene has been applied, or will be at the next doWork.
SceneApplied == PlainScenes /\ ~positionSet /\ applied # Undefined => applied = room

\* When nothing is changed from outside any more the Selector ports come to
\* agree with the position: the one for it is High and the others are Low,
\* even if a Selector port selects a position because of an error or a scene
\* sets Selector ports.
SelectorsAgree ==
  []<><<SelectOutside>>_roomVars
    \/ <>[](~roomError => \A s \in Selectors : selLine[s] = 1 <=> room = SelectorPosition[s])

\* A scene that has been selected stays pending while its file can not be
\* read, and is applied once.
ScenesSettle == []<><<SelectOutside>>_roomVars \/ <>[]~positionSet
=============================================================================
