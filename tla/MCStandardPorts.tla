--------------------------- MODULE MCStandardPorts ---------------------------
(***************************************************************************)
(* Instances of the modules of the standard library's ports for TLC, in    *)
(* one specification: a behaviour is one of a module, the others stay at   *)
(* an initial state.                                                       *)
(*                                                                         *)
(* Signals: a Logic port on a and b with a led, a Trigger port behind it   *)
(* that toggles a lamp and counts; a pulse that the Logic port enables; a  *)
(* pulse that resets the port that enables it.  Scenes: three scenes, two  *)
(* Selector ports.  Faders: up, down and from the output itself.  An       *)
(* Expression port for every type of output.                               *)
(***************************************************************************)
EXTENDS MCSignalPorts, SelectPorts, FaderPort, FilePort, MCAggregatorPort, ExpressionPort, InfluxDBPort,
        TestPort, EventPort

MCSelectors == {"first", "last"}
MCPosition == [s \in MCSelectors |-> IF s = "first" THEN 0 ELSE 2]
MCErrorState == [s \in MCSelectors |-> IF s = "first" THEN 0 ELSE 1]
MCOrder == <<"first", "scene", "last", "detector">>

Setting(port, v) == [port |-> port, value |-> v]
MCPlain == << <<Setting("lamp", 0)>>, <<Setting("lamp", 1)>>, <<>> >>
MCNested == << <<Setting("first", 1)>>, <<Setting("lamp", 1), Setting("last", 1)>>, <<Setting("room", 1)>> >>
MCSceneFiles == {MCPlain, MCNested}

Fader(l, r, duration, linear, invert, switchOff) ==
  [left |-> l, right |-> r, duration |-> duration, linear |-> linear, invert |-> invert, switchOff |-> switchOff]

MCFaderConfigs ==
  {Fader(0, 4, 3, TRUE, FALSE, "left"), Fader(2, 4, 2, FALSE, TRUE, "right"), Fader(Output, 3, 2, TRUE, FALSE, "left"),
   Fader(1, Output, 3, TRUE, TRUE, "none"), Fader(0, Output, 2, FALSE, FALSE, "none"), Fader(4, 0, 0, TRUE, FALSE, "none"),
   Fader(0, 2, 1, TRUE, TRUE, "left")}

FileOf(readonly, deletes, delay, expiry, numerator) ==
  [readonly |-> readonly, deleteAfterRead |-> deletes, delay |-> delay, expiry |-> expiry, numerator |-> numerator]

MCFileConfigs ==
  {FileOf(FALSE, FALSE, 0, 0, 1), FileOf(TRUE, FALSE, 1, 2, 2), FileOf(FALSE, TRUE, 1, 0, 1)}

Expr(kind, limit, fallback, deactivation, required, validated, throws) ==
  [kind |-> kind, limit |-> limit, fallback |-> fallback, deactivation |-> deactivation,
   required |-> required, validated |-> validated, throws |-> throws]

MCExprConfigs ==
  {Expr("digital", 2, 0, 1, {"r"}, {}, TRUE), Expr("analog", 0, NoNumber, 4, {}, {"x", "y"}, FALSE),
   Expr("dial", 1, 2, 0, {}, {"x"}, TRUE), Expr("select", 2, NoNumber, NoNumber, {"r"}, {"y"}, FALSE),
   Expr("custom", 0, 3, NoNumber, {"r"}, {}, FALSE)}

TestOf(base, interval, warn, exit) ==
  [base |-> base, interval |-> interval, warnOnFailure |-> warn, exitAfterTest |-> exit]

MCTestConfigs ==
  {TestOf("time", 2, TRUE, FALSE), TestOf("time", 1, FALSE, TRUE), TestOf("frames", 1, TRUE, FALSE),
   TestOf("frames", 2, FALSE, TRUE)}

\* one output for some payloads, one without a pattern
MCPatterns == << {1}, {1, 2, Unreadable} >>

-----------------------------------------------------------------------------
VARIABLE which   \* the module a behaviour is about

others == <<signalVars, roomVars, faderVars, fileVars, aggVars, exprVars, influxVars, testVars, eventVars>>
laterVars == <<exprVars, influxVars, testVars, eventVars>>
earlierVars == <<signalVars, roomVars, faderVars, fileVars, aggVars>>

StandardInit ==
  /\ which \in {"signal", "select", "fader", "file", "aggregator", "expression", "influx", "test", "event"}
  /\ SignalInit /\ (which # "signal" => signal = CHOOSE c \in SignalConfigs : TRUE)
  /\ SelectInit /\ (which # "select" => scenes = MCPlain /\ room = 0)
  /\ FaderInit /\ (which # "fader" => fader = CHOOSE c \in FaderConfigs : TRUE)
  /\ FileInit /\ (which # "file" => file = None /\ fileConf = CHOOSE c \in FileConfigs : TRUE)
  /\ AggregatorInit /\ (which # "aggregator" => agg = CHOOSE c \in AggregatorConfigs : TRUE)
  /\ ExprInit /\ (which # "expression" => expr = (CHOOSE c \in ExprConfigs : TRUE) /\ exprLine = 1)
  /\ TestInit /\ (which # "test" => test = CHOOSE c \in TestConfigs : TRUE)
  /\ InfluxInit /\ EventInit

StandardNext ==
  /\ \/ which = "signal" /\ SignalNext /\ UNCHANGED <<roomVars, faderVars, fileVars, aggVars, laterVars>>
     \/ which = "select" /\ SelectNext /\ UNCHANGED <<signalVars, faderVars, fileVars, aggVars, laterVars>>
     \/ which = "fader" /\ FaderNext /\ UNCHANGED <<signalVars, roomVars, fileVars, aggVars, laterVars>>
     \/ which = "file" /\ FileNext /\ UNCHANGED <<signalVars, roomVars, faderVars, aggVars, laterVars>>
     \/ which = "aggregator" /\ AggregatorNext /\ UNCHANGED <<signalVars, roomVars, faderVars, fileVars, laterVars>>
     \/ which = "expression" /\ ExprNext /\ UNCHANGED <<earlierVars, influxVars, testVars, eventVars>>
     \/ which = "influx" /\ InfluxNext /\ UNCHANGED <<earlierVars, exprVars, testVars, eventVars>>
     \/ which = "test" /\ TestNext /\ UNCHANGED <<earlierVars, exprVars, influxVars, eventVars>>
     \/ which = "event" /\ EventNext /\ UNCHANGED <<earlierVars, exprVars, influxVars, testVars>>
  /\ UNCHANGED which

StandardFairness ==
  /\ WF_signalVars(which = "signal" /\ (NextFrame \/ NextDoWork))
  /\ WF_signalVars(which = "signal" /\ TimePasses)
  /\ WF_roomVars(which = "select" /\ (SelectWork \/ SceneThrows))
  /\ SF_roomVars(which = "select" /\ WorkOrder[working] = "scene" /\ SceneDoWork /\ WorkDone)
  /\ WF_faderVars(which = "fader" /\ FaderDoWork)
  /\ WF_faderVars(which = "fader" /\ FaderTick)
  /\ WF_fileVars(which = "file" /\ FileDoWork)
  /\ WF_fileVars(which = "file" /\ FileChangedEvent)
  /\ WF_fileVars(which = "file" /\ FileTick)
  /\ WF_exprVars(which = "expression" /\ ExprDoWork)
  /\ WF_influxVars(which = "influx" /\ Log)
  /\ WF_influxVars(which = "influx" /\ PostThread)
  /\ WF_influxVars(which = "influx" /\ InfluxTick)
  /\ WF_testVars(which = "test" /\ TimedDoWork)
  /\ WF_testVars(which = "test" /\ FrameDoWork)
  /\ WF_testVars(which = "test" /\ TestTick)
StandardSpec == StandardInit /\ [][StandardNext]_<<which, others>> /\ StandardFairness

\* SelectorsAgree, of the behaviours that are about the Selector ports: the
\* ports come to agree with the position once nothing is changed from outside;
\* and a scene that is selected from outside is applied.
SelectionsSettle == (which = "select" => SelectorsAgree) /\ ScenesSettle

\* An expression runs as often as it should, on the values of its ports.
ExpressionsRun == which = "expression" => ExpressionRuns

\* Values are logged and tests run again and again, and no test runs before its
\* interval has passed.
IntervalsKept == (which = "influx" => KeepsLogging) /\ (which = "test" => KeepsTesting) /\ TestsWait

\* The variables of every module have their types; outputs follow their Logic
\* port; the scene of a position has been applied; an Aggregator port shows what
\* it has collected; expressions keep to their limit and leave the deactivation
\* value; a data set stays intact while it is posted; events reach the outputs.
StandardInv ==
  /\ SignalTypeOK /\ SelectTypeOK /\ FaderTypeOK /\ FileTypeOK /\ AggregatorTypeOK
  /\ ExprTypeOK /\ InfluxTypeOK /\ TestTypeOK /\ EventTypeOK
  /\ FollowsLogic
  /\ SceneApplied
  /\ AggregatorInv
  /\ DeactivationShown /\ LimitKept
  /\ DataIntact
  /\ EventsHandled
=============================================================================
