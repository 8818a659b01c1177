----------------------------- MODULE SignalPorts -----------------------------
(***************************************************************************)
(* A Logic, a Pulse, a Trigger and a Counter port that share digital ports *)
(* with each other and with the rest of the program: the main loop calls   *)
(* doWork of one after the other, and between two calls other ports, the   *)
(* user or plugins change lines.                                           *)
(*                                                                         *)
(* Time passes in units of which a pulse lasts a few.                      *)
(***************************************************************************)
EXTENDS Integers, Sequences, FiniteSets

CONSTANTS
  SignalConfigs,   \* the ports and how they are connected, see SignalType
  Digital          \* the digital ports; "logic", "pulse" and "trigger" are some

VARIABLES
  signal,        \* the configuration
  line,          \* of the digital ports
  failed,        \* ports in an error state; "dial" holds period and duty cycle
  at,            \* whose doWork is next, 0 before an iteration
  seen,          \* states of its input ports that the Trigger port remembers
  pulseState,
  sincePulse,    \* time since lastStateChangeTime
  position,      \* of the Counter port
  sinceCount,    \* time, or frames, since lastCountTime
  counted,       \* lastCountTime is set
  frame,         \* of the main loop, if the Counter port counts frames
  fired,         \* the last step has triggered
  rested,        \* trigger inputs that have been Low, see FiresOncePerEdge
  overwritten    \* outputs that others have set, see FollowsLogic

signalVars == <<signal, line, failed, at, seen, pulseState, sincePulse, position, sinceCount,
                counted, frame, fired, rested, overwritten>>

Low == 0
High == 1
Lines == {Low, High}
Unknown == 255

LogicType ==
  [function : {"OR", "AND", "XOR", "ATLEAST", "ATMOST", "EXACTLY"}, n : Nat, negate : BOOLEAN,
   inputs : SUBSET Digital, outputs : SUBSET Digital, inverse : SUBSET Digital]
\* on: the part of the period in which the output is High
PulseType ==
  [period : Nat, on : Nat, negate : BOOLEAN, disabled : Lines \cup {Unknown},
   enable : SUBSET Digital, outputs : SUBSET Digital, inverse : SUBSET Digital]
TriggerType ==
  [edge : {"rising", "falling", "both"}, change : {"high", "low", "toggle"}, counts : BOOLEAN,
   inputs : SUBSET Digital, outputs : SUBSET Digital, inverse : SUBSET Digital]
CounterType ==
  [min : Int, max : Int, increment : Int, period : Int, base : {"time", "frames"},
   underflow : SUBSET Digital, overflow : SUBSET Digital]
SignalType ==
  [logic : LogicType, pulse : PulseType, trigger : TriggerType, counter : CounterType,
   order : Seq({"logic", "pulse", "trigger", "counter"}), touched : SUBSET Digital]

Logic == signal.logic
Pulse == signal.pulse
Trigger == signal.trigger
Counter == signal.counter

\* What is set by one of the ports or by others.
SettablePorts(c) ==
  c.touched \cup c.counter.underflow \cup c.counter.overflow \cup c.logic.outputs \cup c.logic.inverse
    \cup c.pulse.outputs \cup c.pulse.inverse \cup c.trigger.outputs \cup c.trigger.inverse

\* Configurations that set the Logic port itself are mistakes and left out: its
\* setLine throws, which the lists of outputs report and skip, and which keeps
\* a counter from counting.  The range of a counter has more than one position
\* (configureDialPort).
ASSUME SignalAssumption ==
  /\ SignalConfigs \subseteq SignalType
  /\ {"logic", "pulse", "trigger"} \subseteq Digital
  /\ \A c \in SignalConfigs :
       c.counter.min < c.counter.max /\ "logic" \notin SettablePorts(c) /\ c.order # <<>>

\* bound of the times: longer ones are not told apart
TimeCap == 3

SignalTypeOK ==
  /\ signal \in SignalType
  /\ line \in [Digital -> Lines]
  /\ failed \in SUBSET (Digital \cup {"dial"})
  /\ at \in 0 .. Len(signal.order)
  /\ seen \in [Trigger.inputs -> Lines \cup {Unknown}]
  /\ pulseState \in Lines \cup {Unknown}
  /\ sincePulse \in 0 .. TimeCap
  /\ position \in Counter.min .. Counter.max
  /\ sinceCount \in 0 .. TimeCap
  /\ counted \in BOOLEAN
  /\ frame \in 0 .. TimeCap
  /\ fired \in BOOLEAN
  /\ rested \in SUBSET Trigger.inputs
  /\ overwritten \in SUBSET Digital

-----------------------------------------------------------------------------
(* Helpers *)

Level(high) == IF high THEN High ELSE Low
Inverted(v) == IF v = Low THEN High ELSE Low

\* setLine of output ports, then of inverse output ports
Driven(outputs, inverse, v) ==
  [p \in Digital |-> IF p \in inverse THEN Inverted(v) ELSE IF p \in outputs THEN v ELSE line[p]]

\* mutant of Remembered: a Trigger port that is disabled forgets nothing
RememberedAlways(s) == s

\* TriggerPort::setLine: disabled, it forgets the states of its inputs
Remembered(s) ==
  IF line["trigger"] = High /\ line'["trigger"] = Low THEN [p \in Trigger.inputs |-> Unknown] ELSE s

SignalInit ==
  /\ signal \in SignalConfigs
  /\ line = [p \in Digital |-> Level(p = "trigger")]
  /\ failed = {}
  /\ at = 0
  /\ seen = [p \in Trigger.inputs |-> Unknown]
  /\ pulseState = Unknown
  /\ sincePulse = TimeCap
  /\ position = IF Counter.min > 0 THEN Counter.min ELSE IF Counter.max < 0 THEN Counter.max ELSE 0
  /\ sinceCount = IF Counter.base = "time" THEN TimeCap ELSE 0
  /\ counted = FALSE
  /\ frame = 0
  /\ fired = FALSE
  /\ rested = Trigger.inputs
  /\ overwritten = Logic.inverse \cup (Logic.outputs \cap {"trigger"})   \* not set before the first change

-----------------------------------------------------------------------------
(* The Logic port *)

\* what an input in an error state may add: a variable without a value is
\* added to the count
Garbage == {0, 1, 255}

\* mutant of HighCounts: the variable is added before it is read
HighCountsUnread == {Cardinality({p \in Logic.inputs \ failed : line[p] = High}) + g : g \in Garbage}

HighCounts ==
  {Cardinality({p \in Logic.inputs \ failed : line[p] = High}) + g :
     g \in IF Logic.inputs \cap failed = {} THEN {0} ELSE Garbage}

LogicFunction(count) ==
  CASE Logic.function = "OR" -> count > 0
    [] Logic.function = "AND" -> count = Cardinality(Logic.inputs)
    [] Logic.function = "XOR" -> count % 2 = 1
    [] Logic.function = "ATLEAST" -> count >= Logic.n
    [] Logic.function = "ATMOST" -> count <= Logic.n
    [] Logic.function = "EXACTLY" -> count = Logic.n

\* mutant of LogicDoWork: the first output in an error state ends the loop
LogicDoWorkBreaking ==
  \E count \in HighCounts :
    LET new == Level(LogicFunction(count) # Logic.negate)
        broken == (Logic.outputs \cup Logic.inverse) \cap failed
    IN  /\ IF new = line["logic"]
           THEN UNCHANGED <<line, overwritten>>
           ELSE /\ line' = IF broken = {} THEN Driven({"logic"} \cup Logic.outputs, Logic.inverse, new)
                           ELSE [line EXCEPT !["logic"] = new]
                /\ overwritten' = broken
        /\ seen' = Remembered(seen)
        /\ UNCHANGED <<failed, pulseState, sincePulse, position, sinceCount, counted>>

\* Outputs are set when the line changes, those in an error state are not
LogicDoWork ==
  \E count \in HighCounts :
    LET new == Level(LogicFunction(count) # Logic.negate)
    IN  /\ IF new = line["logic"]
           THEN UNCHANGED <<line, overwritten>>
           ELSE /\ line' = Driven({"logic"} \cup (Logic.outputs \ failed), Logic.inverse \ failed, new)
                /\ overwritten' = (Logic.outputs \cup Logic.inverse) \cap failed
        /\ seen' = Remembered(seen)
        /\ UNCHANGED <<failed, pulseState, sincePulse, position, sinceCount, counted>>

-----------------------------------------------------------------------------
(* The Pulse port *)

\* getLine returns the last line of a port in an error state
PulseEnabled == \E p \in {"pulse"} \cup Pulse.enable : line[p] = High

\* mutant of NextPulse: the output stays as it is when the pulse is disabled
NextPulseStaying ==
  LET on == Level(~Pulse.negate)
      off == Level(Pulse.negate)
  IN  CASE ~PulseEnabled \/ "dial" \in failed -> pulseState
        [] OTHER -> IF pulseState = off THEN (IF sincePulse > Pulse.period - Pulse.on THEN on ELSE off)
                    ELSE IF sincePulse > Pulse.on THEN off ELSE pulseState

NextPulse ==
  LET on == Level(~Pulse.negate)
      off == Level(Pulse.negate)
  IN  CASE ~PulseEnabled \/ "dial" \in failed ->
             IF Pulse.disabled = Unknown THEN pulseState ELSE Pulse.disabled
        [] Pulse.on = 0 -> off
        [] Pulse.on = Pulse.period -> on
        [] pulseState = off -> IF sincePulse > Pulse.period - Pulse.on THEN on ELSE off
        [] OTHER -> IF sincePulse > Pulse.on THEN off ELSE pulseState

PulseDoWork ==
  /\ pulseState' = NextPulse
  /\ IF pulseState' = pulseState
     THEN UNCHANGED <<line, failed, sincePulse, overwritten>>
     ELSE /\ line' = Driven(Pulse.outputs, Pulse.inverse, pulseState')
          /\ failed' = failed \ (Pulse.outputs \cup Pulse.inverse)
          /\ sincePulse' = 0
          /\ overwritten' = overwritten \cup Pulse.outputs \cup Pulse.inverse
  /\ seen' = Remembered(seen)
  /\ UNCHANGED <<position, sinceCount, counted>>

-----------------------------------------------------------------------------
(* The Counter port *)

\* doIncrement: the position after it, which may still be out of range
Wrapped(i) ==
  LET new == position + i IN
  IF i < 0 /\ new < Counter.min THEN Counter.max - (Counter.min - new)
  ELSE IF i > 0 /\ new > Counter.max THEN Counter.min + (new - Counter.max)
  ELSE new

\* the ports that are set, and to what
FlowPorts(i) ==
  IF i < 0 THEN Counter.underflow ELSE IF i > 0 THEN Counter.overflow ELSE {}
FlowLine(i) == Level(position + i \notin Counter.min .. Counter.max)

\* setPosition refuses a position that is out of range, after the ports are set
Refused(i) == Wrapped(i) \notin Counter.min .. Counter.max

Incremented(i) == IF Refused(i) THEN position ELSE Wrapped(i)

\* The frame is an unsigned number: in the first frames the difference to the
\* period is a large one.
CountDue ==
  /\ Counter.period > 0
  /\ \/ Counter.base = "frames" /\ frame < Counter.period
     \/ sinceCount > Counter.period

CounterDoWork ==
  /\ IF CountDue /\ counted
     THEN /\ position' = Incremented(Counter.increment)
          /\ line' = Driven(FlowPorts(Counter.increment), {}, FlowLine(Counter.increment))
          /\ failed' = failed \ FlowPorts(Counter.increment)
          /\ overwritten' = overwritten \cup FlowPorts(Counter.increment)
     ELSE UNCHANGED <<position, line, failed, overwritten>>
  /\ counted' = (counted \/ CountDue)
  /\ sinceCount' = IF CountDue THEN 0 ELSE sinceCount
  /\ seen' = Remembered(seen)
  /\ UNCHANGED <<pulseState, sincePulse>>

-----------------------------------------------------------------------------
(* The Trigger port *)

IsEdge(before, now) ==
  CASE Trigger.edge = "rising" -> before = Low /\ now = High
    [] Trigger.edge = "falling" -> before = High /\ now = Low
    [] Trigger.edge = "both" -> before # now

ChangeDetected ==
  /\ line["trigger"] = High
  /\ \E p \in Trigger.inputs \ failed : seen[p] # Unknown /\ IsEdge(seen[p], line[p])

\* all inputs are read, also after a change has been found
Observed == [p \in Trigger.inputs |-> IF p \in failed THEN Unknown ELSE line[p]]

\* the ports of the counter that the Trigger port increments, which is done last
TriggeredFlow == IF Trigger.counts THEN FlowPorts(1) ELSE {}

\* Toggling reads an output, and skips it if it is in an error state; what is
\* both an output and an inverse one is toggled twice.
TriggeredLines ==
  LET all == Trigger.outputs \cup Trigger.inverse
      twice == Trigger.outputs \cap Trigger.inverse
  IN  [p \in Digital |->
         CASE p \in TriggeredFlow -> FlowLine(1)
           [] p \in all \ TriggeredFlow /\ Trigger.change = "toggle" ->
                IF p \in failed \cup twice THEN line[p] ELSE Inverted(line[p])
           [] p \in all \ TriggeredFlow /\ Trigger.change # "toggle" ->
                Level((Trigger.change = "high") = (p \notin Trigger.inverse))
           [] OTHER -> line[p]]

TriggerDoWork ==
  /\ IF ChangeDetected
     THEN /\ line' = TriggeredLines
          /\ failed' = failed \ ((IF Trigger.change = "toggle" THEN {} ELSE Trigger.outputs \cup Trigger.inverse)
                                  \cup TriggeredFlow)
          /\ overwritten' = overwritten \cup Trigger.outputs \cup Trigger.inverse \cup TriggeredFlow
          /\ position' = IF Trigger.counts THEN Incremented(1) ELSE position
          /\ counted' = (counted \/ (Trigger.counts /\ ~Refused(1)))
          /\ sinceCount' = IF Trigger.counts /\ ~Refused(1) THEN 0 ELSE sinceCount
     ELSE UNCHANGED <<line, failed, overwritten, position, sinceCount, counted>>
  /\ seen' = IF line["trigger"] = Low THEN seen ELSE Remembered(Observed)
  /\ UNCHANGED <<pulseState, sincePulse>>

-----------------------------------------------------------------------------
(* The main loop and the rest of the program *)

DoWork(port) ==
  CASE port = "logic" -> LogicDoWork
    [] port = "pulse" -> PulseDoWork
    [] port = "trigger" -> TriggerDoWork
    [] port = "counter" -> CounterDoWork

\* the inputs that have been Low while the Trigger port is enabled, when it
\* fired last or since then
Rested(fires) ==
  IF line'["trigger"] = Low THEN {}
  ELSE (CASE line["trigger"] = Low -> {}
          [] fires /\ line["trigger"] # Low -> {p \in Trigger.inputs : line[p] = Low}
          [] OTHER -> rested)
         \cup {p \in Trigger.inputs : line'[p] = Low}

NextFrame ==
  /\ at = 0
  /\ at' = 1
  /\ frame' = IF Counter.base = "frames" /\ frame < TimeCap THEN frame + 1 ELSE frame
  /\ sinceCount' = IF Counter.base = "frames" /\ sinceCount < TimeCap THEN sinceCount + 1 ELSE sinceCount
  /\ fired' = FALSE
  /\ UNCHANGED <<signal, line, failed, seen, pulseState, sincePulse, position, counted, rested, overwritten>>

NextDoWork ==
  /\ at > 0
  /\ DoWork(signal.order[at])
  /\ fired' = (signal.order[at] = "trigger" /\ ChangeDetected)
  /\ rested' = Rested(fired')
  /\ at' = (at + 1) % (Len(signal.order) + 1)
  /\ UNCHANGED <<signal, frame>>

Disturbed ==
  /\ seen' = Remembered(seen)
  /\ fired' = FALSE
  /\ rested' = Rested(FALSE)
  /\ UNCHANGED <<signal, at, pulseState, sincePulse, position, sinceCount, counted, frame>>

\* other ports, the user or plugins change a line
SetLine ==
  /\ \E p \in signal.touched, v \in Lines :
       /\ line' = [line EXCEPT ![p] = v]
       /\ failed' = failed \ {p}
       /\ overwritten' = overwritten \cup {p}
  /\ Disturbed

SetError ==
  /\ \E p \in (signal.touched \ {"trigger", "pulse"}) \cup {"dial"} : failed' = failed \cup {p}
  /\ UNCHANGED <<line, overwritten>>
  /\ Disturbed

\* the port that holds period and duty cycle has a value again
Recover ==
  /\ "dial" \in failed
  /\ failed' = failed \ {"dial"}
  /\ UNCHANGED <<line, overwritten>>
  /\ Disturbed

Timed == Counter.base = "time" /\ Counter.period > 0
TimePasses ==
  /\ sincePulse < TimeCap \/ (Timed /\ sinceCount < TimeCap)
  /\ sincePulse' = IF sincePulse < TimeCap THEN sincePulse + 1 ELSE sincePulse
  /\ sinceCount' = IF Timed /\ sinceCount < TimeCap THEN sinceCount + 1 ELSE sinceCount
  /\ fired' = FALSE
  /\ UNCHANGED <<signal, line, failed, at, seen, pulseState, position, counted, frame, rested, overwritten>>

SignalNext == NextFrame \/ NextDoWork \/ SetLine \/ SetError \/ Recover \/ TimePasses

\* the main loop goes on, and time does
SignalFairness == WF_signalVars(NextFrame \/ NextDoWork) /\ WF_signalVars(TimePasses)
SignalSpec == SignalInit /\ [][SignalNext]_signalVars /\ SignalFairness

-----------------------------------------------------------------------------
(* Properties *)

\* An output of a Logic port has the line of the port, and an inverse output
\* the opposite, also if it is in both lists, unless something else has set it
\* since, it was in an error state when the line changed, or the line has never
\* changed: doWork writes once per change only.
FollowsLogic ==
  \A p \in (Logic.outputs \cup Logic.inverse) \ overwritten :
    line[p] = IF p \in Logic.inverse THEN Inverted(line["logic"]) ELSE line["logic"]

\* A Trigger port for rising edges that fires has an input that is High and
\* was Low when it fired last or since then, and since it was last disabled:
\* no edge is used twice, and none from the time it was not enabled, however
\* its doWork falls between the changes of its inputs.
FiresOncePerEdge ==
  [][fired' /\ Trigger.edge = "rising" => \E p \in rested : line[p] = High]_signalVars

\* An increment that is longer than the range goes up when it overflows, one
\* of more than twice the range is refused.
IncrementFits ==
  LET range == Counter.max - Counter.min
  IN  Counter.increment <= range \/ Counter.increment > 2 * range

\* A counter that counts up goes down only when it overflows, and the overflow
\* ports say which of the two has happened (doIncrement), unless the increment
\* is longer than the range but not twice as long, see IncrementFits.
OverflowAnnounced ==
  [][Counter.increment > 0 /\ IncrementFits /\ position' # position =>
      \A p \in Counter.overflow : line'[p] = Level(position' < position)]_signalVars

\* Every edge counts once, and what has been counted shows.
EdgesCounted == FiresOncePerEdge /\ OverflowAnnounced

\* When nothing else changes any more the ports that react to changes come to
\* rest, also if they feed each other (a Logic port, a Trigger port behind it
\* and a counter behind that; pulses and counters with a period never rest, and
\* a Logic port with an input in an error state need not).
ComesToRest ==
  Pulse.on \in {0, Pulse.period} /\ Counter.period = 0 =>
    \/ []<><<SetLine \/ SetError \/ Recover>>_signalVars
    \/ []<>(Logic.inputs \cap failed # {})
    \/ <>[][line' = line /\ position' = position]_signalVars

PulseRuns == PulseEnabled /\ "dial" \notin failed

\* A pulse that stays enabled, with a duty cycle between 0 and 100 %, has both
\* an end and a beginning again and again (PulsePort::doWork).
PulseAlternates ==
  0 < Pulse.on /\ Pulse.on < Pulse.period =>
    []<>~PulseRuns \/ ([]<>(pulseState = High) /\ []<>(pulseState = Low))

\* A pulse that stays disabled, or without a valid period, ends in the
\* DisabledState, at whatever moment it is disabled.
DisabledSettles ==
  Pulse.disabled # Unknown => []<>PulseRuns \/ <>[](pulseState = Pulse.disabled)

\* A pulse does what its enabling ports ask for.
PulseFollows == PulseAlternates /\ DisabledSettles

\* A pulse that is among its own outputs and those of the port that enables it
\* resets that port after its High time, not before.
ResetsAfterHighTime ==
  [][\A p \in Pulse.enable \cap Pulse.outputs :
       at > 0 /\ signal.order[at] = "pulse" /\ at' # at /\ line[p] = High /\ line'[p] = Low
       => pulseState = High]_signalVars
=============================================================================
