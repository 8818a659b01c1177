-------------------------- MODULE StandardPortsProofs --------------------------
(***************************************************************************)
(* Proofs about the ports of the standard library.  Every port has an      *)
(* invariant of its own, which its steps keep; in the end they are put     *)
(* together for the specification of all of them, see StandardSpec.        *)
(***************************************************************************)
EXTENDS MCStandardPorts, NaturalRecursion, SequenceTheorems

-----------------------------------------------------------------------------
(* Logic, Pulse, Trigger and Counter ports.  A Trigger port that is        *)
(* disabled remembers no input, and an input that it remembers to be Low   *)
(* has been so since it fired last.                                        *)

EdgeInv ==
  /\ line["trigger"] = Low => \A p \in Trigger.inputs : seen[p] = Unknown
  /\ \A p \in Trigger.inputs : seen[p] = Low => p \in rested

SignalInv == SignalTypeOK /\ signal \in SignalConfigs /\ FollowsLogic /\ EdgeInv

LEMMA SignalConfig ==
  ASSUME signal \in SignalConfigs
  PROVE  /\ signal \in SignalType
         /\ Logic \in LogicType /\ Pulse \in PulseType /\ Trigger \in TriggerType /\ Counter \in CounterType
         /\ signal.order \in Seq({"logic", "pulse", "trigger", "counter"}) /\ signal.touched \subseteq Digital
         /\ Counter.min < Counter.max
         /\ "logic" \notin SettablePorts(signal)
         /\ "logic" \in Digital /\ "pulse" \in Digital /\ "trigger" \in Digital
<1>1. signal \in SignalType
      BY SignalAssumption
<1>2. /\ signal.logic \in LogicType /\ signal.pulse \in PulseType /\ signal.trigger \in TriggerType
      /\ signal.counter \in CounterType
      /\ signal.order \in Seq({"logic", "pulse", "trigger", "counter"}) /\ signal.touched \subseteq Digital
      BY <1>1 DEF SignalType
<1> QED BY <1>1, <1>2, SignalAssumption DEF Logic, Pulse, Trigger, Counter

LEMMA SignalLists ==
  ASSUME signal \in SignalConfigs
  PROVE  /\ Logic.inputs \subseteq Digital /\ Logic.outputs \subseteq Digital /\ Logic.inverse \subseteq Digital
         /\ Pulse.outputs \subseteq Digital /\ Pulse.inverse \subseteq Digital
         /\ Trigger.inputs \subseteq Digital /\ Trigger.outputs \subseteq Digital /\ Trigger.inverse \subseteq Digital
         /\ Counter.underflow \subseteq Digital /\ Counter.overflow \subseteq Digital
         /\ signal.touched \subseteq Digital
BY SignalConfig DEF LogicType, PulseType, TriggerType, CounterType

LEMMA SignalNumbers ==
  ASSUME signal \in SignalConfigs
  PROVE  Counter.min \in Int /\ Counter.max \in Int /\ Counter.min < Counter.max /\ Counter.increment \in Int
BY SignalConfig DEF CounterType

LEMMA LogicIsNotSet ==
  ASSUME signal \in SignalConfigs
  PROVE  /\ "logic" \notin Logic.outputs /\ "logic" \notin Logic.inverse
         /\ "logic" \notin Pulse.outputs /\ "logic" \notin Pulse.inverse
         /\ "logic" \notin Trigger.outputs /\ "logic" \notin Trigger.inverse
         /\ "logic" \notin Counter.underflow /\ "logic" \notin Counter.overflow
         /\ "logic" \notin signal.touched
BY SignalConfig DEF SettablePorts, Logic, Pulse, Trigger, Counter

LEMMA LevelType == \A b : Level(b) \in Lines
BY DEF Level, Lines, Low, High

LEMMA InvertedType == \A v \in Lines : Inverted(v) \in Lines
BY DEF Inverted, Lines, Low, High

LEMMA DrivenType ==
  ASSUME line \in [Digital -> Lines], NEW on, NEW off, NEW v \in Lines
  PROVE  /\ Driven(on, off, v) \in [Digital -> Lines]
         /\ \A p \in Digital : p \notin on \cup off => Driven(on, off, v)[p] = line[p]
         /\ \A p \in Digital : p \in off => Driven(on, off, v)[p] = Inverted(v)
         /\ \A p \in Digital : p \in on \ off => Driven(on, off, v)[p] = v
BY InvertedType DEF Driven

LEMMA SignalStart == SignalInit => SignalInv
<1> SUFFICES ASSUME SignalInit PROVE SignalInv
    OBVIOUS
<1>1. signal \in SignalConfigs
      BY DEF SignalInit
<1>2. signal \in SignalType /\ signal.order \in Seq({"logic", "pulse", "trigger", "counter"})
      BY <1>1, SignalConfig
<1>3. line = [p \in Digital |-> Level(p = "trigger")] /\ line \in [Digital -> Lines]
      BY LevelType DEF SignalInit
<1>4. seen = [p \in Trigger.inputs |-> Unknown] /\ rested = Trigger.inputs
      BY DEF SignalInit
<1>5. seen \in [Trigger.inputs -> Lines \cup {Unknown}]
      BY <1>4
<1>6. position \in Counter.min .. Counter.max
      BY <1>1, SignalNumbers DEF SignalInit
<1>7. sincePulse \in 0 .. TimeCap /\ sinceCount \in 0 .. TimeCap /\ frame \in 0 .. TimeCap
      BY DEF SignalInit, TimeCap
<1>8. at \in 0 .. Len(signal.order)
  <2>1. Len(signal.order) \in Nat
        BY <1>2
  <2> QED BY <2>1 DEF SignalInit
<1>9. overwritten = Logic.inverse \cup (Logic.outputs \cap {"trigger"}) /\ overwritten \in SUBSET Digital
      BY <1>1, SignalLists DEF SignalInit
<1>10. SignalTypeOK
       BY <1>2, <1>3, <1>4, <1>5, <1>6, <1>7, <1>8, <1>9 DEF SignalInit, SignalTypeOK
<1>11. FollowsLogic
  <2> SUFFICES ASSUME NEW p \in (Logic.outputs \cup Logic.inverse) \ overwritten
               PROVE  p \notin Logic.inverse /\ line[p] = line["logic"]
      BY DEF FollowsLogic
  <2>1. p \notin Logic.inverse /\ p # "trigger" /\ p \in Digital
        BY <1>1, <1>9, SignalLists
  <2> QED BY <1>1, <1>3, <2>1, SignalConfig
<1>12. EdgeInv
  <2>1. \A p \in Trigger.inputs : seen[p] = Unknown
        BY <1>4
  <2>2. Unknown # Low
        BY DEF Unknown, Low
  <2> QED BY <2>1, <2>2 DEF EdgeInv
<1> QED BY <1>1, <1>10, <1>11, <1>12 DEF SignalInv

-----------------------------------------------------------------------------
(* How steps keep the parts of the invariant *)

LEMMA FollowsKept ==
  ASSUME FollowsLogic, signal' = signal, overwritten \subseteq overwritten', line'["logic"] = line["logic"],
         \A p \in (Logic.outputs \cup Logic.inverse) \ overwritten' : line'[p] = line[p]
  PROVE  FollowsLogic'
<1>1. Logic' = Logic
      BY DEF Logic
<1> SUFFICES ASSUME NEW p \in (Logic.outputs \cup Logic.inverse) \ overwritten'
             PROVE  line'[p] = IF p \in Logic.inverse THEN Inverted(line'["logic"]) ELSE line'["logic"]
    BY <1>1 DEF FollowsLogic, Inverted
<1>2. line[p] = IF p \in Logic.inverse THEN Inverted(line["logic"]) ELSE line["logic"]
      BY DEF FollowsLogic
<1> QED BY <1>2

LEMMA EdgeKept ==
  ASSUME EdgeInv, signal' = signal, line["trigger"] \in Lines, line'["trigger"] \in Lines,
         seen \in [Trigger.inputs -> Lines \cup {Unknown}],
         seen' = Remembered(seen), rested' = Rested(FALSE)
  PROVE  EdgeInv'
<1>1. Trigger' = Trigger
      BY DEF Trigger
<1>2. Unknown # Low
      BY DEF Unknown, Low
<1>3. CASE line'["trigger"] = Low
  <2>1. \A p \in Trigger.inputs : seen'[p] = Unknown
    <3>1. CASE line["trigger"] = High
          BY <1>3, <3>1 DEF Remembered
    <3>2. CASE line["trigger"] = Low
          BY <3>2 DEF Remembered, EdgeInv, Low, High
    <3> QED BY <3>1, <3>2 DEF Lines
  <2> QED BY <1>1, <1>2, <2>1 DEF EdgeInv
<1>4. CASE line'["trigger"] # Low
  <2>1. seen' = seen
        BY <1>4 DEF Remembered
  <2>2. line["trigger"] # Low => rested \subseteq rested'
        BY <1>4 DEF Rested
  <2>3. \A p \in Trigger.inputs : seen'[p] = Low => p \in rested'
        BY <1>2, <2>1, <2>2 DEF EdgeInv
  <2> QED BY <1>1, <1>4, <2>3 DEF EdgeInv
<1> QED BY <1>3, <1>4

LEMMA RestedType == signal \in SignalConfigs /\ rested \in SUBSET Trigger.inputs => \A b : Rested(b) \in SUBSET Trigger.inputs
BY DEF Rested

LEMMA RememberedType ==
  ASSUME NEW s \in [Trigger.inputs -> Lines \cup {Unknown}]
  PROVE  Remembered(s) \in [Trigger.inputs -> Lines \cup {Unknown}]
BY DEF Remembered

\* what all calls of doWork change
WorkOK ==
  /\ line' \in [Digital -> Lines]
  /\ failed' \in SUBSET (Digital \cup {"dial"})
  /\ seen' \in [Trigger.inputs -> Lines \cup {Unknown}]
  /\ pulseState' \in Lines \cup {Unknown}
  /\ sincePulse' \in 0 .. TimeCap
  /\ position' \in Counter.min .. Counter.max
  /\ sinceCount' \in 0 .. TimeCap
  /\ counted' \in BOOLEAN
  /\ overwritten' \in SUBSET Digital
  /\ FollowsLogic'

LEMMA SignalParts ==
  ASSUME SignalInv
  PROVE  /\ signal \in SignalConfigs /\ line \in [Digital -> Lines] /\ failed \in SUBSET (Digital \cup {"dial"})
         /\ seen \in [Trigger.inputs -> Lines \cup {Unknown}] /\ pulseState \in Lines \cup {Unknown}
         /\ sincePulse \in 0 .. TimeCap /\ position \in Counter.min .. Counter.max
         /\ sinceCount \in 0 .. TimeCap /\ counted \in BOOLEAN /\ overwritten \in SUBSET Digital
         /\ rested \in SUBSET Trigger.inputs /\ FollowsLogic /\ EdgeInv
BY DEF SignalInv, SignalTypeOK

LEMMA LogicOK == ASSUME SignalInv, signal' = signal, LogicDoWork PROVE WorkOK
<1>1. PICK count \in HighCounts :
        LET new == Level(LogicFunction(count) # Logic.negate)
        IN  /\ IF new = line["logic"]
               THEN UNCHANGED <<line, overwritten>>
               ELSE /\ line' = Driven({"logic"} \cup (Logic.outputs \ failed), Logic.inverse \ failed, new)
                    /\ overwritten' = (Logic.outputs \cup Logic.inverse) \cap failed
      BY DEF LogicDoWork
<1>2. seen' = Remembered(seen) /\ UNCHANGED <<failed, pulseState, sincePulse, position, sinceCount, counted>>
      BY DEF LogicDoWork
<1> DEFINE new == Level(LogicFunction(count) # Logic.negate)
           on == {"logic"} \cup (Logic.outputs \ failed)
           off == Logic.inverse \ failed
<1>3. new \in Lines
      BY LevelType
<1>4. /\ signal \in SignalConfigs /\ line \in [Digital -> Lines] /\ overwritten \in SUBSET Digital /\ FollowsLogic
      /\ seen' \in [Trigger.inputs -> Lines \cup {Unknown}]
      BY <1>2, SignalParts, RememberedType
<1> HIDE DEF new
<1>5. /\ line' \in [Digital -> Lines] /\ overwritten' \in SUBSET Digital /\ FollowsLogic'
  <2>1. CASE UNCHANGED <<line, overwritten>>
        BY <1>4, <2>1, FollowsKept
  <2>2. CASE line' = Driven(on, off, new) /\ overwritten' = (Logic.outputs \cup Logic.inverse) \cap failed
    <3>1. line' \in [Digital -> Lines]
          BY <1>3, <1>4, <2>2, DrivenType
    <3>2. overwritten' \in SUBSET Digital
          BY <1>4, <2>2, SignalLists
    <3>3. /\ \A p \in Digital : p \in off => line'[p] = Inverted(new)
          /\ \A p \in Digital : p \in on \ off => line'[p] = new
          BY <1>3, <1>4, <2>2, DrivenType
    <3>4. "logic" \in on \ off /\ "logic" \in Digital
          BY <1>4, LogicIsNotSet, SignalConfig
    <3>5. line'["logic"] = new
          BY <3>3, <3>4
    <3>6. Logic' = Logic
          BY DEF Logic
    <3>7. ASSUME NEW p \in (Logic.outputs \cup Logic.inverse) \ overwritten'
          PROVE  line'[p] = IF p \in Logic.inverse THEN Inverted(new) ELSE new
      <4>1. p \notin failed /\ p \in Digital
            BY <1>4, <2>2, SignalLists
      <4>2. p \in Logic.inverse => p \in off
            BY <4>1
      <4>3. p \notin Logic.inverse => p \in on \ off
            BY <4>1
      <4> QED BY <3>3, <4>1, <4>2, <4>3
    <3> QED BY <3>1, <3>2, <3>5, <3>6, <3>7 DEF FollowsLogic, Inverted
  <2> QED BY <1>1, <2>1, <2>2 DEF new
<1> QED BY <1>2, <1>4, <1>5, SignalParts DEF WorkOK

LEMMA NextPulseType == SignalInv => NextPulse \in Lines \cup {pulseState}
<1>1. signal \in SignalConfigs => Pulse.disabled \in Lines \cup {Unknown}
      BY SignalConfig DEF PulseType
<1> QED BY <1>1, LevelType, SignalParts DEF NextPulse

LEMMA PulseOK == ASSUME SignalInv, signal' = signal, PulseDoWork PROVE WorkOK
<1>1. /\ signal \in SignalConfigs /\ line \in [Digital -> Lines] /\ overwritten \in SUBSET Digital /\ FollowsLogic
      /\ failed \in SUBSET (Digital \cup {"dial"}) /\ pulseState \in Lines \cup {Unknown} /\ sincePulse \in 0 .. TimeCap
      BY SignalParts
<1>2. pulseState' = NextPulse /\ pulseState' \in Lines \cup {pulseState}
      BY NextPulseType DEF PulseDoWork
<1>3. seen' = Remembered(seen) /\ UNCHANGED <<position, sinceCount, counted>>
      BY DEF PulseDoWork
<1>4. seen' \in [Trigger.inputs -> Lines \cup {Unknown}]
      BY <1>3, SignalParts, RememberedType
<1>5. /\ line' \in [Digital -> Lines] /\ failed' \in SUBSET (Digital \cup {"dial"}) /\ overwritten' \in SUBSET Digital
      /\ sincePulse' \in 0 .. TimeCap /\ FollowsLogic'
  <2>1. CASE pulseState' = pulseState
    <3>1. UNCHANGED <<line, failed, sincePulse, overwritten>>
          BY <2>1 DEF PulseDoWork
    <3> QED BY <1>1, <3>1, FollowsKept
  <2>2. CASE pulseState' # pulseState
    <3>1. /\ line' = Driven(Pulse.outputs, Pulse.inverse, pulseState')
          /\ failed' = failed \ (Pulse.outputs \cup Pulse.inverse)
          /\ sincePulse' = 0
          /\ overwritten' = overwritten \cup Pulse.outputs \cup Pulse.inverse
          BY <2>2 DEF PulseDoWork
    <3>2. pulseState' \in Lines
          BY <1>2, <2>2
    <3>3. /\ line' \in [Digital -> Lines]
          /\ \A p \in Digital : p \notin Pulse.outputs \cup Pulse.inverse => line'[p] = line[p]
          BY <1>1, <3>1, <3>2, DrivenType
    <3>4. "logic" \in Digital /\ "logic" \notin Pulse.outputs \cup Pulse.inverse
          BY <1>1, LogicIsNotSet, SignalConfig
    <3>5. overwritten' \in SUBSET Digital
          BY <1>1, <3>1, SignalLists
    <3>6. \A p \in (Logic.outputs \cup Logic.inverse) \ overwritten' : line'[p] = line[p]
          BY <1>1, <3>1, <3>3, SignalLists
    <3>7. FollowsLogic'
          BY <1>1, <3>1, <3>3, <3>4, <3>6, FollowsKept
    <3>8. sincePulse' \in 0 .. TimeCap
          BY <3>1 DEF TimeCap
    <3> QED BY <1>1, <3>1, <3>3, <3>5, <3>7, <3>8
  <2> QED BY <2>1, <2>2
<1> QED BY <1>1, <1>2, <1>3, <1>4, <1>5, SignalParts DEF WorkOK

-----------------------------------------------------------------------------
(* The Counter port, which a Trigger port may increment *)

LEMMA IncrementedType ==
  ASSUME SignalInv
  PROVE  \A i \in Int : Incremented(i) \in Counter.min .. Counter.max
BY SignalParts DEF Incremented, Refused

LEMMA FlowType ==
  ASSUME signal \in SignalConfigs
  PROVE  \A i : FlowPorts(i) \subseteq Digital /\ "logic" \notin FlowPorts(i) /\ FlowLine(i) \in Lines
BY SignalLists, LogicIsNotSet, LevelType DEF FlowPorts, FlowLine

LEMMA CounterOK == ASSUME SignalInv, signal' = signal, CounterDoWork PROVE WorkOK
<1>1. /\ signal \in SignalConfigs /\ line \in [Digital -> Lines] /\ overwritten \in SUBSET Digital /\ FollowsLogic
      /\ failed \in SUBSET (Digital \cup {"dial"}) /\ position \in Counter.min .. Counter.max
      /\ sinceCount \in 0 .. TimeCap /\ counted \in BOOLEAN
      BY SignalParts
<1>2. seen' = Remembered(seen) /\ UNCHANGED <<pulseState, sincePulse>>
      BY DEF CounterDoWork
<1>3. seen' \in [Trigger.inputs -> Lines \cup {Unknown}]
      BY <1>2, SignalParts, RememberedType
<1>4. sinceCount' \in 0 .. TimeCap
  <2>1. sinceCount' \in {0, sinceCount}
        BY DEF CounterDoWork
  <2> QED BY <1>1, <2>1 DEF TimeCap
<1>5. counted' \in BOOLEAN
      BY DEF CounterDoWork
<1> DEFINE flow == FlowPorts(Counter.increment)
<1>6. CASE UNCHANGED <<position, line, failed, overwritten>>
      BY <1>1, <1>2, <1>3, <1>4, <1>5, <1>6, FollowsKept, SignalParts DEF WorkOK
<1>7. CASE /\ position' = Incremented(Counter.increment)
           /\ line' = Driven(flow, {}, FlowLine(Counter.increment))
           /\ failed' = failed \ flow
           /\ overwritten' = overwritten \cup flow
  <2>1. flow \subseteq Digital /\ "logic" \notin flow /\ FlowLine(Counter.increment) \in Lines
        BY <1>1, FlowType
  <2>2. position' \in Counter.min .. Counter.max
        BY <1>1, <1>7, IncrementedType, SignalNumbers
  <2> HIDE DEF flow
  <2>3. /\ line' \in [Digital -> Lines]
        /\ \A p \in Digital : p \notin flow \cup {} => line'[p] = line[p]
        BY <1>1, <1>7, <2>1, DrivenType
  <2>4. \A p \in (Logic.outputs \cup Logic.inverse) \ overwritten' : line'[p] = line[p]
        BY <1>1, <1>7, <2>3, SignalLists
  <2>5. line'["logic"] = line["logic"]
        BY <1>1, <2>1, <2>3, SignalConfig
  <2>6. FollowsLogic'
        BY <1>1, <1>7, <2>4, <2>5, FollowsKept
  <2>7. failed' \in SUBSET (Digital \cup {"dial"}) /\ overwritten' \in SUBSET Digital
        BY <1>1, <1>7, <2>1
  <2> QED BY <1>2, <1>3, <1>4, <1>5, <2>2, <2>3, <2>6, <2>7, SignalParts DEF WorkOK
<1> QED BY <1>6, <1>7 DEF CounterDoWork

-----------------------------------------------------------------------------
(* The Trigger port *)

\* the ports that a Trigger port sets
TriggeredPorts == Trigger.outputs \cup Trigger.inverse \cup TriggeredFlow

LEMMA TriggeredPortsType ==
  ASSUME signal \in SignalConfigs
  PROVE  TriggeredPorts \subseteq Digital /\ "logic" \notin TriggeredPorts
BY SignalLists, LogicIsNotSet, FlowType DEF TriggeredPorts, TriggeredFlow

LEMMA TriggeredLinesType ==
  ASSUME SignalInv
  PROVE  /\ TriggeredLines \in [Digital -> Lines]
         /\ \A p \in Digital \ TriggeredPorts : TriggeredLines[p] = line[p]
<1>1. signal \in SignalConfigs /\ line \in [Digital -> Lines]
      BY SignalParts
<1>2. ASSUME NEW p \in Digital PROVE TriggeredLines[p] \in Lines
  <2>1. line[p] \in Lines /\ Inverted(line[p]) \in Lines /\ FlowLine(1) \in Lines
        BY <1>1, FlowType, InvertedType
  <2> QED BY <2>1, LevelType DEF TriggeredLines
<1>3. ASSUME NEW p \in Digital \ TriggeredPorts PROVE TriggeredLines[p] = line[p]
      BY <1>3 DEF TriggeredLines, TriggeredPorts
<1> QED BY <1>2, <1>3 DEF TriggeredLines

LEMMA TriggerOK == ASSUME SignalInv, signal' = signal, TriggerDoWork PROVE WorkOK
<1>1. /\ signal \in SignalConfigs /\ line \in [Digital -> Lines] /\ overwritten \in SUBSET Digital /\ FollowsLogic
      /\ failed \in SUBSET (Digital \cup {"dial"}) /\ position \in Counter.min .. Counter.max
      /\ sinceCount \in 0 .. TimeCap /\ counted \in BOOLEAN /\ seen \in [Trigger.inputs -> Lines \cup {Unknown}]
      BY SignalParts
<1>2. UNCHANGED <<pulseState, sincePulse>>
      BY DEF TriggerDoWork
<1>3. seen' \in [Trigger.inputs -> Lines \cup {Unknown}]
  <2>1. Observed \in [Trigger.inputs -> Lines \cup {Unknown}]
        BY <1>1, SignalLists DEF Observed
  <2> QED BY <1>1, <2>1, RememberedType DEF TriggerDoWork
<1>4. CASE UNCHANGED <<line, failed, overwritten, position, sinceCount, counted>>
      BY <1>1, <1>2, <1>3, <1>4, FollowsKept, SignalParts DEF WorkOK
<1>5. CASE ChangeDetected
  <2>1. /\ line' = TriggeredLines
        /\ overwritten' = overwritten \cup Trigger.outputs \cup Trigger.inverse \cup TriggeredFlow
        BY <1>5 DEF TriggerDoWork
  <2>2. position' \in {Incremented(1), position} /\ sinceCount' \in {0, sinceCount} /\ failed' \subseteq failed
        BY <1>5 DEF TriggerDoWork
  <2>3. counted' \in BOOLEAN
        BY <1>5 DEF TriggerDoWork
  <2>4. position' \in Counter.min .. Counter.max
        BY <1>1, <2>2, IncrementedType
  <2>5. sinceCount' \in 0 .. TimeCap
        BY <1>1, <2>2 DEF TimeCap
  <2>6. overwritten' = overwritten \cup TriggeredPorts
        BY <2>1 DEF TriggeredPorts
  <2>7. line' \in [Digital -> Lines] /\ \A p \in Digital \ TriggeredPorts : line'[p] = line[p]
        BY <2>1, TriggeredLinesType
  <2>8. line'["logic"] = line["logic"]
        BY <1>1, <2>7, TriggeredPortsType, SignalConfig
  <2>9. \A p \in (Logic.outputs \cup Logic.inverse) \ overwritten' : line'[p] = line[p]
        BY <1>1, <2>6, <2>7, SignalLists
  <2>10. FollowsLogic'
         BY <1>1, <2>6, <2>8, <2>9, FollowsKept
  <2>11. overwritten' \in SUBSET Digital /\ failed' \in SUBSET (Digital \cup {"dial"})
         BY <1>1, <2>2, <2>6, TriggeredPortsType
  <2> QED BY <1>2, <1>3, <2>3, <2>4, <2>5, <2>7, <2>10, <2>11, SignalParts DEF WorkOK
<1> QED BY <1>4, <1>5 DEF TriggerDoWork

LEMMA TriggerEdges ==
  ASSUME SignalInv, signal' = signal, TriggerDoWork, line' \in [Digital -> Lines], rested' = Rested(ChangeDetected)
  PROVE  EdgeInv'
<1>1. /\ signal \in SignalConfigs /\ line \in [Digital -> Lines] /\ seen \in [Trigger.inputs -> Lines \cup {Unknown}]
      /\ EdgeInv /\ Trigger' = Trigger
      BY SignalParts DEF Trigger
<1>2. Trigger.inputs \subseteq Digital /\ "trigger" \in Digital
      BY <1>1, SignalLists, SignalConfig
<1>3. line["trigger"] \in Lines /\ line'["trigger"] \in Lines
      BY <1>1, <1>2
<1>4. Unknown # Low /\ High # Low
      BY DEF Unknown, Low, High
<1>5. CASE line["trigger"] = Low
  <2>1. ~ChangeDetected /\ seen' = seen
        BY <1>4, <1>5 DEF ChangeDetected, TriggerDoWork
  <2>2. \A p \in Trigger.inputs : seen'[p] = Unknown
        BY <1>1, <1>5, <2>1 DEF EdgeInv
  <2> QED BY <1>1, <1>4, <2>2 DEF EdgeInv
<1>6. CASE line["trigger"] # Low
  <2>1. seen' = Remembered(Observed) /\ line["trigger"] = High
        BY <1>3, <1>6 DEF TriggerDoWork, Lines
  <2>2. CASE line'["trigger"] = Low
    <3>1. \A p \in Trigger.inputs : seen'[p] = Unknown
          BY <2>1, <2>2 DEF Remembered
    <3> QED BY <1>1, <1>4, <3>1 DEF EdgeInv
  <2>3. CASE line'["trigger"] # Low
    <3>1. seen' = Observed
          BY <2>1, <2>3 DEF Remembered
    <3>2. ASSUME NEW p \in Trigger.inputs, seen'[p] = Low PROVE p \in rested'
      <4>1. line[p] = Low
            BY <1>4, <3>1, <3>2 DEF Observed
      <4>2. CASE ChangeDetected
            BY <1>6, <2>3, <4>1, <4>2 DEF Rested
      <4>3. CASE ~ChangeDetected
        <5>1. line' = line
              BY <4>3 DEF TriggerDoWork
        <5> QED BY <2>3, <4>1, <5>1 DEF Rested
      <4> QED BY <4>2, <4>3
    <3> QED BY <1>1, <2>3, <3>2 DEF EdgeInv
  <2> QED BY <2>2, <2>3
<1> QED BY <1>5, <1>6

-----------------------------------------------------------------------------
(* All steps *)

LEMMA RoundRobin == ASSUME NEW n \in Nat, NEW x \in 0 .. n PROVE (x + 1) % (n + 1) \in 0 .. n
<1>1. CASE x < n
  <2>1. x + 1 \in 0 .. n /\ x + 1 < n + 1
        BY <1>1
  <2>2. (x + 1) % (n + 1) = x + 1
        BY <2>1
  <2> QED BY <2>1, <2>2
<1>2. CASE x = n
  <2>1. (n + 1) % (n + 1) = 0
        OBVIOUS
  <2> QED BY <1>2, <2>1
<1> QED BY <1>1, <1>2

LEMMA WorkStep == ASSUME SignalInv, NextDoWork PROVE SignalInv'
<1>1. signal' = signal /\ signal \in SignalConfigs /\ SignalTypeOK
      BY DEF NextDoWork, SignalInv
<1>2. at \in 1 .. Len(signal.order) /\ signal.order \in Seq({"logic", "pulse", "trigger", "counter"})
      /\ Len(signal.order) \in Nat
  <2>1. signal.order \in Seq({"logic", "pulse", "trigger", "counter"})
        BY <1>1, SignalConfig
  <2>2. Len(signal.order) \in Nat
        BY <2>1
  <2>3. at \in 0 .. Len(signal.order) /\ at > 0
        BY <1>1 DEF SignalTypeOK, NextDoWork
  <2> QED BY <2>1, <2>2, <2>3
<1> DEFINE port == signal.order[at]
<1>3. port \in {"logic", "pulse", "trigger", "counter"}
      BY <1>2
<1>4. DoWork(port) /\ rested' = Rested(fired') /\ fired' = (port = "trigger" /\ ChangeDetected) /\ frame' = frame
        /\ at' = (at + 1) % (Len(signal.order) + 1)
      BY DEF NextDoWork
<1> HIDE DEF port
<1>5. WorkOK
      BY <1>1, <1>3, <1>4, LogicOK, PulseOK, TriggerOK, CounterOK DEF DoWork
<1>6. at' \in 0 .. Len(signal.order)
  <2>1. at \in 0 .. Len(signal.order)
        BY <1>2
  <2>2. (at + 1) % (Len(signal.order) + 1) \in 0 .. Len(signal.order)
        BY <1>2, <2>1, RoundRobin, Zenon
  <2> QED BY <1>4, <2>2, Zenon
<1>7. fired' \in BOOLEAN
      BY <1>4
<1>8. rested' \in SUBSET Trigger.inputs
      BY <1>1, <1>4, RestedType, SignalParts
<1>9. EdgeInv'
  <2>1. CASE port = "trigger"
    <3>1. TriggerDoWork
          BY <1>4, <2>1 DEF DoWork
    <3>2. fired' = ChangeDetected
          BY <1>4, <2>1, Zenon DEF ChangeDetected
    <3>3. rested' = Rested(ChangeDetected)
          BY <1>4, <3>2
    <3> QED BY <1>1, <1>5, <3>1, <3>3, TriggerEdges DEF WorkOK
  <2>2. CASE port # "trigger"
    <3>1. fired' = FALSE /\ rested' = Rested(FALSE)
          BY <1>4, <2>2
    <3>2. seen' = Remembered(seen)
          BY <1>3, <1>4, <2>2 DEF DoWork, LogicDoWork, PulseDoWork, CounterDoWork
    <3>3. line["trigger"] \in Lines /\ line'["trigger"] \in Lines
          BY <1>1, <1>5, SignalParts, SignalConfig DEF WorkOK
    <3> QED BY <1>1, <3>1, <3>2, <3>3, SignalParts, EdgeKept
  <2> QED BY <2>1, <2>2
<1>10. SignalTypeOK'
       BY <1>1, <1>4, <1>5, <1>6, <1>7, <1>8 DEF SignalTypeOK, WorkOK, Trigger, Counter
<1> QED BY <1>1, <1>5, <1>9, <1>10 DEF SignalInv, WorkOK

LEMMA DisturbedStep ==
  ASSUME SignalInv, Disturbed, line' \in [Digital -> Lines], failed' \in SUBSET (Digital \cup {"dial"}),
         overwritten' \in SUBSET Digital, overwritten \subseteq overwritten', line'["logic"] = line["logic"],
         \A p \in (Logic.outputs \cup Logic.inverse) \ overwritten' : line'[p] = line[p]
  PROVE  SignalInv'
<1>1. /\ signal' = signal /\ signal \in SignalConfigs /\ SignalTypeOK
      /\ UNCHANGED <<at, pulseState, sincePulse, position, sinceCount, counted, frame>>
      BY DEF Disturbed, SignalInv
<1>2. seen' = Remembered(seen) /\ rested' = Rested(FALSE) /\ fired' = FALSE
      BY DEF Disturbed
<1>3. seen' \in [Trigger.inputs -> Lines \cup {Unknown}] /\ rested' \in SUBSET Trigger.inputs
      BY <1>1, <1>2, RememberedType, RestedType, SignalParts
<1>4. EdgeInv'
  <2>1. line["trigger"] \in Lines /\ line'["trigger"] \in Lines
        BY <1>1, SignalParts, SignalConfig
  <2> QED BY <1>1, <1>2, <2>1, SignalParts, EdgeKept
<1>5. FollowsLogic'
      BY <1>1, FollowsKept, SignalParts
<1>6. SignalTypeOK'
      BY <1>1, <1>2, <1>3 DEF SignalTypeOK, Trigger, Counter
<1> QED BY <1>1, <1>4, <1>5, <1>6 DEF SignalInv

LEMMA TimeStep ==
  ASSUME SignalInv, UNCHANGED <<signal, line, failed, seen, pulseState, position, counted, rested, overwritten>>,
         at' \in 0 .. Len(signal.order), sincePulse' \in 0 .. TimeCap, sinceCount' \in 0 .. TimeCap,
         frame' \in 0 .. TimeCap, fired' \in BOOLEAN
  PROVE  SignalInv'
<1>1. SignalTypeOK'
      BY DEF SignalInv, SignalTypeOK, Trigger, Counter
<1>2. FollowsLogic' /\ EdgeInv'
      BY DEF SignalInv, FollowsLogic, EdgeInv, Logic, Trigger, Inverted
<1> QED BY <1>1, <1>2 DEF SignalInv

LEMMA SignalStep == SignalInv /\ [SignalNext]_signalVars => SignalInv'
<1> SUFFICES ASSUME SignalInv, [SignalNext]_signalVars PROVE SignalInv'
    OBVIOUS
<1>1. /\ signal \in SignalConfigs /\ at \in 0 .. Len(signal.order) /\ sincePulse \in 0 .. TimeCap
      /\ sinceCount \in 0 .. TimeCap /\ frame \in 0 .. TimeCap /\ fired \in BOOLEAN
      BY DEF SignalInv, SignalTypeOK
<1>2. Len(signal.order) \in Nat
  <2>1. signal.order \in Seq({"logic", "pulse", "trigger", "counter"})
        BY <1>1, SignalConfig
  <2> QED BY <2>1
<1>3. CASE NextFrame
  <2>1. UNCHANGED <<signal, line, failed, seen, pulseState, sincePulse, position, counted, rested, overwritten>>
        BY <1>3 DEF NextFrame
  <2>2. frame' \in 0 .. TimeCap /\ sinceCount' \in 0 .. TimeCap
        BY <1>1, <1>3 DEF NextFrame, TimeCap
  <2>3. fired' \in BOOLEAN
        BY <1>3 DEF NextFrame
  <2>4. at' \in 0 .. Len(signal.order)
    <3>1. at' = 1 /\ signal.order # <<>>
          BY <1>1, <1>3, SignalAssumption DEF NextFrame
    <3>2. signal.order \in Seq({"logic", "pulse", "trigger", "counter"})
          BY <1>1, SignalConfig
    <3>3. Len(signal.order) >= 1
          BY <3>1, <3>2
    <3> QED BY <3>1, <3>3, <1>2
  <2> QED BY <1>1, <2>1, <2>2, <2>3, <2>4, TimeStep
<1>4. CASE NextDoWork
      BY <1>4, WorkStep
<1>5. CASE SetLine
  <2>1. PICK p \in signal.touched, v \in Lines :
          line' = [line EXCEPT ![p] = v] /\ failed' = failed \ {p} /\ overwritten' = overwritten \cup {p}
        BY <1>5 DEF SetLine
  <2>2. p \in Digital /\ p # "logic" /\ "logic" \in Digital
        BY <1>1, SignalLists, LogicIsNotSet, SignalConfig
  <2>3. /\ line' \in [Digital -> Lines] /\ line'["logic"] = line["logic"]
        /\ \A q \in Digital : q # p => line'[q] = line[q]
        BY <2>1, <2>2, SignalParts
  <2>4. /\ failed' \in SUBSET (Digital \cup {"dial"}) /\ overwritten' \in SUBSET Digital
        /\ overwritten \subseteq overwritten' /\ p \in overwritten'
        BY <2>1, <2>2, SignalParts
  <2>5. \A q \in (Logic.outputs \cup Logic.inverse) \ overwritten' : line'[q] = line[q]
        BY <1>1, <2>3, <2>4, SignalLists
  <2> QED BY <1>5, <2>3, <2>4, <2>5, DisturbedStep DEF SetLine
<1>6. CASE SetError \/ Recover
  <2>1. Disturbed /\ UNCHANGED <<line, overwritten>>
        BY <1>6 DEF SetError, Recover
  <2>2. failed' \in SUBSET (Digital \cup {"dial"})
        BY <1>1, <1>6, SignalLists, SignalParts DEF SetError, Recover
  <2> QED BY <2>1, <2>2, SignalParts, DisturbedStep
<1>7. CASE TimePasses
  <2>1. UNCHANGED <<signal, line, failed, at, seen, pulseState, position, counted, frame, rested, overwritten>>
        BY <1>7 DEF TimePasses
  <2>2. sincePulse' \in 0 .. TimeCap /\ sinceCount' \in 0 .. TimeCap
        BY <1>1, <1>7 DEF TimePasses, TimeCap
  <2>3. fired' \in BOOLEAN
        BY <1>7 DEF TimePasses
  <2> QED BY <1>1, <2>1, <2>2, <2>3, TimeStep
<1>8. CASE UNCHANGED signalVars
      BY <1>1, <1>8, TimeStep DEF signalVars
<1> QED BY <1>3, <1>4, <1>5, <1>6, <1>7, <1>8 DEF SignalNext

-----------------------------------------------------------------------------
(* What a step does: no edge is used twice, and an overflow is announced *)

FiresOnEdge == fired' /\ Trigger.edge = "rising" => \E p \in rested : line[p] = High

LEMMA FiringStep == SignalInv /\ SignalNext => FiresOnEdge
<1> SUFFICES ASSUME SignalInv, SignalNext, fired', Trigger.edge = "rising" PROVE \E p \in rested : line[p] = High
    BY DEF FiresOnEdge
<1>1. NextDoWork
      BY DEF SignalNext, NextFrame, SetLine, SetError, Recover, TimePasses, Disturbed
<1>2. ChangeDetected
      BY <1>1 DEF NextDoWork
<1>3. PICK p \in Trigger.inputs \ failed : seen[p] # Unknown /\ IsEdge(seen[p], line[p])
      BY <1>2 DEF ChangeDetected
<1>4. seen[p] = Low /\ line[p] = High
      BY <1>3 DEF IsEdge
<1> QED BY <1>3, <1>4, SignalParts DEF EdgeInv

Announces ==
  Counter.increment > 0 /\ IncrementFits /\ position' # position =>
    \A p \in Counter.overflow : line'[p] = Level(position' < position)

\* an increment that goes up goes down when it overflows
LEMMA GoesRound ==
  ASSUME NEW low \in Int, NEW high \in Int, low < high, NEW x \in low .. high, NEW i \in Int, i > 0,
         i <= high - low \/ i > 2 * (high - low), NEW y \in low .. high,
         y = (IF x + i > high THEN low + (x + i - high) ELSE x + i), y # x
  PROVE  (y < x) <=> x + i \notin low .. high
OBVIOUS

LEMMA IncrementAnnounced ==
  ASSUME SignalInv, NEW i \in Int, i > 0, i <= Counter.max - Counter.min \/ i > 2 * (Counter.max - Counter.min),
         position' = Incremented(i), position' # position
  PROVE  Level(position' < position) = FlowLine(i)
<1>1. signal \in SignalConfigs /\ position \in Counter.min .. Counter.max
      BY SignalParts
<1>2. Counter.min \in Int /\ Counter.max \in Int /\ Counter.min < Counter.max
      BY <1>1, SignalNumbers
<1>3. ~Refused(i) /\ position' = Wrapped(i)
      BY DEF Incremented
<1>4. position' \in Counter.min .. Counter.max
      BY <1>3 DEF Refused
<1>5. position' = IF position + i > Counter.max THEN Counter.min + (position + i - Counter.max) ELSE position + i
      BY <1>1, <1>2, <1>3 DEF Wrapped
<1>6. (position' < position) <=> position + i \notin Counter.min .. Counter.max
      BY <1>1, <1>2, <1>4, <1>5, GoesRound
<1> QED BY <1>6 DEF Level, FlowLine

LEMMA AnnouncingStep == SignalInv /\ SignalNext => Announces
<1> SUFFICES ASSUME SignalInv, SignalNext, Counter.increment > 0, IncrementFits, position' # position,
                    NEW p \in Counter.overflow
             PROVE  line'[p] = Level(position' < position)
    BY DEF Announces
<1>1. signal \in SignalConfigs /\ line \in [Digital -> Lines]
      BY SignalParts
<1>2. Counter.min \in Int /\ Counter.max \in Int /\ Counter.min < Counter.max /\ Counter.increment \in Int
      BY <1>1, SignalNumbers
<1>3. p \in Digital
      BY <1>1, SignalLists
<1>4. NextDoWork
      BY DEF SignalNext, NextFrame, SetLine, SetError, Recover, TimePasses, Disturbed
<1>5. CASE CounterDoWork
  <2> DEFINE i == Counter.increment
  <2>1. position' = Incremented(i) /\ line' = Driven(FlowPorts(i), {}, FlowLine(i))
        BY <1>5 DEF CounterDoWork
  <2>2. FlowPorts(i) = Counter.overflow
        BY <1>2 DEF FlowPorts
  <2>3. line'[p] = FlowLine(i)
        BY <1>3, <2>1, <2>2 DEF Driven
  <2>4. i <= Counter.max - Counter.min \/ i > 2 * (Counter.max - Counter.min)
        BY DEF IncrementFits
  <2> HIDE DEF i
  <2>5. i \in Int /\ i > 0
        BY <1>2 DEF i
  <2> QED BY <2>1, <2>3, <2>4, <2>5, IncrementAnnounced
<1>6. CASE TriggerDoWork
  <2>1. PICK i \in {1} : i = 1
        OBVIOUS
  <2>2. position' = Incremented(i) /\ Trigger.counts /\ line' = TriggeredLines
        BY <1>6, <2>1 DEF TriggerDoWork
  <2>3. FlowPorts(1) = Counter.overflow
        BY DEF FlowPorts
  <2>4. line'[p] = FlowLine(i)
        BY <1>3, <2>1, <2>2, <2>3 DEF TriggeredLines, TriggeredFlow
  <2>5. i \in Int /\ i > 0 /\ i <= Counter.max - Counter.min
        BY <1>2, <2>1
  <2> QED BY <2>2, <2>4, <2>5, IncrementAnnounced
<1>7. CASE LogicDoWork \/ PulseDoWork
      BY <1>7 DEF LogicDoWork, PulseDoWork
<1>8. signal.order[at] \in {"logic", "pulse", "trigger", "counter"}
  <2>1. signal.order \in Seq({"logic", "pulse", "trigger", "counter"}) /\ at \in 0 .. Len(signal.order) /\ at > 0
        BY <1>1, <1>4, SignalConfig DEF SignalInv, SignalTypeOK, NextDoWork
  <2>2. Len(signal.order) \in Nat
        BY <2>1
  <2>3. at \in 1 .. Len(signal.order)
        BY <2>1, <2>2
  <2> QED BY <2>1, <2>3
<1> QED BY <1>4, <1>5, <1>6, <1>7, <1>8 DEF NextDoWork, DoWork

-----------------------------------------------------------------------------
(* The SceneSelect port with its Selector ports.  A change of the position *)
(* is noted as a selection.                                                *)

SelectInv == SelectTypeOK /\ SceneApplied

\* the states of the ports while settings are applied
RoomStates ==
  [room : Positions, error : BOOLEAN, set : BOOLEAN, sel : [Selectors -> 0 .. 1],
   out : [Selectors -> 0 .. 1], lamp : 0 .. 1]

\* The position is as it has been, or a selection has been noted.
Noted(s, r) == (r.room = s.room /\ r.set = s.set) \/ r.set

LEMMA NowType == SelectTypeOK => Now \in RoomStates
BY DEF SelectTypeOK, Now, RoomStates

LEMMA ScenesAre ==
  ASSUME SelectTypeOK
  PROVE  /\ scenes \in Seq(Seq(SettingType)) /\ scenes[room + 1] \in Seq(SettingType) /\ room + 1 \in DOMAIN scenes
<1>1. scenes \in Seq(Seq(SettingType))
      BY SelectAssumption DEF SelectTypeOK
<1>2. room \in 0 .. Len(scenes) - 1 /\ Len(scenes) \in Nat
      BY <1>1 DEF SelectTypeOK, Positions
<1>3. room + 1 \in 1 .. Len(scenes)
      BY <1>2
<1> QED BY <1>1, <1>3

LEMMA SelectType ==
  ASSUME NEW s \in RoomStates, NEW p
  PROVE  Select(s, p) \in RoomStates /\ Select(s, p).set
<1>1. CASE p \in Positions
      BY <1>1 DEF Select, RoomStates
<1>2. CASE p \notin Positions
      BY <1>2 DEF Select, RoomStates
<1> QED BY <1>1, <1>2

LEMMA SetSelectorType ==
  ASSUME NEW s \in RoomStates, NEW c \in Selectors, NEW v \in 0 .. 1
  PROVE  SetSelector(s, c, v) \in RoomStates /\ Noted(s, SetSelector(s, c, v))
<1> DEFINE chosen == IF v = 1 THEN Select(s, SelectorPosition[c]) ELSE s
<1>1. chosen \in RoomStates /\ Noted(s, chosen)
      BY SelectType DEF Noted
<1>2. SetSelector(s, c, v) = [chosen EXCEPT !.sel[c] = v, !.out[c] = v]
      BY DEF SetSelector
<1> HIDE DEF chosen
<1>3. [chosen EXCEPT !.sel[c] = v, !.out[c] = v] \in RoomStates
      BY <1>1 DEF RoomStates
<1>4. /\ [chosen EXCEPT !.sel[c] = v, !.out[c] = v].room = chosen.room
      /\ [chosen EXCEPT !.sel[c] = v, !.out[c] = v].set = chosen.set
      BY <1>1 DEF RoomStates
<1> QED BY <1>1, <1>2, <1>3, <1>4 DEF Noted

LEMMA ApplyType ==
  ASSUME NEW s \in RoomStates, NEW g \in SettingType
  PROVE  Apply(s, g) \in RoomStates /\ (g.port = "lamp" => Apply(s, g).room = s.room)
<1>1. g.port \in {"room", "lamp"} \cup Selectors /\ (g.port # "room" => g.value \in 0 .. 1)
      BY DEF SettingType
<1>2. CASE g.port = "room"
      BY <1>2, SelectType DEF Apply
<1>3. CASE g.port = "lamp"
      BY <1>1, <1>3 DEF Apply, RoomStates
<1>4. CASE g.port \in Selectors /\ g.port \notin {"room", "lamp"}
      BY <1>1, <1>4, SetSelectorType DEF Apply
<1> QED BY <1>1, <1>2, <1>3, <1>4

\* What every section of a scene keeps the whole scene keeps.
LEMMA ApplyAllKeeps ==
  ASSUME NEW settings \in Seq(SettingType), NEW V, NEW s \in V,
         \A r \in V, k \in DOMAIN settings : Apply(r, settings[k]) \in V
  PROVE  ApplyAll(s, settings) \in V
<1> DEFINE N == Len(settings)
           step == [x \in (1 .. N) \X V |-> Apply(x[2], settings[x[1]])]
           Def(g) == [n \in 0 .. N |-> IF n = 0 THEN s ELSE Apply(g[n - 1], settings[n])]
           after == CHOOSE g : g = Def(g)
<1>1. N \in Nat /\ DOMAIN settings = 1 .. N
      OBVIOUS
<1>2. step \in [(1 .. N) \X V -> V]
      BY <1>1
<1>3. \A n \in 1 .. N, r \in V : step[<<n, r>>] = Apply(r, settings[n])
      OBVIOUS
<1> HIDE DEF step, N, Def
<1>4. PICK f : f \in [0 .. N -> V] /\ f[0] = s /\ \A n \in 1 .. N : f[n] = step[<<n, f[n - 1]>>]
  <2>1. PICK f : Iterates(f, V, s, N, step)
        BY <1>1, <1>2, Recursion
  <2> QED BY <2>1 DEF Iterates
<1>5. \A n \in 0 .. N : n # 0 => n \in 1 .. N /\ n - 1 \in 0 .. N
      BY <1>1
<1>6. \A n \in 1 .. N : n - 1 \in 0 .. N /\ n \in 0 .. N /\ n # 0
      BY <1>1
<1>7. \A n \in 1 .. N : f[n] = Apply(f[n - 1], settings[n])
      BY <1>3, <1>4, <1>6
<1>8. f = Def(f)
      BY <1>4, <1>5, <1>7 DEF Def
<1>9. after = Def(after)
      BY <1>8
<1> HIDE DEF after
<1>10. after[0] = s
  <2>1. 0 \in 0 .. N
        BY <1>1
  <2> QED BY <1>9, <2>1 DEF Def
<1>11. \A n \in 1 .. N : after[n] = Apply(after[n - 1], settings[n])
       BY <1>6, <1>9 DEF Def
<1> DEFINE T == {n \in Nat : n <= N => after[n] \in V}
<1>12. 0 \in T
       BY <1>10
<1>13. ASSUME NEW n \in Nat, n \in T PROVE n + 1 \in T
  <2> SUFFICES ASSUME n + 1 <= N PROVE after[n + 1] \in V
      OBVIOUS
  <2>1. n <= N /\ n + 1 \in 1 .. N /\ (n + 1) - 1 = n
        BY <1>1
  <2>2. after[n] \in V
        BY <1>13, <2>1
  <2> QED BY <1>1, <1>11, <2>1, <2>2
<1> HIDE DEF T
<1>14. N \in T
       BY <1>1, <1>12, <1>13, Induction
<1>15. after[N] \in V
       BY <1>1, <1>14 DEF T
<1>16. ApplyAll(s, settings) = after[N]
       BY DEF ApplyAll, after, Def, N
<1> QED BY <1>15, <1>16

LEMMA SelectStart == SelectInit => SelectInv
<1> SUFFICES ASSUME SelectInit PROVE SelectInv
    OBVIOUS
<1>1. selLine \in [Selectors -> 0 .. 1] /\ outLine \in [Selectors -> 0 .. 1] /\ lamp \in 0 .. 1 /\ detector \in 0 .. 1
      BY DEF SelectInit
<1>2. working \in 1 .. Len(WorkOrder)
  <2>1. WorkOrder \in Seq(Selectors \cup {"scene", "detector"}) /\ WorkOrder # <<>>
        BY SelectAssumption
  <2>2. Len(WorkOrder) \in Nat /\ Len(WorkOrder) # 0
        BY <2>1
  <2> QED BY <2>2 DEF SelectInit
<1>3. roomError \in BOOLEAN /\ applied = Undefined /\ room \in Positions /\ scenes \in SceneFiles
      BY DEF SelectInit
<1>4. positionSet \in BOOLEAN
  <2>1. positionSet = (room > 0)
        BY DEF SelectInit
  <2>2. (room > 0) \in BOOLEAN
        OBVIOUS
  <2> QED BY <2>1, <2>2, Zenon
<1> QED BY <1>1, <1>2, <1>3, <1>4 DEF SelectInv, SelectTypeOK, SceneApplied

\* how a change of the ports keeps the invariant
LEMMA BecomeKeeps ==
  ASSUME SelectInv, NEW s \in RoomStates, Noted(Now, s), Become(s),
         UNCHANGED <<scenes, detector, applied>>, working' \in 1 .. Len(WorkOrder)
  PROVE  SelectInv'
<1>1. SelectTypeOK'
      BY DEF Become, SelectInv, SelectTypeOK, RoomStates, Positions
<1>2. (room' = room /\ positionSet' = positionSet) \/ positionSet'
      BY DEF Become, Noted, Now
<1>3. PlainScenes' = PlainScenes
      BY DEF PlainScenes
<1> QED BY <1>1, <1>2, <1>3 DEF SelectInv, SceneApplied

LEMMA NextWorking == SelectTypeOK /\ WorkDone => working' \in 1 .. Len(WorkOrder)
<1>1. WorkOrder \in Seq(Selectors \cup {"scene", "detector"}) /\ WorkOrder # <<>>
      BY SelectAssumption
<1>2. Len(WorkOrder) \in Nat \ {0}
      BY <1>1
<1> QED BY <1>2 DEF SelectTypeOK, WorkDone

LEMMA SelectorWork ==
  ASSUME SelectInv, NEW c \in Selectors, SelectorDoWork(c), WorkDone
  PROVE  SelectInv'
<1>1. working' \in 1 .. Len(WorkOrder) /\ Now \in RoomStates
      BY NextWorking, NowType DEF SelectInv
<1>2. UNCHANGED <<scenes, detector, applied>>
      BY DEF SelectorDoWork
<1>3. Noted(Now, Now)
      BY DEF Noted
<1>4. CASE roomError /\ ErrorState[c] # Undefined
  <2>1. ErrorState[c] \in {-1, 0, 1}
        BY SelectAssumption
  <2>2. ErrorState[c] \in 0 .. 1
        BY <1>4, <2>1 DEF Undefined
  <2>3. Become(SetSelector(Now, c, ErrorState[c]))
        BY <1>4 DEF SelectorDoWork
  <2>4. SetSelector(Now, c, ErrorState[c]) \in RoomStates /\ Noted(Now, SetSelector(Now, c, ErrorState[c]))
        BY <1>1, <2>2, SetSelectorType
  <2> QED BY <1>1, <1>2, <2>3, <2>4, BecomeKeeps
<1>5. CASE Become(Now)
      BY <1>1, <1>2, <1>3, <1>5, BecomeKeeps
<1>6. CASE ~roomError
  <2> DEFINE new == IF room = SelectorPosition[c] THEN 1 ELSE 0
             s == [Now EXCEPT !.sel[c] = new, !.out[c] = new]
  <2>1. new \in 0 .. 1
        OBVIOUS
  <2>2. Become(Now) \/ Become(s)
        BY <1>6 DEF SelectorDoWork
  <2> HIDE DEF new
  <2>3. s \in RoomStates
        BY <1>1, <2>1 DEF RoomStates
  <2>4. Noted(Now, s)
        BY <1>1 DEF Noted, RoomStates
  <2> HIDE DEF s
  <2> QED BY <1>1, <1>2, <1>5, <2>2, <2>3, <2>4, BecomeKeeps
<1> QED BY <1>4, <1>5, <1>6 DEF SelectorDoWork

LEMMA SceneWork == ASSUME SelectInv, SceneDoWork, WorkDone PROVE SelectInv'
<1>1. SelectTypeOK /\ working' \in 1 .. Len(WorkOrder) /\ Now \in RoomStates
      BY NextWorking, NowType DEF SelectInv
<1> DEFINE settings == scenes[room + 1]
           done == ApplyAll(Now, settings)
           s == [done EXCEPT !.set = FALSE]
<1>2. settings \in Seq(SettingType) /\ \A k \in DOMAIN settings : settings[k] \in SettingType
      BY <1>1, ScenesAre
<1>3. Become(s) /\ applied' = room /\ UNCHANGED <<scenes, detector>>
      BY DEF SceneDoWork
<1>4. done \in RoomStates
      BY <1>1, <1>2, ApplyType, ApplyAllKeeps
<1>5. PlainScenes => done.room = room
  <2> SUFFICES ASSUME PlainScenes PROVE done.room = room
      OBVIOUS
  <2> DEFINE V == {r \in RoomStates : r.room = room}
  <2>1. \A k \in DOMAIN settings : settings[k].port = "lamp"
        BY <1>1, ScenesAre DEF PlainScenes
  <2>2. \A r \in V, k \in DOMAIN settings : Apply(r, settings[k]) \in V
        BY <1>2, <2>1, ApplyType
  <2>3. Now \in V
        BY <1>1 DEF Now
  <2> HIDE DEF V
  <2>4. done \in V
        BY <1>2, <2>2, <2>3, ApplyAllKeeps
  <2> QED BY <2>4 DEF V
<1> HIDE DEF done
<1>6. s \in RoomStates /\ s.room = done.room
      BY <1>4 DEF RoomStates
<1>7. SelectTypeOK'
      BY <1>1, <1>3, <1>6 DEF Become, SelectTypeOK, RoomStates, Positions
<1>8. room' = done.room /\ PlainScenes' = PlainScenes
      BY <1>3, <1>6 DEF Become, PlainScenes
<1> QED BY <1>3, <1>5, <1>7, <1>8 DEF SelectInv, SceneApplied

LEMMA SelectStep == SelectInv /\ [SelectNext]_roomVars => SelectInv'
<1> SUFFICES ASSUME SelectInv, [SelectNext]_roomVars PROVE SelectInv'
    OBVIOUS
<1>1. SelectTypeOK /\ Now \in RoomStates
      BY NowType DEF SelectInv
<1>2. ASSUME UNCHANGED <<scenes, room, roomError, positionSet, selLine, outLine, lamp, applied>>,
             detector' \in 0 .. 1, working' \in 1 .. Len(WorkOrder)
      PROVE  SelectInv'
      BY <1>2 DEF SelectInv, SelectTypeOK, SceneApplied, PlainScenes, Positions
<1>3. detector \in 0 .. 1 /\ working \in 1 .. Len(WorkOrder)
      BY <1>1 DEF SelectTypeOK
<1>4. CASE SelectWork
  <2>1. working' \in 1 .. Len(WorkOrder) /\ WorkDone
        BY <1>1, <1>4, NextWorking DEF SelectWork
  <2>2. WorkOrder[working] \in Selectors \cup {"scene", "detector"}
        BY <1>3, SelectAssumption
  <2>3. CASE WorkOrder[working] = "scene"
    <3>1. SceneDoWork \/ NoScene
          BY <1>4, <2>3 DEF SelectWork
    <3> QED BY <1>2, <1>3, <2>1, <3>1, SceneWork DEF NoScene
  <2>4. CASE WorkOrder[working] = "detector"
    <3>1. DetectorDoWork
          BY <1>4, <2>4 DEF SelectWork
    <3>2. detector' \in 0 .. 1
          BY <3>1 DEF DetectorDoWork
    <3> QED BY <1>2, <2>1, <3>1, <3>2 DEF DetectorDoWork
  <2>5. CASE WorkOrder[working] \notin {"scene", "detector"}
        BY <1>4, <2>1, <2>2, <2>5, SelectorWork DEF SelectWork
  <2> QED BY <2>3, <2>4, <2>5
<1>5. CASE SceneThrows
  <2>1. working' \in 1 .. Len(WorkOrder)
    <3>1. working' = 1
          BY <1>5 DEF SceneThrows
    <3>2. WorkOrder \in Seq(Selectors \cup {"scene", "detector"})
          BY SelectAssumption
    <3>3. Len(WorkOrder) \in Nat
          BY <3>2
    <3> QED BY <1>3, <3>1, <3>3
  <2> QED BY <1>2, <1>3, <1>5, <2>1 DEF SceneThrows, SceneFails
<1>6. CASE SelectOutside
  <2>1. UNCHANGED <<scenes, detector, working, applied>>
        BY <1>6 DEF SelectOutside
  <2>2. \E s \in RoomStates : Become(s) /\ Noted(Now, s)
    <3>1. ASSUME NEW p \in Positions \cup {Len(scenes)}, Become(Select(Now, p))
          PROVE  \E s \in RoomStates : Become(s) /\ Noted(Now, s)
          BY <1>1, <3>1, SelectType DEF Noted
    <3>2. ASSUME NEW c \in Selectors, NEW v \in 0 .. 1, Become(SetSelector(Now, c, v))
          PROVE  \E s \in RoomStates : Become(s) /\ Noted(Now, s)
          BY <1>1, <3>2, SetSelectorType
    <3>3. ASSUME Become([Now EXCEPT !.error = TRUE])
          PROVE  \E s \in RoomStates : Become(s) /\ Noted(Now, s)
      <4>1. [Now EXCEPT !.error = TRUE] \in RoomStates /\ Noted(Now, [Now EXCEPT !.error = TRUE])
            BY <1>1 DEF RoomStates, Noted
      <4> QED BY <3>3, <4>1
    <3> QED BY <1>6, <3>1, <3>2, <3>3 DEF SelectOutside
  <2> QED BY <1>3, <2>1, <2>2, BecomeKeeps
<1>7. CASE UNCHANGED roomVars
      BY <1>2, <1>3, <1>7 DEF roomVars
<1> QED BY <1>4, <1>5, <1>6, <1>7 DEF SelectNext

-----------------------------------------------------------------------------
(* The File port *)

LEMMA FileConfig ==
  ASSUME FileTypeOK
  PROVE  fileConf.numerator \in 1 .. 2 /\ fileConf.readonly \in BOOLEAN /\ fileConf.deleteAfterRead \in BOOLEAN
BY DEF FileTypeOK, FileType

LEMMA FileStart == FileInit => FileTypeOK
<1> SUFFICES ASSUME FileInit PROVE FileTypeOK
    OBVIOUS
<1>1. fileConf \in FileType
      BY FileAssumption DEF FileInit
<1>2. file \in Contents \cup {None, Empty} /\ value \in Values /\ sinceReload \in 0 .. ReloadCap
      BY DEF FileInit, Contents, Values, MaxValue, ReloadCap
<1>3. needsReload \in BOOLEAN
  <2>1. \/ needsReload \in {FALSE} \/ needsReload \in {TRUE} \/ needsReload \in BOOLEAN
        BY Zenon DEF FileInit
  <2> QED BY <2>1
<1>4. fileLine \in 0 .. 1
      BY DEF FileInit
<1>5. /\ changedFile \in BOOLEAN /\ reloaded \in BOOLEAN /\ unread \in BOOLEAN
      /\ valueError \in {"ok", "unavailable", "expired"} /\ reading \in SUBSET (Contents \cup {None, Empty})
      BY DEF FileInit
<1> QED BY <1>1, <1>2, <1>3, <1>4, <1>5 DEF FileTypeOK

LEMMA FileStep == FileTypeOK /\ [FileNext]_fileVars => FileTypeOK'
<1> SUFFICES ASSUME FileTypeOK, [FileNext]_fileVars PROVE FileTypeOK'
    OBVIOUS
<1>1. CASE FileIdle
  <2>1. valueError' \in {"ok", "unavailable", "expired"} /\ needsReload' \in BOOLEAN
        BY <1>1 DEF FileIdle, FileTypeOK
  <2> QED BY <1>1, <2>1 DEF FileIdle, FileTypeOK
<1>2. CASE FileReads
  <2>1. valueError' \in {"ok", "unavailable", "expired"} /\ reading' \in SUBSET (Contents \cup {None, Empty})
        BY <1>2 DEF FileReads, FileTypeOK
  <2>2. sinceReload' \in 0 .. ReloadCap
        BY <1>2 DEF FileReads, ReloadCap
  <2> QED BY <1>2, <2>1, <2>2 DEF FileReads, FileTypeOK
<1>3. CASE FileUsed
  <2>1. PICK content \in reading :
          /\ IF Understood(content)
             THEN value' = Scaled(content) /\ valueError' = "ok"
             ELSE UNCHANGED <<value, valueError>>
          /\ IF fileConf.deleteAfterRead /\ content # Empty
             THEN file' = None /\ changedFile' = changedFile
             ELSE UNCHANGED <<file, changedFile>>
          /\ unread' = (unread /\ content # file)
        BY <1>3 DEF FileUsed
  <2>2. value' \in Values /\ valueError' \in {"ok", "unavailable", "expired"}
        BY <2>1 DEF Understood, FileTypeOK
  <2>3. file' \in Contents \cup {None, Empty} /\ changedFile' \in BOOLEAN
        BY <2>1 DEF FileTypeOK
  <2>4. unread' \in BOOLEAN
        BY <2>1
  <2>5. reading' = {} /\ UNCHANGED <<fileConf, needsReload, fileLine, sinceReload, reloaded>>
        BY <1>3 DEF FileUsed
  <2> QED BY <2>2, <2>3, <2>4, <2>5 DEF FileTypeOK
<1>4. CASE FileChangedEvent
      BY <1>4 DEF FileChangedEvent, FileTypeOK
<1>5. CASE OtherProcess
  <2>1. file' \in Contents \cup {None, Empty}
        BY <1>5 DEF OtherProcess
  <2>2. unread' \in BOOLEAN /\ changedFile' \in BOOLEAN
        BY <1>5 DEF OtherProcess
  <2> QED BY <1>5, <2>1, <2>2 DEF OtherProcess, FileTypeOK
<1>6. CASE UserSets
  <2>1. PICK v \in Values :
          /\ value' = v
          /\ valueError' = "ok"
          /\ IF fileLine = 1 /\ (v # value \/ valueError # "ok")
             THEN file' = v \div fileConf.numerator /\ changedFile' = TRUE /\ unread' = FALSE
             ELSE UNCHANGED <<file, changedFile, unread>>
        BY <1>6 DEF UserSets
  <2>2. v \div fileConf.numerator \in Values
        BY FileConfig DEF Values, MaxValue
  <2>3. file' \in Contents \cup {None, Empty} /\ changedFile' \in BOOLEAN /\ unread' \in BOOLEAN
        BY <2>1, <2>2 DEF FileTypeOK, Contents
  <2> QED BY <1>6, <2>1, <2>3 DEF UserSets, FileTypeOK
<1>7. CASE PortSets
      BY <1>7 DEF PortSets, FileTypeOK
<1>8. CASE FileSwitch
  <2>1. fileLine' \in 0 .. 1
        BY <1>8 DEF FileSwitch, FileTypeOK
  <2> QED BY <1>8, <2>1 DEF FileSwitch, FileTypeOK
<1>9. CASE FileTick
  <2>1. sinceReload' \in 0 .. ReloadCap
        BY <1>9 DEF FileTick, FileTypeOK, ReloadCap
  <2> QED BY <1>9, <2>1 DEF FileTick, FileTypeOK
<1>10. CASE UNCHANGED fileVars
       BY <1>10 DEF fileVars, FileTypeOK
<1> QED BY <1>1, <1>2, <1>3, <1>4, <1>5, <1>6, <1>7, <1>8, <1>9, <1>10 DEF FileNext, FileDoWork

-----------------------------------------------------------------------------
(* The Fader port.  It is only High with a duration to fade in. *)

FaderInv == FaderTypeOK /\ (fadeLine = 1 => fader.duration > 0)

LEMMA FaderConfig ==
  ASSUME FaderTypeOK
  PROVE  /\ fader.left \in Levels \cup {Output} /\ fader.right \in Levels \cup {Output}
         /\ fader.duration \in 0 .. 3 /\ fader.linear \in BOOLEAN /\ fader.invert \in BOOLEAN
         /\ fader.switchOff \in {"none", "left", "right"}
BY DEF FaderTypeOK, FaderType

LEMMA FaderStart == FaderInit => FaderInv
<1> SUFFICES ASSUME FaderInit PROVE FaderInv
    OBVIOUS
<1>1. fader \in FaderType
      BY FaderAssumption DEF FaderInit
<1>2. fader.duration \in 0 .. 3
      BY <1>1 DEF FaderType
<1>3. elapsed \in 0 .. fader.duration + 1
      BY <1>2 DEF FaderInit
<1>4. level \in Levels /\ left \in Levels /\ right \in Levels /\ fadeLine \in 0 .. 1 /\ fadeLine # 1 /\ endSwitch \in 0 .. 1
      BY DEF FaderInit, Levels, MaxLevel
<1> QED BY <1>1, <1>3, <1>4 DEF FaderInit, FaderInv, FaderTypeOK

\* A part of the way between two levels is between them.
LEMMA Between ==
  ASSUME NEW from \in Levels, NEW to \in Levels, NEW whole \in {1, 4, 9}, NEW part \in 0 .. whole
  PROVE  (from * whole + part * (to - from)) \div whole \in Levels
<1>1. from \in 0 .. 4 /\ to \in 0 .. 4
      BY DEF Levels, MaxLevel
<1>2. CASE whole = 1
      BY <1>1, <1>2 DEF Levels, MaxLevel
<1>3. CASE whole = 4
      BY <1>1, <1>3 DEF Levels, MaxLevel
<1>4. CASE whole = 9
      BY <1>1, <1>4 DEF Levels, MaxLevel
<1> QED BY <1>2, <1>3, <1>4

LEMMA FadeType ==
  ASSUME FaderTypeOK, fader.duration > 0, elapsed <= fader.duration
  PROVE  Fade(elapsed) \in Levels
<1> DEFINE from == IF fader.invert /\ fader.linear THEN right ELSE left
           to == IF fader.invert /\ fader.linear THEN left ELSE right
           passed == IF fader.invert /\ ~fader.linear THEN fader.duration - elapsed ELSE elapsed
           part == IF fader.linear THEN passed * fader.duration ELSE passed * passed
           whole == fader.duration * fader.duration
<1>1. from \in Levels /\ to \in Levels
      BY DEF FaderTypeOK
<1>2. fader.duration \in {1, 2, 3} /\ elapsed \in 0 .. fader.duration
      BY FaderConfig DEF FaderTypeOK
<1>3. passed \in 0 .. fader.duration
      BY <1>2
<1>4. whole \in {1, 4, 9}
      BY <1>2
<1>5. part \in 0 .. whole
  <2> HIDE DEF passed
  <2>1. passed * fader.duration \in 0 .. whole /\ passed * passed \in 0 .. whole
        BY <1>2, <1>3
  <2> QED BY <2>1
<1>6. Fade(elapsed) = (from * fader.duration * fader.duration + part * (to - from)) \div whole
      BY DEF Fade
<1> HIDE DEF from, to, part
<1>7. from * fader.duration * fader.duration = from * whole
      BY <1>1, <1>2 DEF Levels, MaxLevel
<1> HIDE DEF whole
<1>8. (from * whole + part * (to - from)) \div whole \in Levels
      BY <1>1, <1>4, <1>5, Between
<1> QED BY <1>6, <1>7, <1>8

LEMMA ResolvedType == FaderTypeOK => \A s \in Levels \cup {Output} : Resolved(s) \in Levels
BY DEF FaderTypeOK, Resolved

LEMMA FaderStep == FaderInv /\ [FaderNext]_faderVars => FaderInv'
<1> SUFFICES ASSUME FaderInv, [FaderNext]_faderVars PROVE FaderInv'
    OBVIOUS
<1>1. FaderTypeOK /\ (fadeLine = 1 => fader.duration > 0)
      BY DEF FaderInv
<1>2. fader.duration \in 0 .. 3 /\ elapsed \in 0 .. fader.duration + 1 /\ fader.switchOff \in {"none", "left", "right"}
      BY <1>1, FaderConfig DEF FaderTypeOK
<1>3. Resolve => left' \in Levels /\ right' \in Levels
      BY <1>1, FaderConfig, ResolvedType DEF Resolve
<1>4. TurnOff => left' \in Levels /\ right' \in Levels /\ action' \in {"none", "left", "right"} /\ fadeLine' = 0
      BY <1>1, <1>2, <1>3 DEF TurnOff, FaderTypeOK
<1>5. CASE SwitchOn
  <2>1. /\ fadeLine' \in 0 .. 1 /\ elapsed' \in 0 .. fader.duration + 1
        /\ fadeLine' = 1 => fader.duration > 0
        BY <1>2, <1>5 DEF SwitchOn
  <2> QED BY <1>1, <1>3, <1>5, <2>1 DEF SwitchOn, FaderInv, FaderTypeOK
<1>6. CASE SwitchOff
      BY <1>1, <1>4, <1>6 DEF SwitchOff, FaderInv, FaderTypeOK
<1>7. CASE EndFade
  <2>1. endSwitch' \in 0 .. 1
        BY <1>1, <1>7 DEF EndFade, FaderTypeOK
  <2> QED BY <1>1, <1>4, <1>7, <2>1 DEF EndFade, FaderInv, FaderTypeOK
<1>8. CASE SetLevel
  <2>1. level' \in Levels
    <3>1. CASE action = "none"
      <4>1. fadeLine = 1 /\ elapsed <= fader.duration /\ level' = Fade(elapsed)
            BY <1>8, <3>1 DEF SetLevel
      <4> QED BY <1>1, <4>1, FadeType
    <3>2. CASE action # "none"
          BY <1>1, <1>8, <3>2 DEF SetLevel, FaderTypeOK
    <3> QED BY <3>1, <3>2
  <2> QED BY <1>1, <1>8, <2>1 DEF SetLevel, FaderInv, FaderTypeOK
<1>9. CASE FaderOthers
  <2>1. level' \in Levels /\ endSwitch' \in 0 .. 1 /\ writer' \in {"others", "fader"}
        BY <1>1, <1>9 DEF FaderOthers, FaderTypeOK
  <2>2. resolvable' \in BOOLEAN
        BY <1>1, <1>9 DEF FaderOthers, FaderTypeOK
  <2> QED BY <1>1, <1>9, <2>1, <2>2 DEF FaderOthers, FaderInv, FaderTypeOK
<1>10. CASE FaderTick
  <2>1. elapsed' \in 0 .. fader.duration + 1
        BY <1>2, <1>10 DEF FaderTick
  <2> QED BY <1>1, <1>10, <2>1 DEF FaderTick, FaderInv, FaderTypeOK
<1>11. CASE UNCHANGED faderVars
       BY <1>1, <1>11 DEF faderVars, FaderInv, FaderTypeOK
<1> QED BY <1>5, <1>6, <1>7, <1>8, <1>9, <1>10, <1>11 DEF FaderNext, FaderDoWork

-----------------------------------------------------------------------------
(* The Aggregator port.  Errors are counted as long as there are values,   *)
(* and what is stored has room.                                            *)

AggInv ==
  /\ AggregatorTypeOK
  /\ AggregatorInv
  /\ Len(stored) <= agg.total
  /\ values # <<>> => misses <= errors
  /\ firstRun => misses = 0

LEMMA AggConfig ==
  ASSUME AggregatorTypeOK
  PROVE  /\ agg.total \in Nat \ {0, 1} /\ agg.allowedErrors \in Nat
         /\ agg.persistent \in BOOLEAN /\ agg.min \in Int /\ agg.max \in Int
BY DEF AggregatorTypeOK, AggregatorType

\* what the results may be
ResultsOK(r) == r \in [Algorithms -> SUBSET (agg.min .. agg.max)] /\ \A a \in Algorithms : Cardinality(r[a]) <= 1

LEMMA NoResultsOK == ResultsOK(NoResults)
BY FS_EmptySet DEF ResultsOK, NoResults

\* What is in range before its fraction is cut off is in range after that.
LEMMA QuotientRange ==
  ASSUME NEW low \in Int, NEW high \in Int, NEW b \in Nat \ {0}, NEW a \in low * b .. high * b
  PROVE  Quotient(a, b) \in low .. high
<1>1. \A n \in Nat : n \div b \in Int /\ b * (n \div b) <= n
      OBVIOUS
<1>2. \A n \in Nat : n < b * (n \div b + 1)
      OBVIOUS
<1>3. ASSUME NEW q \in Int, NEW n \in Int, b * q <= n, n <= high * b PROVE q <= high
  <2>1. CASE q >= high + 1
    <3>1. b * q >= b * (high + 1)
          BY <2>1
    <3> QED BY <1>3, <3>1
  <2> QED BY <2>1
<1>4. ASSUME NEW q \in Int, NEW n \in Int, n < b * (q + 1), low * b <= n PROVE low <= q
  <2>1. CASE q + 1 <= low
    <3>1. b * (q + 1) <= b * low
          BY <2>1
    <3> QED BY <1>4, <3>1
  <2> QED BY <2>1
<1>5. CASE a >= 0
  <2>1. a \div b \in Int /\ b * (a \div b) <= a /\ a < b * (a \div b + 1)
        BY <1>1, <1>2, <1>5
  <2>2. a \div b <= high
        BY <1>3, <2>1
  <2>3. low <= a \div b
        BY <1>4, <2>1
  <2> QED BY <1>5, <2>1, <2>2, <2>3 DEF Quotient
<1>6. CASE a < 0
  <2> DEFINE q == (-a) \div b
  <2>1. q \in Int /\ b * q <= -a /\ -a < b * (q + 1)
        BY <1>1, <1>2, <1>6
  <2> HIDE DEF q
  <2>2. b * (-q) >= a /\ b * (-q - 1) < a
        BY <2>1
  <2>3. low <= -q
    <3>1. CASE -q + 1 <= low
      <4>1. b * (-q) <= b * (low - 1)
            BY <2>1, <3>1
      <4> QED BY <2>1, <2>2, <4>1
    <3> QED BY <2>1, <3>1
  <2>4. -q <= high
    <3>1. CASE -q >= high + 1
      <4>1. b * (-q - 1) >= b * high
            BY <2>1, <3>1
      <4> QED BY <2>1, <2>2, <4>1
    <3> QED BY <2>1, <3>1
  <2> QED BY <1>6, <2>1, <2>3, <2>4 DEF Quotient, q
<1> QED BY <1>5, <1>6

LEMMA InRangeValue ==
  ASSUME AggregatorTypeOK, NEW vs, NEW a \in Algorithms, InRange(a, vs)
  PROVE  Calculated(a, vs) \in agg.min .. agg.max
<1>1. agg.min \in Int /\ agg.max \in Int /\ agg.total \in Nat \ {0}
      BY AggConfig
<1>2. CASE a = "integrate"
  <2>1. Sum(vs) \in agg.min * agg.total .. agg.max * agg.total
        BY <1>2 DEF InRange
  <2>2. Quotient(Sum(vs), agg.total) \in agg.min .. agg.max
        BY <1>1, <2>1, QuotientRange
  <2>3. Calculated(a, vs) = Quotient(Sum(vs), agg.total)
        BY <1>2 DEF Calculated
  <2> QED BY <2>2, <2>3
<1>3. CASE a # "integrate"
      BY <1>3 DEF InRange
<1> QED BY <1>2, <1>3

LEMMA ResultsType == ASSUME NEW vs, AggregatorTypeOK, ResultsOK(results) PROVE ResultsOK(Results(vs))
<1> SUFFICES ASSUME NEW a \in Algorithms
             PROVE  Results(vs)[a] \in SUBSET (agg.min .. agg.max) /\ Cardinality(Results(vs)[a]) <= 1
    BY DEF ResultsOK, Results
<1>1. CASE Results(vs)[a] = results[a]
      BY <1>1 DEF ResultsOK
<1>2. CASE Results(vs)[a] # results[a]
  <2>1. Results(vs)[a] = {Calculated(a, vs)} /\ InRange(a, vs)
        BY <1>2 DEF Results
  <2>3. Calculated(a, vs) \in agg.min .. agg.max
        BY <2>1, InRangeValue
  <2>2. Cardinality({Calculated(a, vs)}) = 1
        BY FS_Singleton
  <2> QED BY <2>1, <2>2, <2>3
<1> QED BY <1>1, <1>2

LEMMA AggStart == AggregatorInit => AggInv
<1> SUFFICES ASSUME AggregatorInit PROVE AggInv
    OBVIOUS
<1>1. agg \in AggregatorType
      BY AggregatorAssumption DEF AggregatorInit
<1>2. agg.total \in Nat \ {0, 1} /\ agg.allowedErrors \in Nat
      BY <1>1 DEF AggregatorType
<1>3. ResultsOK(results)
      BY NoResultsOK DEF AggregatorInit
<1>4. <<>> \in Seq(SourceValues) /\ Len(<<>>) = 0
      OBVIOUS
<1>5. aggLine \in 0 .. 1 /\ errors \in 0 .. agg.allowedErrors /\ misses \in 0 .. MissCap /\ Len(values) <= agg.total
        /\ Len(stored) <= agg.total /\ misses = 0
      BY <1>2, <1>4 DEF AggregatorInit, MissCap
<1>6. AggregatorTypeOK
      BY <1>1, <1>3, <1>4, <1>5 DEF AggregatorInit, AggregatorTypeOK, ResultsOK
<1> QED BY <1>5, <1>6 DEF AggregatorInit, AggInv, AggregatorInv, HistoryAgrees, NoValuesNoResults, ErrorsDiscard

\* what the ways to change the list of values keep
ListsOK ==
  /\ values \in Seq(SourceValues) /\ Len(values) <= agg.total
  /\ history \in Seq(SourceValues)
  /\ stored \in Seq(SourceValues) /\ Len(stored) <= agg.total
  /\ ResultsOK(results)
  /\ HistoryAgrees
  /\ NoValuesNoResults

LEMMA AggParts == AggInv => ListsOK
BY DEF AggInv, ListsOK, AggregatorTypeOK, AggregatorInv, ResultsOK

LEMMA ResetOK == ASSUME AggInv, ResetValues, agg' = agg PROVE ListsOK' /\ values' = <<>>
<1>1. <<>> \in Seq(SourceValues) /\ Len(<<>>) = 0 /\ agg.total >= 0
      BY AggConfig DEF AggInv
<1>2. ResultsOK(results)'
      BY NoResultsOK DEF ResetValues, ResultsOK
<1>3. values' = <<>> /\ history' = <<>> /\ results' = NoResults
      BY DEF ResetValues
<1>4. stored' \in Seq(SourceValues) /\ Len(stored') <= agg.total
      BY <1>1, AggParts DEF ResetValues, ListsOK
<1> QED BY <1>1, <1>2, <1>3, <1>4 DEF ListsOK, HistoryAgrees, NoValuesNoResults, NoResults

LEMMA CollectOK ==
  ASSUME AggInv, NEW vs \in Seq(SourceValues), vs # <<>>, Len(vs) <= agg.total, Collect(vs), agg' = agg
  PROVE  ListsOK' /\ values' = vs
<1>1. ResultsOK(results')
      BY AggParts, ResultsType DEF AggInv, Collect, ListsOK
<1>2. ResultsOK(results)'
      BY <1>1 DEF ResultsOK
<1>3. stored' \in Seq(SourceValues) /\ Len(stored') <= agg.total
      BY AggParts DEF Collect, ListsOK
<1> QED BY <1>2, <1>3 DEF Collect, ListsOK, HistoryAgrees, NoValuesNoResults

\* a value that is added has room
LEMMA AppendOK ==
  ASSUME AggInv, NEW v \in SourceValues
  PROVE  Append(Shortened, v) \in Seq(SourceValues) /\ Append(Shortened, v) # <<>> /\ Len(Append(Shortened, v)) <= agg.total
<1>1. values \in Seq(SourceValues) /\ Len(values) <= agg.total /\ Len(values) \in Nat /\ agg.total \in Nat \ {0, 1}
      BY AggParts, AggConfig DEF ListsOK, AggInv
<1>2. Shortened \in Seq(SourceValues) /\ Len(Shortened) <= agg.total - 1 /\ Len(Shortened) \in Nat
  <2>1. CASE Len(values) >= agg.total
    <3>1. values # <<>> /\ Len(values) = agg.total
          BY <1>1, <2>1
    <3>2. Tail(values) \in Seq(SourceValues) /\ Len(Tail(values)) = Len(values) - 1
          BY <1>1, <3>1
    <3> QED BY <1>1, <2>1, <3>1, <3>2 DEF Shortened
  <2>2. CASE ~(Len(values) >= agg.total)
        BY <1>1, <2>2 DEF Shortened
  <2> QED BY <2>1, <2>2
<1>3. Append(Shortened, v) \in Seq(SourceValues) /\ Len(Append(Shortened, v)) = Len(Shortened) + 1
      BY <1>2
<1>4. Len(Append(Shortened, v)) <= agg.total
      BY <1>1, <1>2, <1>3
<1>5. Append(Shortened, v) # <<>>
      BY <1>2, <1>3
<1> QED BY <1>3, <1>4, <1>5

\* how a step is shown to keep the invariant
LEMMA AggKept ==
  ASSUME AggInv, ListsOK', agg' = agg, aggLine' \in 0 .. 1, due' \in BOOLEAN, firstRun' \in BOOLEAN,
         errors' \in 0 .. agg.allowedErrors, misses' \in 0 .. MissCap,
         values' # <<>> => misses' <= errors', firstRun' => misses' = 0
  PROVE  AggInv'
<1>1. AggregatorTypeOK'
      BY DEF AggInv, ListsOK, AggregatorTypeOK, ResultsOK
<1>2. agg.allowedErrors \in Nat
      BY AggConfig DEF AggInv
<1>3. ErrorsDiscard'
      BY <1>2 DEF ErrorsDiscard, MissCap
<1> QED BY <1>1, <1>3 DEF AggInv, AggregatorInv, ListsOK

LEMMA AggStep == AggInv /\ [AggregatorNext]_aggVars => AggInv'
<1> SUFFICES ASSUME AggInv, [AggregatorNext]_aggVars PROVE AggInv'
    OBVIOUS
<1>1. /\ aggLine \in 0 .. 1 /\ due \in BOOLEAN /\ firstRun \in BOOLEAN
      /\ errors \in 0 .. agg.allowedErrors /\ misses \in 0 .. MissCap
      /\ (values # <<>> => misses <= errors) /\ (firstRun => misses = 0)
      BY DEF AggInv, AggregatorTypeOK
<1>2. ListsOK /\ AggregatorTypeOK /\ agg.allowedErrors \in Nat
      BY AggParts, AggConfig DEF AggInv
<1>3. \A n : n = 0 => n \in 0 .. agg.allowedErrors /\ n \in 0 .. MissCap /\ n <= n
      BY <1>2 DEF MissCap
<1>4. CASE FirstWork
  <2>1. UNCHANGED <<agg, aggLine, errors, stored, misses>> /\ firstRun' = FALSE /\ misses = 0 /\ due' \in BOOLEAN
        BY <1>1, <1>4 DEF FirstWork
  <2>2. ListsOK'
    <3>1. CASE agg.persistent /\ stored # <<>> /\ ~due
      <4>1. values' = stored /\ history' = stored /\ results' = Results(stored)
            BY <1>4, <3>1 DEF FirstWork
      <4>2. ResultsOK(results)'
            BY <1>2, <2>1, <4>1, ResultsType DEF ListsOK, ResultsOK
      <4> QED BY <1>2, <2>1, <3>1, <4>1, <4>2 DEF ListsOK, HistoryAgrees, NoValuesNoResults
    <3>2. CASE ~(agg.persistent /\ stored # <<>> /\ ~due)
      <4>1. UNCHANGED <<values, history, results>>
            BY <1>4, <3>2 DEF FirstWork
      <4> QED BY <1>2, <2>1, <4>1 DEF ListsOK, HistoryAgrees, NoValuesNoResults, NoResults, ResultsOK
    <3> QED BY <3>1, <3>2
  <2>3. misses' = 0 /\ misses' <= errors'
        BY <1>1, <2>1
  <2> QED BY <1>1, <2>1, <2>2, <2>3, AggKept
<1>5. CASE QueryValue
  <2>1. UNCHANGED <<agg, aggLine, firstRun>> /\ due' = FALSE /\ misses' = 0
        BY <1>5 DEF QueryValue
  <2>2. PICK v \in SourceValues :
          IF Plausible(v)
          THEN Collect(Append(Shortened, v)) /\ errors' = 0
          ELSE IF values # <<>> /\ agg.allowedErrors > 0
               THEN Collect(Append(Shortened, v)) /\ errors' = 1
               ELSE ResetValues /\ errors' = 0
        BY <1>5 DEF QueryValue
  <2>3. ListsOK'
        BY <2>1, <2>2, AppendOK, CollectOK, ResetOK
  <2>4. errors' \in 0 .. agg.allowedErrors
        BY <1>2, <2>2
  <2>5. misses' \in 0 .. MissCap /\ misses' <= errors'
        BY <1>2, <2>1, <2>4 DEF MissCap
  <2> QED BY <1>1, <2>1, <2>3, <2>4, <2>5, AggKept
<1>6. CASE QueryError
  <2>1. UNCHANGED <<agg, aggLine, firstRun>> /\ due' = FALSE /\ ~firstRun
        BY <1>6 DEF QueryError
  <2>2. misses' \in 0 .. MissCap /\ misses' <= misses + 1
        BY <1>1, <1>6 DEF QueryError, MissCap
  <2>3. CASE Tolerates
    <3>1. errors < agg.allowedErrors /\ values # <<>>
          BY <2>3 DEF Tolerates
    <3>6. errors' = errors + 1 \/ (errors' = errors + 2 /\ errors + 1 < agg.allowedErrors)
          BY <1>6, <2>3 DEF QueryError
    <3>2. Collect(Append(Shortened, Last(values))) \/ ResetValues
          BY <1>6, <2>3 DEF QueryError
    <3>3. Last(values) \in SourceValues
          BY <1>2, <3>1 DEF ListsOK, Last
    <3>4. ListsOK'
          BY <2>1, <3>2, <3>3, AppendOK, CollectOK, ResetOK
    <3>5. errors' \in 0 .. agg.allowedErrors /\ misses' <= errors'
          BY <1>1, <1>2, <2>2, <3>1, <3>6 DEF MissCap
    <3> QED BY <1>1, <2>1, <2>2, <3>4, <3>5, AggKept
  <2>4. CASE ~Tolerates
    <3>1. errors' = errors
          BY <1>6, <2>4 DEF QueryError
    <3>2. ListsOK' /\ values' = <<>>
      <4>1. CASE values = <<>>
        <5>1. UNCHANGED <<values, results, history, stored>>
              BY <1>6, <2>4, <4>1 DEF QueryError
        <5> QED BY <1>2, <2>1, <4>1, <5>1 DEF ListsOK, HistoryAgrees, NoValuesNoResults, NoResults, ResultsOK
      <4>2. CASE values # <<>>
        <5>1. ResetValues
              BY <1>6, <2>4, <4>2 DEF QueryError
        <5> QED BY <2>1, <5>1, ResetOK
      <4> QED BY <4>1, <4>2
    <3> QED BY <1>1, <2>1, <2>2, <3>1, <3>2, AggKept
  <2> QED BY <2>3, <2>4
<1>7. CASE IntervalOver \/ Activate
  <2>1. UNCHANGED <<agg, values, errors, firstRun, results, history, stored, misses>>
        BY <1>7 DEF IntervalOver, Activate
  <2>2. due' \in BOOLEAN
        BY <1>1, <1>7 DEF IntervalOver, Activate
  <2>3. aggLine' \in 0 .. 1
        BY <1>1, <1>7 DEF IntervalOver, Activate
  <2>4. ListsOK'
        BY <1>2, <2>1 DEF ListsOK, HistoryAgrees, NoValuesNoResults, NoResults, ResultsOK
  <2> QED BY <1>1, <2>1, <2>2, <2>3, <2>4, AggKept
<1>8. CASE Deactivate
  <2>1. ResetValues /\ aggLine' \in 0 .. 1 /\ UNCHANGED <<agg, due, errors, firstRun, misses>>
        BY <1>8 DEF Deactivate
  <2> QED BY <1>1, <2>1, ResetOK, AggKept
<1>9. CASE AggregatorRestart
  <2>1. /\ UNCHANGED <<agg, stored>> /\ values' = <<>> /\ history' = <<>> /\ results' = NoResults
        /\ errors' = 0 /\ misses' = 0 /\ due' \in BOOLEAN /\ firstRun' \in BOOLEAN /\ aggLine' \in 0 .. 1
        BY <1>9 DEF AggregatorRestart
  <2>2. ResultsOK(results)'
        BY <2>1, NoResultsOK DEF ResultsOK
  <2>3. <<>> \in Seq(SourceValues) /\ Len(<<>>) <= agg.total
    <3>1. agg.total \in Nat
          BY <1>2, AggConfig
    <3> QED BY <3>1
  <2>4. ListsOK'
        BY <1>2, <2>1, <2>2, <2>3 DEF ListsOK, HistoryAgrees, NoValuesNoResults, NoResults
  <2> QED BY <1>3, <2>1, <2>4, AggKept
<1>10. CASE UNCHANGED aggVars
  <2>1. UNCHANGED <<agg, aggLine, values, due, errors, firstRun, results, history, stored, misses>>
        BY <1>10 DEF aggVars
  <2>2. ListsOK'
        BY <1>2, <2>1 DEF ListsOK, HistoryAgrees, NoValuesNoResults, NoResults, ResultsOK
  <2> QED BY <1>1, <2>1, <2>2, AggKept
<1> QED BY <1>4, <1>5, <1>6, <1>7, <1>8, <1>9, <1>10 DEF AggregatorNext

-----------------------------------------------------------------------------
(* The Expression port.  While it is High no deactivation value has been   *)
(* set, and what it has applied and what is left do not exceed the limit.  *)

ExprInv ==
  /\ ExprTypeOK
  /\ iterations <= expr.limit
  /\ DeactivationShown
  /\ exprLine = 1 => ~deactivated /\ iterations >= 0
  /\ expr.limit = 0 => applications = 0
  /\ expr.limit > 0 => applications <= expr.limit
  /\ exprLine = 1 /\ expr.limit > 0 =>
       applications + iterations <= expr.limit /\ (iterations = 0 => applications = 0)

OutputStates == [value : -1 .. 5, error : BOOLEAN]

LEMMA ExprTypes ==
  ASSUME ExprTypeOK
  PROVE  /\ expr.kind \in Kinds /\ expr.limit \in 0 .. 2 /\ expr.throws \in BOOLEAN
         /\ expr.fallback \in Halves \cup {NoNumber} /\ expr.deactivation \in Halves \cup {NoNumber}
BY DEF ExprTypeOK, ExprType

LEMMA TruncatedOf == \A v \in Halves : Truncated(v) \in 0 .. 2
BY DEF Truncated, Halves

LEMMA ClampedOf == \A v \in Int : ClampedTo(Full, v) \in 0 .. 3
BY DEF ClampedTo, Full

LEMMA AfterType ==
  ASSUME ExprTypeOK, NEW out \in OutputStates, NEW v \in Halves \cup {NoNumber}
  PROVE  After(out, v) \in OutputStates
<1>1. CASE v = NoNumber
      BY <1>1 DEF After, OutputStates
<1>2. CASE v # NoNumber
  <2>1. v \in Halves /\ v \in -1 .. 5
        BY <1>2 DEF Halves
  <2>2. Truncated(v) \in 0 .. 2
        BY <2>1, TruncatedOf
  <2>3. Truncated(Full * v) \in Int
        BY <2>1 DEF Truncated, Full
  <2>4. ClampedTo(Full, Truncated(Full * v)) \in 0 .. 3
        BY <2>3, ClampedOf
  <2>5. \A k \in -1 .. 5 : [value |-> k, error |-> FALSE] \in OutputStates
        BY DEF OutputStates
  <2>6. CASE expr.kind = "digital"
    <3>1. After(out, v) = [value |-> (IF v = 0 THEN 0 ELSE 1), error |-> FALSE]
          BY <1>2, <2>6 DEF After
    <3>2. (IF v = 0 THEN 0 ELSE 1) \in -1 .. 5
          BY <2>1
    <3> QED BY <2>5, <3>1, <3>2
  <2>7. CASE expr.kind = "analog"
    <3>1. After(out, v) = [value |-> ClampedTo(Full, Truncated(Full * v)), error |-> FALSE]
          BY <1>2, <2>7 DEF After
    <3>2. ClampedTo(Full, Truncated(Full * v)) \in -1 .. 5
          BY <2>4
    <3> QED BY <2>5, <3>1, <3>2
  <2>8. CASE expr.kind = "dial"
    <3>1. After(out, v) \in {[value |-> Truncated(v), error |-> FALSE], out}
          BY <1>2, <2>8 DEF After
    <3>2. Truncated(v) \in -1 .. 5
          BY <2>2
    <3> QED BY <2>5, <3>1, <3>2
  <2>9. CASE expr.kind = "select"
    <3>1. After(out, v) \in {[value |-> Truncated(v), error |-> FALSE], out}
          BY <1>2, <2>9 DEF After
    <3>2. Truncated(v) \in -1 .. 5
          BY <2>2
    <3> QED BY <2>5, <3>1, <3>2
  <2>10. CASE expr.kind = "custom"
    <3>1. After(out, v) = [value |-> v, error |-> FALSE]
          BY <1>2, <2>10 DEF After
    <3>2. v \in -1 .. 5
          BY <2>1
    <3> QED BY <2>5, <3>1, <3>2
  <2> QED BY <2>6, <2>7, <2>8, <2>9, <2>10, ExprTypes DEF Kinds
<1> QED BY <1>1, <1>2

\* A value that has been set once is not changed by being set again.
LEMMA AfterAgain ==
  ASSUME ExprTypeOK, NEW out \in OutputStates, NEW v \in Halves \cup {NoNumber}
  PROVE  After(After(out, v), v) = After(out, v)
<1>1. CASE v = NoNumber
      BY <1>1 DEF After, OutputStates
<1>2. CASE v # NoNumber
  <2>6. CASE expr.kind = "digital"
        BY <1>2, <2>6 DEF After
  <2>7. CASE expr.kind = "analog"
        BY <1>2, <2>7 DEF After
  <2>8. CASE expr.kind = "dial"
        BY <1>2, <2>8 DEF After
  <2>9. CASE expr.kind = "select"
        BY <1>2, <2>9 DEF After
  <2>10. CASE expr.kind = "custom"
        BY <1>2, <2>10 DEF After
  <2> QED BY <2>6, <2>7, <2>8, <2>9, <2>10, ExprTypes DEF Kinds
<1> QED BY <1>1, <1>2

LEMMA ResultType == ExprTypeOK => Result \in Halves \cup {NoNumber}
<1> SUFFICES ASSUME ExprTypeOK PROVE Result \in Halves \cup {NoNumber}
    OBVIOUS
<1>1. inputs["x"] \in {NoNumber, 0, 3} /\ inputs["y"] \in {NoNumber, 0, 3}
      BY DEF ExprTypeOK, InputValues
<1>2. Evaluated \in Halves \cup {NoNumber}
      BY <1>1 DEF Evaluated, InError, Halves, NoNumber
<1> QED BY <1>2, ExprTypes DEF Result

LEMMA ExprStart == ExprInit => ExprInv
<1> SUFFICES ASSUME ExprInit PROVE ExprInv
    OBVIOUS
<1>1. expr \in ExprType
      BY ExprAssumption DEF ExprInit
<1>2. expr.limit \in 0 .. 2
      BY <1>1 DEF ExprType
<1>3. \A p \in {"x", "y", "r"} : inputs[p] \in InputValues[p]
      BY DEF ExprInit, InputValues
<1>4. output \in [value : -1 .. 5, error : BOOLEAN]
      BY DEF ExprInit
<1>5. /\ iterations \in IterationsFloor .. 2 /\ iterations = expr.limit /\ iterations >= 0
      /\ applications = 0 /\ applications \in 0 .. 3 /\ exprLine \in {0, 1}
      BY <1>2 DEF ExprInit, IterationsFloor
<1>6. ~deactivated /\ deactivated \in BOOLEAN
      BY DEF ExprInit
<1>7. ExprTypeOK
      BY <1>1, <1>3, <1>4, <1>5, <1>6 DEF ExprTypeOK
<1>8. applications + iterations <= expr.limit /\ (expr.limit > 0 => iterations # 0)
      BY <1>2, <1>5
<1> QED BY <1>2, <1>5, <1>6, <1>7, <1>8 DEF ExprInv, DeactivationShown

\* what becomes of the output when the port becomes Low
LEMMA LowType ==
  ASSUME ExprTypeOK, NEW out \in OutputStates, BecomeLow(out), expr' = expr
  PROVE  output' \in OutputStates /\ DeactivationShown' /\ deactivated' \in BOOLEAN
<1>1. deactivated' \in BOOLEAN /\ (deactivated' => expr.deactivation # NoNumber)
      BY DEF BecomeLow
<1>2. output' \in OutputStates
      BY AfterType, ExprTypes DEF BecomeLow
<1>3. expr.deactivation # NoNumber => output' = After(out, expr.deactivation)
      BY DEF BecomeLow
<1>4. After(After(out, expr.deactivation), expr.deactivation) = After(out, expr.deactivation)
      BY AfterAgain, ExprTypes
<1>5. \A o : After(o, expr.deactivation)' = After(o', expr.deactivation)
      BY DEF After, Truncated
<1> QED BY <1>1, <1>2, <1>3, <1>4, <1>5 DEF DeactivationShown

LEMMA CountType ==
  ASSUME expr.limit \in 0 .. 2, iterations \in 0 .. expr.limit, applications \in 0 .. 3, Count,
         expr.limit = 0 => applications = 0,
         expr.limit > 0 => applications + iterations <= expr.limit /\ (iterations = 0 => applications = 0)
  PROVE  /\ iterations' \in IterationsFloor .. 2 /\ iterations' <= expr.limit
         /\ applications' \in 0 .. 3
         /\ expr.limit = 0 => applications' = 0
         /\ expr.limit > 0 => applications' <= expr.limit
         /\ ~LastIteration /\ expr.limit > 0 =>
              iterations' > 0 /\ applications' + iterations' <= expr.limit
         /\ ~LastIteration => iterations' >= 0
<1>1. CASE expr.limit = 0
      BY <1>1 DEF Count, LastIteration, IterationsFloor
<1>2. CASE expr.limit > 0
  <2>1. iterations' = iterations - 1 /\ applications' = applications + 1
        BY <1>2 DEF Count
  <2>2. ~LastIteration => iterations > 1
        BY <1>2 DEF LastIteration
  <2> QED BY <1>2, <2>1, <2>2 DEF IterationsFloor
<1> QED BY <1>1, <1>2

LEMMA WorkKeeps ==
  ASSUME ExprInv, ExprDoWork
  PROVE  /\ iterations' \in IterationsFloor .. 2 /\ iterations' <= expr.limit
         /\ applications' \in 0 .. 3
         /\ expr.limit = 0 => applications' = 0
         /\ expr.limit > 0 => applications' <= expr.limit
         /\ ~LastIteration /\ expr.limit > 0 =>
              iterations' > 0 /\ applications' + iterations' <= expr.limit
         /\ ~LastIteration => iterations' >= 0
<1>1. exprLine = 1 /\ Count
      BY DEF ExprDoWork, ApplyExpression, ApplyLast, ApplyLastBroken
<1>2. expr.limit \in 0 .. 2
      BY ExprTypes DEF ExprInv
<1>3. iterations \in 0 .. expr.limit
      BY <1>1, <1>2 DEF ExprInv, ExprTypeOK, IterationsFloor
<1>4. /\ applications \in 0 .. 3
      /\ expr.limit = 0 => applications = 0
      /\ expr.limit > 0 => applications + iterations <= expr.limit /\ (iterations = 0 => applications = 0)
      BY <1>1, <1>2 DEF ExprInv, ExprTypeOK
<1> QED BY <1>1, <1>2, <1>3, <1>4, CountType

LEMMA ExprStep == ExprInv /\ [ExprNext]_exprVars => ExprInv'
<1> SUFFICES ASSUME ExprInv, [ExprNext]_exprVars PROVE ExprInv'
    OBVIOUS
<1>1. ExprTypeOK /\ output \in OutputStates
      BY DEF ExprInv, ExprTypeOK, OutputStates
<1>2. expr' = expr
      BY DEF ExprNext, ActivateExpression, DeactivateExpression, SwitchBroken, ExprDoWork, ApplyExpression,
             ApplyLast, ApplyLastBroken, InputChanges, exprVars
<1>3. expr.limit \in 0 .. 2
      BY <1>1, ExprTypes
<1>4. ASSUME output' \in OutputStates, iterations' \in IterationsFloor .. 2, applications' \in 0 .. 3,
             deactivated' \in BOOLEAN, exprLine' \in {0, 1}, inputs' = inputs
      PROVE  ExprTypeOK'
      BY <1>1, <1>2, <1>4 DEF ExprTypeOK, OutputStates
<1>5. CASE ActivateExpression
  <2>1. ExprTypeOK'
    <3>1. iterations' \in IterationsFloor .. 2 /\ applications' \in 0 .. 3 /\ exprLine' \in {0, 1}
          BY <1>3, <1>5 DEF ActivateExpression, IterationsFloor
    <3>2. deactivated' \in BOOLEAN /\ UNCHANGED <<inputs, output>>
          BY <1>5 DEF ActivateExpression
    <3> QED BY <1>1, <1>4, <3>1, <3>2
  <2>2. iterations' = expr.limit /\ applications' = 0 /\ ~deactivated'
        BY <1>5 DEF ActivateExpression
  <2> QED BY <1>2, <1>3, <2>1, <2>2 DEF ExprInv, DeactivationShown
<1>6. CASE DeactivateExpression
  <2>1. output' \in OutputStates /\ DeactivationShown' /\ deactivated' \in BOOLEAN
        BY <1>1, <1>2, <1>6, LowType DEF DeactivateExpression
  <2>2. UNCHANGED <<iterations, applications, inputs>> /\ exprLine' = 0
        BY <1>6 DEF DeactivateExpression, BecomeLow
  <2>3. ExprTypeOK'
        BY <1>1, <1>4, <2>1, <2>2 DEF ExprTypeOK
  <2> QED BY <1>2, <2>1, <2>2, <2>3 DEF ExprInv
<1>7. CASE SwitchBroken
  <2>1. /\ iterations' = iterations /\ exprLine' \in {0, 1} /\ exprLine' = 1 - exprLine /\ iterations >= 0
        /\ applications' = IF exprLine = 0 THEN 0 ELSE applications
        BY <1>1, <1>7 DEF SwitchBroken, ExprTypeOK, IterationsFloor
  <2>2. ~deactivated' /\ UNCHANGED <<inputs, output>>
        BY <1>7 DEF SwitchBroken
  <2>3. ExprTypeOK'
    <3>1. iterations' \in IterationsFloor .. 2 /\ applications' \in 0 .. 3
          BY <1>1, <2>1 DEF ExprTypeOK
    <3>2. deactivated' \in BOOLEAN
          BY <1>7 DEF SwitchBroken
    <3> QED BY <1>1, <1>4, <2>1, <2>2, <3>1, <3>2
  <2>4. /\ iterations' <= expr.limit
        /\ expr.limit = 0 => applications' = 0
        /\ expr.limit > 0 => applications' <= expr.limit
        BY <1>3, <2>1 DEF ExprInv
  <2>5. exprLine' = 1 => applications' = 0 /\ iterations' >= 0
    <3>1. exprLine \in {0, 1}
          BY <1>1 DEF ExprTypeOK
    <3> QED BY <2>1, <3>1
  <2>6. applications' = 0 => applications' + iterations' <= expr.limit
        BY <1>1, <2>1, <2>4 DEF ExprTypeOK, IterationsFloor
  <2> QED BY <1>2, <2>2, <2>3, <2>4, <2>5, <2>6 DEF ExprInv, DeactivationShown
<1>8. CASE ExprDoWork
  <2>1. exprLine = 1 /\ inputs' = inputs /\ ~deactivated /\ deactivated \in BOOLEAN
        BY <1>1, <1>8 DEF ExprTypeOK, ExprInv, ExprDoWork, ApplyExpression, ApplyLast, ApplyLastBroken
  <2>2. After(output, Result) \in OutputStates
        BY <1>1, AfterType, ResultType
  <2>3. CASE ApplyExpression
    <3>1. exprLine' = 1 /\ ~deactivated' /\ deactivated' \in BOOLEAN /\ output' \in OutputStates /\ ~LastIteration
          BY <2>1, <2>2, <2>3 DEF ApplyExpression
    <3>2. ExprTypeOK'
          BY <1>4, <1>8, <2>1, <3>1, WorkKeeps
    <3> QED BY <1>2, <1>8, <3>1, <3>2, WorkKeeps DEF ExprInv, DeactivationShown
  <2>4. CASE ApplyLast
    <3>1. output' \in OutputStates /\ DeactivationShown' /\ deactivated' \in BOOLEAN
          BY <1>1, <1>2, <2>2, <2>4, LowType DEF ApplyLast
    <3>2. exprLine' = 0
          BY <2>4 DEF ApplyLast, BecomeLow
    <3>3. ExprTypeOK'
          BY <1>4, <1>8, <2>1, <3>1, <3>2, WorkKeeps
    <3> QED BY <1>2, <1>8, <3>1, <3>2, <3>3, WorkKeeps DEF ExprInv
  <2>5. CASE ApplyLastBroken
    <3>1. output' \in OutputStates /\ ~deactivated' /\ deactivated' \in BOOLEAN /\ exprLine' = 0
          BY <2>1, <2>2, <2>5 DEF ApplyLastBroken
    <3>2. ExprTypeOK'
          BY <1>4, <1>8, <2>1, <3>1, WorkKeeps
    <3> QED BY <1>2, <1>8, <3>1, <3>2, WorkKeeps DEF ExprInv, DeactivationShown
  <2> QED BY <1>8, <2>3, <2>4, <2>5 DEF ExprDoWork
<1>9. CASE InputChanges
  <2>1. UNCHANGED <<expr, exprLine, iterations, output, applications, deactivated>>
        BY <1>9 DEF InputChanges
  <2>2. \A p \in {"x", "y", "r"} : inputs'[p] \in InputValues[p]
        BY <1>1, <1>9 DEF InputChanges, ExprTypeOK
  <2>3. ExprTypeOK'
        BY <1>1, <2>1, <2>2 DEF ExprTypeOK
  <2>4. DeactivationShown'
        BY <2>1 DEF ExprInv, DeactivationShown, After
  <2> QED BY <2>1, <2>3, <2>4 DEF ExprInv
<1>10. CASE UNCHANGED exprVars
       BY <1>10 DEF exprVars, ExprInv, ExprTypeOK, DeactivationShown, After
<1> QED BY <1>5, <1>6, <1>7, <1>8, <1>9, <1>10 DEF ExprNext

-----------------------------------------------------------------------------
(* The InfluxDB port *)

InfluxInv == InfluxTypeOK /\ DataIntact

LEMMA DataOfType ==
  ASSUME NEW found \in SourceStates
  PROVE  DataOf(found) \in [fields : SUBSET ((1 .. Logged) \X {0, 1}), comma : BOOLEAN]
<1> DEFINE known == {i \in 1 .. Logged : found[i] # Failed}
<1>1. \A i \in known : found[i] \in {0, 1}
      BY DEF SourceStates
<1>2. {<<i, found[i]>> : i \in known} \in SUBSET ((1 .. Logged) \X {0, 1})
      BY <1>1
<1> QED BY <1>2 DEF DataOf

LEMMA InfluxStart == InfluxInit => InfluxInv
<1> SUFFICES ASSUME InfluxInit PROVE InfluxInv
    OBVIOUS
<1> USE InfluxAssumption
<1>1. sources \in SourceStates /\ collected \in SourceStates
      BY DEF InfluxInit, SourceStates
<1>2. dbData \in [fields : SUBSET ((1 .. Logged) \X {0, 1}), comma : BOOLEAN]
      BY DEF InfluxInit
<1>3. sinceLog \in 0 .. LogInterval + 1
      BY DEF InfluxInit
<1>4. postThread = "ended" /\ lost \in BOOLEAN
      BY DEF InfluxInit
<1> QED BY <1>1, <1>2, <1>3, <1>4 DEF InfluxInv, InfluxTypeOK, DataIntact

LEMMA LogTime ==
  ASSUME sinceLog \in 0 .. LogInterval + 1, InfluxTick
  PROVE  sinceLog' \in 0 .. LogInterval + 1
BY InfluxAssumption DEF InfluxTick

LEMMA InfluxStep == InfluxInv /\ [InfluxNext]_influxVars => InfluxInv'
<1> SUFFICES ASSUME InfluxInv, [InfluxNext]_influxVars PROVE InfluxInv'
    OBVIOUS
<1> USE InfluxAssumption DEF InfluxInv, InfluxTypeOK, DataIntact
<1>1. CASE Log
  <2>1. dbData' \in [fields : SUBSET ((1 .. Logged) \X {0, 1}), comma : BOOLEAN]
        BY <1>1, DataOfType DEF Log
  <2> QED BY <1>1, <2>1 DEF Log
<1>2. ASSUME NEW ok \in BOOLEAN, Post(ok) \/ FallBack(ok) PROVE InfluxInv'
      BY <1>2 DEF Post, FallBack
<1>3. CASE SourceChanges
  <2>1. sources' \in SourceStates
        BY <1>3 DEF SourceChanges, SourceStates
  <2> QED BY <1>3, <2>1 DEF SourceChanges
<1>4. CASE InfluxTick
  <2>1. sinceLog' \in 0 .. LogInterval + 1
        BY <1>4, LogTime
  <2>2. DataOf(collected)' = DataOf(collected)
        BY <1>4 DEF InfluxTick
  <2> QED BY <1>4, <2>1, <2>2, Zenon DEF InfluxTick
<1>5. CASE UNCHANGED influxVars
      BY <1>5 DEF influxVars
<1> QED BY <1>1, <1>2, <1>3, <1>4, <1>5 DEF InfluxNext, PostThread

-----------------------------------------------------------------------------
(* The Test port *)

LEMMA TestStart == TestInit => TestTypeOK
<1> SUFFICES ASSUME TestInit PROVE TestTypeOK
    OBVIOUS
<1>1. test \in TestType
      BY TestAssumption DEF TestInit
<1>2. testFrame \in 0 .. AgeMax /\ age \in Never .. AgeMax /\ waited \in 0 .. AgeMax
      BY DEF TestInit, Never, AgeMax
<1> QED BY <1>1, <1>2 DEF TestInit, TestTypeOK

LEMMA OlderType == \A a \in Never .. AgeMax : Older(a) \in Never .. AgeMax /\ (a >= 0 => Older(a) >= 0)
BY DEF Older, Never, AgeMax

LEMMA TestWorkType ==
  ASSUME TestTypeOK, NEW a \in Never .. AgeMax, NEW w \in 0 .. AgeMax, TestWork(a, w)
  PROVE  age' \in Never .. AgeMax /\ waited' \in 0 .. AgeMax /\ tested' \in BOOLEAN
           /\ result' \in {"runs", "failed", "shutdown"}
<1>1. age' \in Never .. AgeMax /\ waited' \in 0 .. AgeMax
      BY DEF TestWork, ForgetExecution, NotDue, FirstExecution, RunTests, Never, AgeMax
<1>2. tested' \in BOOLEAN
      BY Zenon DEF TestWork, ForgetExecution, NotDue, FirstExecution, RunTests
<1>3. result' \in {"runs", "failed", "shutdown"}
      BY DEF TestWork, ForgetExecution, NotDue, FirstExecution, RunTests, TestTypeOK
<1> QED BY <1>1, <1>2, <1>3

LEMMA TestStep == TestTypeOK /\ [TestNext]_testVars => TestTypeOK'
<1> SUFFICES ASSUME TestTypeOK, [TestNext]_testVars PROVE TestTypeOK'
    OBVIOUS
<1>1. /\ age \in Never .. AgeMax /\ Older(age) \in Never .. AgeMax
      /\ waited \in 0 .. AgeMax /\ Older(waited) \in 0 .. AgeMax
      /\ testFrame \in 0 .. AgeMax /\ Older(testFrame) \in 0 .. AgeMax
      BY OlderType DEF TestTypeOK, Never, AgeMax
<1>2. CASE TimedDoWork
  <2>1. TestWork(age, waited)
        BY <1>2 DEF TimedDoWork
  <2>2. age' \in Never .. AgeMax /\ waited' \in 0 .. AgeMax /\ tested' \in BOOLEAN
           /\ result' \in {"runs", "failed", "shutdown"}
        BY <1>1, <2>1, TestWorkType
  <2> QED BY <1>2, <2>2 DEF TimedDoWork, TestTypeOK
<1>3. CASE FrameDoWork
  <2>1. TestWork(Older(age), Older(waited))
        BY <1>3 DEF FrameDoWork
  <2>2. age' \in Never .. AgeMax /\ waited' \in 0 .. AgeMax /\ tested' \in BOOLEAN
           /\ result' \in {"runs", "failed", "shutdown"}
        BY <1>1, <2>1, TestWorkType
  <2> QED BY <1>1, <1>3, <2>2 DEF FrameDoWork, TestTypeOK
<1>4. CASE SwitchTest \/ PortsChange
  <2>1. testLine' \in {0, 1}
        BY <1>4 DEF SwitchTest, PortsChange, TestTypeOK
  <2>2. matches' \in BOOLEAN /\ tested' \in BOOLEAN
        BY <1>4 DEF SwitchTest, PortsChange, TestTypeOK
  <2> QED BY <1>4, <2>1, <2>2, Zenon DEF SwitchTest, PortsChange, TestTypeOK
<1>5. CASE TestTick
      BY <1>1, <1>5 DEF TestTick, TestTypeOK
<1>6. CASE TestRestart
  <2>1. testFrame' \in 0 .. AgeMax /\ age' \in Never .. AgeMax /\ waited' \in 0 .. AgeMax /\ testLine' \in {0, 1}
        BY <1>6 DEF TestRestart, Never, AgeMax
  <2> QED BY <1>6, <2>1 DEF TestRestart, TestTypeOK
<1>7. CASE UNCHANGED testVars
      BY <1>7 DEF testVars, TestTypeOK
<1> QED BY <1>2, <1>3, <1>4, <1>5, <1>6, <1>7 DEF TestNext

-----------------------------------------------------------------------------
(* The Event port.  While the main thread works undisturbed the client     *)
(* library stays away, and the outputs before the one it has come to have  *)
(* processed the last event.                                               *)

Handled(i) == lastEvent \in Patterns[i] => performed[i] = lastEvent

EventInv ==
  /\ EventTypeOK
  /\ eventStage # "writing" => eventValue = lastEvent
  /\ atOutput # 0 /\ ~disturbed => eventStage = "none" /\ \A i \in 1 .. atOutput - 1 : Handled(i)
  /\ eventStage = "none" /\ ~eventSet /\ atOutput = 0 /\ ~disturbed /\ lastEvent # NoEvent =>
       \A i \in Outputs : Handled(i)

LEMMA OutputsAre == Outputs = 1 .. AllDone - 1 /\ AllDone \in Nat \ {0}
<1>1. Patterns \in Seq(SUBSET (Events \cup {NoEvent, Unreadable}))
      BY EventAssumption
<1>2. Len(Patterns) \in Nat /\ DOMAIN Patterns = 1 .. Len(Patterns)
      BY <1>1
<1> QED BY <1>2 DEF Outputs, AllDone

LEMMA EventStart == EventInit => EventInv
<1> SUFFICES ASSUME EventInit PROVE EventInv
    OBVIOUS
<1>1. eventLine \in {0, 1} /\ atOutput \in 0 .. AllDone
      BY OutputsAre DEF EventInit
<1>2. performed \in [Outputs -> Events \cup {NoEvent, Unreadable}]
      BY DEF EventInit
<1> QED BY <1>1, <1>2 DEF EventInit, EventInv, EventTypeOK

LEMMA EventStep == EventInv /\ [EventNext]_eventVars => EventInv'
<1> SUFFICES ASSUME EventInv, [EventNext]_eventVars PROVE EventInv'
    OBVIOUS
<1> USE OutputsAre
<1>1. CASE EventArrives
      BY <1>1 DEF EventArrives, EventInv, EventTypeOK, Handled
<1>2. CASE EventWritten
      BY <1>2 DEF EventWritten, EventInv, EventTypeOK, Handled
<1>3. CASE EventStored
      BY <1>3 DEF EventStored, EventInv, EventTypeOK, Handled
<1>4. CASE DropEvent
      BY <1>4 DEF DropEvent, EventInv, EventTypeOK, Handled
<1>5. CASE BeginEvent
  <2>1. atOutput' \in 0 .. AllDone /\ atOutput' # 0 /\ 1 .. atOutput' - 1 = {}
        BY <1>5 DEF BeginEvent
  <2>2. disturbed' \in BOOLEAN /\ (~disturbed' => eventStage' = "none")
        BY <1>5 DEF BeginEvent
  <2>3. EventTypeOK'
        BY <1>5, <2>1, <2>2 DEF BeginEvent, EventInv, EventTypeOK
  <2> QED BY <1>5, <2>1, <2>2, <2>3 DEF BeginEvent, EventInv
<1>6. CASE ProcessEvent
  <2>1. PICK v \in EventRead :
          performed' = IF v \in Patterns[atOutput] THEN [performed EXCEPT ![atOutput] = v] ELSE performed
        BY <1>6 DEF ProcessEvent
  <2>2. EventRead \subseteq Events \cup {NoEvent, Unreadable}
        BY DEF EventRead, EventInv, EventTypeOK
  <2>3. EventTypeOK'
        BY <1>6, <2>1, <2>2 DEF ProcessEvent, EventInv, EventTypeOK
  <2>4. ASSUME ~disturbed, NEW i \in 1 .. atOutput PROVE Handled(i)'
    <3>1. v = lastEvent
          BY <1>6, <2>1, <2>4 DEF EventRead, EventInv, ProcessEvent
    <3>2. CASE i = atOutput
          BY <1>6, <2>1, <3>1, <3>2 DEF Handled, ProcessEvent, EventInv, EventTypeOK
    <3>3. CASE i # atOutput
      <4>1. Handled(i) /\ i \in 1 .. atOutput - 1
            BY <1>6, <2>4, <3>3 DEF EventInv, ProcessEvent
      <4>2. performed'[i] = performed[i]
            BY <1>6, <2>1, <3>3, <4>1 DEF EventInv, EventTypeOK, ProcessEvent
      <4> QED BY <1>6, <4>1, <4>2 DEF Handled, ProcessEvent
    <3> QED BY <3>2, <3>3
  <2> QED BY <1>6, <2>3, <2>4 DEF ProcessEvent, EventInv
<1>7. CASE EndEvent
  <2>1. atOutput' \in 0 .. AllDone /\ atOutput # 0 /\ 1 .. atOutput - 1 = Outputs
        BY <1>7 DEF EndEvent
  <2>2. EventTypeOK'
        BY <1>7, <2>1 DEF EndEvent, EventInv, EventTypeOK
  <2> QED BY <1>7, <2>1, <2>2 DEF EndEvent, EventInv, Handled
<1>8. CASE SwitchEvents
      BY <1>8 DEF SwitchEvents, EventInv, EventTypeOK, Handled
<1>9. CASE UNCHANGED eventVars
      BY <1>9 DEF eventVars, EventInv, EventTypeOK, Handled
<1> QED BY <1>1, <1>2, <1>3, <1>4, <1>5, <1>6, <1>7, <1>8, <1>9 DEF EventNext, HandlePayload, EventDoWork

-----------------------------------------------------------------------------
(* A fade runs in one direction: what it has shown last is a level of its  *)
(* own, of a moment that has passed.                                       *)

LEMMA Along ==
  ASSUME NEW from \in Levels, NEW to \in Levels, NEW whole \in {1, 4, 9}, NEW p \in 0 .. whole, NEW q \in 0 .. whole,
         p <= q
  PROVE  /\ from <= to => (from * whole + p * (to - from)) \div whole <= (from * whole + q * (to - from)) \div whole
         /\ to <= from => (from * whole + q * (to - from)) \div whole <= (from * whole + p * (to - from)) \div whole
<1>1. from \in 0 .. 4 /\ to \in 0 .. 4
      BY DEF Levels, MaxLevel
<1> DEFINE a == from * whole + p * (to - from)
           b == from * whole + q * (to - from)
<1>2. to - from \in -4 .. 4 /\ p \in Int /\ q \in Int /\ from * whole \in Int
      BY <1>1
<1>3. a \in Int /\ b \in Int /\ (from <= to => a <= b) /\ (to <= from => b <= a)
  <2> DEFINE d == to - from
  <2>1. d \in -4 .. 4 /\ (from <= to => d >= 0) /\ (to <= from => d <= 0)
        BY <1>1
  <2> HIDE DEF d
  <2>2. (d >= 0 => p * d <= q * d) /\ (d <= 0 => q * d <= p * d) /\ p * d \in Int /\ q * d \in Int
        BY <1>2, <2>1
  <2>3. a = from * whole + p * d /\ b = from * whole + q * d
        BY DEF d
  <2> HIDE DEF a, b
  <2> QED BY <1>2, <2>1, <2>2, <2>3
<1> HIDE DEF a, b
<1>4. \A x, y \in Int : x <= y => x \div whole <= y \div whole
      OBVIOUS
<1>5. (from <= to => a \div whole <= b \div whole) /\ (to <= from => b \div whole <= a \div whole)
      BY <1>3, <1>4
<1> QED BY <1>5 DEF a, b

FadesTo(t, u) == IF (left <= right) <=> ~fader.invert THEN Fade(u) >= Fade(t) ELSE Fade(u) <= Fade(t)

LEMMA FadeGoesOn ==
  ASSUME FaderTypeOK, fader.duration > 0, NEW t \in 0 .. fader.duration, NEW u \in 0 .. fader.duration, t <= u
  PROVE  FadesTo(t, u)
<1> DEFINE from == IF fader.invert /\ fader.linear THEN right ELSE left
           to == IF fader.invert /\ fader.linear THEN left ELSE right
           passed(x) == IF fader.invert /\ ~fader.linear THEN fader.duration - x ELSE x
           part(x) == IF fader.linear THEN passed(x) * fader.duration ELSE passed(x) * passed(x)
           whole == fader.duration * fader.duration
           shown(x) == (from * whole + part(x) * (to - from)) \div whole
<1>1. from \in Levels /\ to \in Levels /\ left \in Levels /\ right \in Levels
      BY DEF FaderTypeOK
<1>2. fader.duration \in {1, 2, 3} /\ fader.invert \in BOOLEAN /\ fader.linear \in BOOLEAN
      BY FaderConfig
<1>3. \A x \in 0 .. fader.duration : passed(x) \in 0 .. fader.duration
      BY <1>2
<1>4. whole \in {1, 4, 9}
      BY <1>2
<1>5. \A x \in 0 .. fader.duration : part(x) \in 0 .. whole
  <2>1. SUFFICES ASSUME NEW x \in 0 .. fader.duration PROVE part(x) \in 0 .. whole
        OBVIOUS
  <2>2. \A y \in 0 .. fader.duration : y * fader.duration \in 0 .. whole /\ y * y \in 0 .. whole
        BY <1>2
  <2> HIDE DEF whole
  <2> QED BY <1>3, <2>2
<1>6. (fader.invert /\ ~fader.linear => part(u) <= part(t)) /\ (~fader.invert \/ fader.linear => part(t) <= part(u))
  <2>1. \A y, z \in 0 .. fader.duration : y <= z => y * fader.duration <= z * fader.duration /\ y * y <= z * z
        BY <1>2
  <2>2. fader.invert /\ ~fader.linear => passed(u) <= passed(t)
        BY <1>2
  <2>3. ~fader.invert \/ fader.linear => passed(t) <= passed(u)
        BY <1>2
  <2>4. passed(t) \in 0 .. fader.duration /\ passed(u) \in 0 .. fader.duration
        BY <1>3
  <2> HIDE DEF passed
  <2> QED BY <2>1, <2>2, <2>3, <2>4
<1>7. \A x \in 0 .. fader.duration : Fade(x) = shown(x)
  <2>1. from * fader.duration * fader.duration = from * whole
        BY <1>1, <1>2 DEF Levels, MaxLevel
  <2> HIDE DEF whole
  <2>2. whole = fader.duration * fader.duration
        BY DEF whole
  <2> QED BY <2>1, <2>2 DEF Fade
<1>8. part(t) \in 0 .. whole /\ part(u) \in 0 .. whole
      BY <1>5
<1>9. part(t) <= part(u) => (from <= to => shown(t) <= shown(u)) /\ (to <= from => shown(u) <= shown(t))
  <2> HIDE DEF from, to, whole, part
  <2> QED BY <1>1, <1>4, <1>8, Along
<1>10. part(u) <= part(t) => (from <= to => shown(u) <= shown(t)) /\ (to <= from => shown(t) <= shown(u))
  <2> HIDE DEF from, to, whole, part
  <2> QED BY <1>1, <1>4, <1>8, Along
<1>11. shown(t) \in Int /\ shown(u) \in Int
  <2> HIDE DEF from, to, whole, part
  <2>1. from \in Int /\ to \in Int /\ whole \in {1, 4, 9} /\ part(t) \in Int /\ part(u) \in Int
        BY <1>1, <1>4, <1>8 DEF Levels, MaxLevel
  <2> QED BY <2>1
<1>12. Fade(t) = shown(t) /\ Fade(u) = shown(u)
       BY <1>7
<1> HIDE DEF shown, part, passed, from, to, whole
<1>13. left \in Int /\ right \in Int
       BY <1>1 DEF Levels, MaxLevel
<1>14. CASE ~fader.invert
  <2>1. from = left /\ to = right /\ part(t) <= part(u)
        BY <1>6, <1>14 DEF from, to
  <2>2. ((left <= right) <=> ~fader.invert) <=> left <= right
        BY <1>14, Zenon
  <2>3. IF left <= right THEN Fade(u) >= Fade(t) ELSE Fade(u) <= Fade(t)
        BY <1>9, <1>11, <1>12, <1>13, <2>1
  <2> QED BY <2>2, <2>3, Zenon DEF FadesTo
<1>15. CASE fader.invert /\ fader.linear
  <2>1. from = right /\ to = left /\ part(t) <= part(u)
        BY <1>6, <1>15 DEF from, to
  <2>2. ((left <= right) <=> ~fader.invert) <=> ~(left <= right)
        BY <1>15, Zenon
  <2>3. IF left <= right THEN Fade(u) <= Fade(t) ELSE Fade(u) >= Fade(t)
        BY <1>9, <1>11, <1>12, <1>13, <2>1
  <2> QED BY <2>2, <2>3, Zenon DEF FadesTo
<1>16. CASE fader.invert /\ ~fader.linear
  <2>1. from = left /\ to = right /\ part(u) <= part(t)
        BY <1>6, <1>16 DEF from, to
  <2>2. ((left <= right) <=> ~fader.invert) <=> ~(left <= right)
        BY <1>16, Zenon
  <2>3. IF left <= right THEN Fade(u) <= Fade(t) ELSE Fade(u) >= Fade(t)
        BY <1>10, <1>11, <1>12, <1>13, <2>1
  <2> QED BY <2>2, <2>3, Zenon DEF FadesTo
<1> QED BY <1>14, <1>15, <1>16

FadeShown ==
  fadeLine = 1 /\ writer = "fader" => \E t \in 0 .. fader.duration : t <= elapsed /\ level = Fade(t)

LEMMA FadeSame == UNCHANGED <<fader, left, right>> => \A t : Fade(t)' = Fade(t)
BY DEF Fade

LEMMA FadeShownStep == FaderInv /\ FadeShown /\ [FaderNext]_faderVars => FadeShown'
<1> SUFFICES ASSUME FaderInv, FadeShown, [FaderNext]_faderVars, fadeLine' = 1, writer' = "fader"
             PROVE  \E t \in 0 .. fader'.duration : t <= elapsed' /\ level' = Fade(t)'
    BY DEF FadeShown
<1>1. fader.duration \in 0 .. 3 /\ elapsed \in 0 .. fader.duration + 1
      BY FaderConfig DEF FaderInv, FaderTypeOK
<1>2. CASE SetLevel
  <2>1. action = "none" /\ fadeLine = 1 /\ elapsed <= fader.duration /\ level' = Fade(elapsed)
        /\ UNCHANGED <<fader, left, right, elapsed>>
        BY <1>2 DEF SetLevel
  <2> QED BY <1>1, <2>1, FadeSame
<1>3. CASE FaderOthers \/ FaderTick \/ UNCHANGED faderVars
  <2>1. /\ UNCHANGED <<fader, left, right, level, writer, fadeLine>>
        /\ elapsed' \in {elapsed, elapsed + 1}
        BY <1>3 DEF FaderOthers, FaderTick, faderVars
  <2>2. PICK t \in 0 .. fader.duration : t <= elapsed /\ level = Fade(t)
        BY <2>1 DEF FadeShown
  <2> QED BY <1>1, <2>1, <2>2, FadeSame
<1>4. CASE SwitchOn \/ SwitchOff \/ EndFade
      BY <1>4 DEF SwitchOn, SwitchOff, EndFade, TurnOff
<1> QED BY <1>2, <1>3, <1>4 DEF FaderNext, FaderDoWork

LEMMA FadingStep ==
  FaderInv /\ FadeShown /\ FaderNext =>
    (SetLevel /\ action = "none" /\ writer = "fader" =>
       IF (left <= right) <=> ~fader.invert THEN level' >= level ELSE level' <= level)
<1> SUFFICES ASSUME FaderInv, FadeShown, SetLevel, action = "none", writer = "fader"
             PROVE  IF (left <= right) <=> ~fader.invert THEN level' >= level ELSE level' <= level
    OBVIOUS
<1>1. FaderTypeOK /\ fadeLine = 1 /\ elapsed <= fader.duration /\ level' = Fade(elapsed) /\ fader.duration > 0
      BY DEF SetLevel, FaderInv
<1>2. fader.duration \in 0 .. 3 /\ elapsed \in 0 .. fader.duration
      BY <1>1, FaderConfig DEF FaderTypeOK
<1>3. PICK t \in 0 .. fader.duration : t <= elapsed /\ level = Fade(t)
      BY <1>1 DEF FadeShown
<1>4. FadesTo(t, elapsed)
      BY <1>1, <1>2, <1>3, FadeGoesOn
<1> QED BY <1>1, <1>3, <1>4 DEF FadesTo

-----------------------------------------------------------------------------
(* A Test port waits: the interval has begun no earlier than the waiting.  *)

Waits == test.base = "time" /\ age # Never => age <= waited

LEMMA WaitsStep == TestTypeOK /\ Waits /\ [TestNext]_testVars => Waits'
<1> SUFFICES ASSUME TestTypeOK, Waits, [TestNext]_testVars, test'.base = "time", age' # Never PROVE age' <= waited'
    BY DEF Waits
<1>1. age \in -1 .. 3 /\ waited \in 0 .. 3
      BY DEF TestTypeOK, Never, AgeMax
<1>2. test' = test
      BY DEF TestNext, TimedDoWork, FrameDoWork, SwitchTest, PortsChange, TestTick, TestRestart, testVars
<1>3. CASE TimedDoWork
  <2>1. TestWork(age, waited)
        BY <1>3 DEF TimedDoWork
  <2>2. CASE ForgetExecution
        BY <2>2 DEF ForgetExecution
  <2>3. CASE NotDue(age, waited)
        BY <1>2, <2>3 DEF NotDue, Waits
  <2>4. CASE FirstExecution(age, waited) \/ RunTests(age)
        BY <1>1, <2>4 DEF FirstExecution, RunTests
  <2> QED BY <2>1, <2>2, <2>3, <2>4 DEF TestWork
<1>4. CASE TestTick
      BY <1>1, <1>2, <1>4 DEF TestTick, Waits, Older, Never, AgeMax
<1>5. CASE FrameDoWork
      BY <1>2, <1>5 DEF FrameDoWork
<1>6. CASE TestRestart
      BY <1>6 DEF TestRestart
<1>7. CASE SwitchTest \/ PortsChange \/ UNCHANGED testVars
      BY <1>2, <1>7 DEF SwitchTest, PortsChange, testVars, Waits
<1> QED BY <1>3, <1>4, <1>5, <1>6, <1>7 DEF TestNext

LEMMA WaitingStep == TestTypeOK /\ Waits /\ TestNext => (test.base = "time" /\ tested' => waited > test.interval)
<1> SUFFICES ASSUME TestTypeOK, Waits, TestNext, test.base = "time", tested' PROVE waited > test.interval
    OBVIOUS
<1>1. age \in -1 .. 3 /\ waited \in 0 .. 3 /\ test.interval \in 1 .. 2
      BY DEF TestTypeOK, Never, AgeMax, TestType
<1>2. TimedDoWork
      BY DEF TestNext, FrameDoWork, SwitchTest, PortsChange, TestTick, TestRestart
<1>3. RunTests(age)
      BY <1>2 DEF TimedDoWork, TestWork, ForgetExecution, NotDue, FirstExecution
<1>4. age # Never /\ age > test.interval
      BY <1>3 DEF RunTests, ExecutionDue, Wraps
<1> QED BY <1>1, <1>4 DEF Waits

-----------------------------------------------------------------------------
(* The ports in one specification: a step is one of one of them, which     *)
(* leaves the variables of the others as they are.                         *)

StandardIInv ==
  /\ SignalInv
  /\ SelectInv
  /\ FaderInv /\ FadeShown
  /\ FileTypeOK
  /\ AggInv
  /\ ExprInv
  /\ InfluxInv
  /\ TestTypeOK /\ Waits
  /\ EventInv

\* A step of every port, taken or not.
StandardSteps ==
  /\ [SignalNext]_signalVars
  /\ [SelectNext]_roomVars
  /\ [FaderNext]_faderVars
  /\ [FileNext]_fileVars
  /\ [AggregatorNext]_aggVars
  /\ [ExprNext]_exprVars
  /\ [InfluxNext]_influxVars
  /\ [TestNext]_testVars
  /\ [EventNext]_eventVars

LEMMA OneAtATime == [StandardNext]_<<which, others>> => StandardSteps
BY DEF StandardNext, StandardSteps, others, laterVars, earlierVars

LEMMA StandardStart == StandardInit => StandardIInv
<1>1. StandardInit => SignalInit /\ SelectInit /\ FaderInit /\ FileInit /\ AggregatorInit
                        /\ ExprInit /\ InfluxInit /\ TestInit /\ EventInit
      BY DEF StandardInit
<1>2. (FaderInit => FadeShown) /\ (TestInit => Waits)
      BY DEF FaderInit, FadeShown, TestInit, Waits
<1> QED BY <1>1, <1>2, SignalStart, SelectStart, FaderStart, FileStart, AggStart, ExprStart, InfluxStart, TestStart,
           EventStart DEF StandardIInv

LEMMA StandardStep == StandardIInv /\ [StandardNext]_<<which, others>> => StandardIInv'
BY OneAtATime, SignalStep, SelectStep, FaderStep, FadeShownStep, FileStep, AggStep, ExprStep, InfluxStep, TestStep,
   WaitsStep, EventStep
   DEF StandardIInv, StandardSteps

LEMMA StandardFollows == StandardIInv => StandardInv
<1>1. SignalInv => SignalTypeOK /\ FollowsLogic
      BY DEF SignalInv
<1>2. SelectInv => SelectTypeOK /\ SceneApplied
      BY DEF SelectInv
<1>3. FaderInv => FaderTypeOK
      BY DEF FaderInv
<1>4. AggInv => AggregatorTypeOK /\ AggregatorInv
      BY DEF AggInv
<1>5. ExprInv => ExprTypeOK /\ DeactivationShown /\ LimitKept
      BY DEF ExprInv, LimitKept
<1>6. InfluxInv => InfluxTypeOK /\ DataIntact
      BY DEF InfluxInv
<1>7. EventInv => EventTypeOK /\ EventsHandled
      BY DEF EventInv, EventsHandled, Handled
<1> QED BY <1>1, <1>2, <1>3, <1>4, <1>5, <1>6, <1>7 DEF StandardIInv, StandardInv

\* Whatever the configuration of the ports: outputs that nothing else has set
\* have the line of their Logic port, the settings of the scene of a position
\* have been applied, an Aggregator port shows what it has collected,
\* expressions keep to their limit and leave the deactivation value, the data
\* set of an InfluxDB port stays intact while it is posted, and an event that
\* has arrived undisturbed has been processed by every output.
THEOREM StandardInvariantHolds == StandardSpec => []StandardInv
<1>1. StandardInit => StandardIInv
      BY StandardStart
<1>2. StandardIInv /\ [StandardNext]_<<which, others>> => StandardIInv'
      BY StandardStep
<1>3. StandardIInv => StandardInv
      BY StandardFollows
<1> QED BY <1>1, <1>2, <1>3, PTL DEF StandardSpec

\* A Trigger port fires on an edge that it has not used before, in whatever
\* order the ports work and others change lines, and the overflow ports of a
\* Counter port tell an increment that overflows from one that does not.
THEOREM EdgesCountedHolds == StandardSpec => EdgesCounted
<1>1. StandardInit => StandardIInv
      BY StandardStart
<1>2. StandardIInv /\ [StandardNext]_<<which, others>> => StandardIInv'
      BY StandardStep
<1>3. StandardIInv /\ [StandardNext]_<<which, others>> =>
        [fired' /\ Trigger.edge = "rising" => \E p \in rested : line[p] = High]_signalVars
      BY OneAtATime, FiringStep DEF StandardSteps, StandardIInv, FiresOnEdge
<1>4. StandardIInv /\ [StandardNext]_<<which, others>> =>
        [Counter.increment > 0 /\ IncrementFits /\ position' # position =>
           \A p \in Counter.overflow : line'[p] = Level(position' < position)]_signalVars
      BY OneAtATime, AnnouncingStep DEF StandardSteps, StandardIInv, Announces
<1> QED BY <1>1, <1>2, <1>3, <1>4, PTL DEF StandardSpec, EdgesCounted, FiresOncePerEdge, OverflowAnnounced

\* A fade moves its output in one direction, whatever it resolves Left and Right
\* to, unless something else sets the output meanwhile.
THEOREM FadesOneWayHolds == StandardSpec => FadesOneWay
<1>1. StandardInit => StandardIInv
      BY StandardStart
<1>2. StandardIInv /\ [StandardNext]_<<which, others>> => StandardIInv'
      BY StandardStep
<1>3. StandardIInv /\ [StandardNext]_<<which, others>> =>
        [SetLevel /\ action = "none" /\ writer = "fader" =>
           IF (left <= right) <=> ~fader.invert THEN level' >= level ELSE level' <= level]_faderVars
      BY OneAtATime, FadingStep DEF StandardSteps, StandardIInv
<1> QED BY <1>1, <1>2, <1>3, PTL DEF StandardSpec, FadesOneWay

\* No test runs before the interval has passed since the last one, or since
\* doWork saw the port Low, however often it is switched.
THEOREM TestsWaitHolds == StandardSpec => TestsWait
<1>1. StandardInit => StandardIInv
      BY StandardStart
<1>2. StandardIInv /\ [StandardNext]_<<which, others>> => StandardIInv'
      BY StandardStep
<1>3. StandardIInv /\ [StandardNext]_<<which, others>> =>
        [test.base = "time" /\ tested' => waited > test.interval]_testVars
      BY OneAtATime, WaitingStep DEF StandardSteps, StandardIInv
<1> QED BY <1>1, <1>2, <1>3, PTL DEF StandardSpec, TestsWait
=============================================================================
