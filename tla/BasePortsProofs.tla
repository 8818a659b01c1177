--------------------------- MODULE BasePortsProofs ---------------------------
(***************************************************************************)
(* What all ports have in common, and the port that starts processes: the  *)
(* theorems about PortValue, PersistentConfig and ExecPort, and the one    *)
(* that puts them together with those about ChangePropagation, as          *)
(* MCBasePorts does.                                                       *)
(*                                                                         *)
(* PortValue.  For any configurations of a port: unless it is an analog    *)
(* one, expressions see its value, and a start finds it as it was if the   *)
(* file has what memory had, which a requested shutdown sees to (the ports *)
(* of type Custom excepted, which are not persisted).  StateSurvives needs *)
(* to know what the persistent configuration has in memory (Kept): the     *)
(* state of the port, or a state a start has turned into it.  The second   *)
(* case is that of a dial off its grid, which a start takes for 0.  Before *)
(* the first change the configuration has nothing, and the port is as it   *)
(* starts.                                                                 *)
(*                                                                         *)
(* PersistentConfig.  For any number of ports and values and any throttle: *)
(* a requested shutdown loses nothing, and the file does not mix two       *)
(* moments, a save that a crash cuts excepted.  Both rest on one fact: the *)
(* persistent configuration in memory, read as a start would read it, is   *)
(* the state of the ports (Current).  The file is a copy of what it was at *)
(* the last save, or a part of it (Partial).                               *)
(*                                                                         *)
(* ExecPort.  Until KillTime cuts a process short, an Exec port never runs *)
(* two instances of its program, however often its line is switched and    *)
(* however the two threads are interleaved.  The only process that can be  *)
(* alive is the one processPID names, and a new one needs processPID = 0.  *)
(* Only doWork resets it, when the waiter has reported the end; the waiter *)
(* reports it after waitpid has fetched that very process, because nothing *)
(* resets processPID while the waiter is on its way.                       *)
(***************************************************************************)
EXTENDS MCBasePorts, ChangePropagationProofs

-----------------------------------------------------------------------------
(* PortValue: the invariant *)

\* Ports that are not analog have no resolution and no reference, and only
\* digital ones a mode.
PlainStates ==
  {s \in States : s.resolution = 2 /\ s.reference = 0 /\ (conf.kind # "digital" => s.mode = 0)}

Plain ==
  /\ conf \in ConfigType
  /\ error \in {"ok", "expired", "unavailable"}
  /\ conf.kind # "analog" =>
       state \in PlainStates /\ saved \subseteq PlainStates /\ stored \subseteq PlainStates

Restorable == conf.kind \in {"digital", "select", "dial"}

Kept ==
  conf.persistent /\ Restorable /\ error = "ok" =>
    \/ saved = {} /\ state = StartState
    \/ \E s \in PlainStates : saved = {s} /\ (state = s \/ state = RestoredState(s))

\* memory and the file have one state, if any
Single ==
  /\ saved = {} \/ \E s \in saved : saved = {s}
  /\ stored = {} \/ \E s \in stored : stored = {s}

\* a requested shutdown has saved everything
ShutSaved == life = "shut down" => stored = saved

PortIInv == Plain /\ Kept /\ Single /\ ShutSaved /\ ExpressionsSeeValue

-----------------------------------------------------------------------------
(* PortValue: the setters *)

LEMMA StartIsPlain ==
  ASSUME conf \in ConfigType
  PROVE  /\ StartState \in PlainStates
         /\ StartState = [mode |-> IF conf.kind = "digital" THEN conf.pull ELSE 0,
                          value |-> 0, resolution |-> 2, reference |-> 0]
BY DEF StartState, NewState, PlainStates, States, ConfigType

\* What a start makes of a state: itself, but for a dial that is off its grid
\* and an input with a pullup or pulldown.
LEMMA RestoredIsPlain ==
  ASSUME conf \in ConfigType, conf.kind # "analog", NEW s \in PlainStates
  PROVE  /\ RestoredState(s) \in PlainStates
         /\ /\ Restorable
            /\ conf.kind = "dial" => s.value % conf.step = 0
            /\ conf.kind = "digital" => s.mode \notin {1, 2} /\ (conf.pull # 0 => s.mode = 3)
            => RestoredState(s) = s
<1>1. conf.step \in {1, 2} /\ conf.pull \in 0 .. 2
      BY DEF ConfigType
<1>2. CASE conf.kind = "digital"
  <2> DEFINE m == IF s.mode = 3 THEN 3 ELSE conf.pull
  <2>1. RestoredState(s) = [StartState EXCEPT !.mode = m, !.value = s.value]
        BY <1>2 DEF RestoredState, RestoredDigital
  <2>2. s = [mode |-> s.mode, value |-> s.value, resolution |-> 2, reference |-> 0]
        /\ s.mode \in 0 .. 3 /\ s.value \in 0 .. 3
        BY DEF PlainStates, States
  <2> HIDE DEF m
  <2>0. StartState = [mode |-> conf.pull, value |-> 0, resolution |-> 2, reference |-> 0]
        BY <1>2, StartIsPlain
  <2>3. RestoredState(s) = [mode |-> m, value |-> s.value, resolution |-> 2, reference |-> 0]
        BY <2>0, <2>1
  <2>4. m \in 0 .. 3 /\ (s.mode \notin {1, 2} /\ (conf.pull # 0 => s.mode = 3) => m = s.mode)
        BY <1>1, <2>2 DEF m
  <2>5. RestoredState(s) \in PlainStates
        BY <1>2, <2>2, <2>3, <2>4 DEF PlainStates, States
  <2> QED BY <1>2, <2>2, <2>3, <2>4, <2>5
<1>3. CASE conf.kind \in {"select", "dial", "custom"}
  <2>1. s = [mode |-> 0, value |-> s.value, resolution |-> 2, reference |-> 0] /\ s.value \in 0 .. 3
        BY <1>3 DEF PlainStates, States
  <2>0. StartState = [mode |-> 0, value |-> 0, resolution |-> 2, reference |-> 0]
        BY <1>3, StartIsPlain
  <2>2. CASE conf.kind = "select"
    <3>1. RestoredState(s) = [StartState EXCEPT !.value = s.value]
          BY <2>2 DEF RestoredState, RestoredSelect
    <3>2. RestoredState(s) = [mode |-> 0, value |-> s.value, resolution |-> 2, reference |-> 0]
          BY <2>0, <3>1
    <3> QED BY <2>1, <2>2, <3>2
  <2>3. CASE conf.kind \in {"dial", "custom"}
    <3> DEFINE v == IF (s.value \div conf.step) * conf.step = 0 THEN 0 ELSE s.value
    <3>1. RestoredState(s) = [StartState EXCEPT !.value = v]
          BY <2>3 DEF RestoredState, RestoredDial
    <3>2. RestoredState(s) = [mode |-> 0, value |-> v, resolution |-> 2, reference |-> 0]
          BY <2>0, <3>1
    <3>3. v \in {0, s.value} /\ (s.value % conf.step = 0 => v = s.value)
      <4>1. CASE conf.step = 1
            BY <2>1, <4>1
      <4>2. CASE conf.step = 2
            BY <2>1, <4>2
      <4> QED BY <1>1, <4>1, <4>2
    <3>4. RestoredState(s) \in PlainStates
          BY <1>3, <2>1, <3>2, <3>3 DEF PlainStates, States
    <3> QED BY <2>1, <2>3, <3>2, <3>3, <3>4 DEF Restorable
  <2> QED BY <1>3, <2>2, <2>3
<1> QED BY <1>2, <1>3 DEF ConfigType

\* What persist leaves behind, in memory and in the file.
LEMMA PersistedSingle ==
  ASSUME NEW s, NEW e, Single, Persisted(s, e)
  PROVE  Single'
<1> DEFINE t == [s EXCEPT !.reference = 0]
<1>1. \/ saved' = {t} /\ stored' \in {stored, {t}}
      \/ UNCHANGED <<saved, stored>>
      BY DEF Persisted
<1> HIDE DEF t
<1> QED BY <1>1 DEF Single

LEMMA PersistedKeeps ==
  ASSUME conf \in ConfigType, conf.kind # "analog", NEW s \in PlainStates, NEW e,
         saved \subseteq PlainStates, stored \subseteq PlainStates, Persisted(s, e)
  PROVE  /\ saved' \subseteq PlainStates /\ stored' \subseteq PlainStates
         /\ conf.persistent /\ Restorable /\ e = "ok" => saved' = {s}
<1> DEFINE t == [s EXCEPT !.reference = 0]
<1>1. t = s
      BY DEF PlainStates, States
<1>2. \/ /\ saved' = {t} /\ stored' \in {stored, {t}}
      \/ /\ ~(conf.persistent /\ e = "ok" /\ conf.kind # "custom")
         /\ UNCHANGED <<saved, stored>>
      BY DEF Persisted
<1> HIDE DEF t
<1> QED BY <1>1, <1>2 DEF Restorable

\* A value that is assigned is in the persistent configuration and in what
\* expressions see, and one that changes nothing leaves both as they are.
LEMMA AssignedKeepsIInv ==
  ASSUME PortIInv, conf.kind # "analog", NEW v \in 0 .. 3, Assigned(state, v),
         life = "running", UNCHANGED <<conf, life>>
  PROVE  PortIInv'
<1> USE DEF PortIInv, Plain
<1> DEFINE new == [state EXCEPT !.value = v]
<1>1. Valid(v, state.resolution) = v
      BY DEF Valid
<1>2. new \in PlainStates
      BY DEF PlainStates, States
<1>3. PlainStates' = PlainStates
      BY DEF PlainStates
<1>6. ShutSaved'
      BY DEF ShutSaved
<1>4. CASE Differs(v) \/ error # "ok"
  <2>0. new.value = v
        BY DEF PlainStates, States
  <2> HIDE DEF new
  <2>1. /\ state' = new /\ Persisted(new, "ok") /\ error' = "ok"
        /\ valueAsDouble' = Double(new)
        BY <1>1, <1>4, <2>0 DEF Assigned, Store, new
  <2>2. /\ saved' \subseteq PlainStates /\ stored' \subseteq PlainStates
        /\ conf.persistent /\ Restorable => saved' = {new}
        BY <1>2, <2>1, PersistedKeeps
  <2>3. Plain'
        BY <1>2, <1>3, <2>1, <2>2 DEF Plain
  <2>4. Kept'
        BY <1>2, <1>3, <2>1, <2>2 DEF Kept, Restorable
  <2>5. Single'
        BY <2>1, PersistedSingle
  <2>6. ExpressionsSeeValue'
        BY <2>1 DEF ExpressionsSeeValue, Double
  <2> QED BY <1>6, <2>3, <2>4, <2>5, <2>6
<1>5. CASE ~(Differs(v) \/ error # "ok")
  <2>0. new.value = v
        BY DEF PlainStates, States
  <2>1. UNCHANGED <<state, saved, stored, error, valueAsDouble>>
        BY <1>1, <1>5, <2>0 DEF Assigned
  <2>2. /\ \A s \in PlainStates : RestoredState(s)' = RestoredState(s)
        /\ StartState' = StartState
        BY DEF RestoredState, RestoredDigital, RestoredAnalog, RestoredSelect, RestoredDial, Valid,
               StartState, NewState
  <2>3. Plain' /\ Kept' /\ Single'
        BY <1>3, <2>1, <2>2 DEF Kept, Single, Restorable
  <2>4. ExpressionsSeeValue'
        BY <2>1 DEF ExpressionsSeeValue, Double
  <2> QED BY <1>6, <2>3, <2>4
<1> QED BY <1>4, <1>5

\* a step that has nothing to do with the state or the error
LEMMA KeepsPortIInv ==
  ASSUME PortIInv, UNCHANGED <<conf, state, error, valueAsDouble, saved>>,
         Single', ShutSaved', conf.kind # "analog" => stored' \subseteq PlainStates
  PROVE  PortIInv'
<1>1. PlainStates' = PlainStates
      BY DEF PlainStates
<1>2. /\ \A s \in PlainStates : RestoredState(s)' = RestoredState(s)
      /\ StartState' = StartState
      BY DEF RestoredState, RestoredDigital, RestoredAnalog, RestoredSelect, RestoredDial, Valid,
             StartState, NewState
<1>3. Plain' /\ Kept'
      BY <1>1, <1>2 DEF PortIInv, Plain, Kept, Restorable
<1>4. ExpressionsSeeValue'
      BY DEF PortIInv, ExpressionsSeeValue, Double
<1> QED BY <1>3, <1>4 DEF PortIInv

\* Of an analog port the invariant says little.
LEMMA AnalogKeepsIInv ==
  ASSUME PortIInv, conf.kind = "analog", UNCHANGED conf,
         error' \in {"ok", "expired", "unavailable"}, Single', life' = "running"
  PROVE  PortIInv'
<1>1. Plain'
      BY DEF PortIInv, Plain
<1>2. Kept' /\ ExpressionsSeeValue' /\ ShutSaved'
      BY DEF Kept, Restorable, ExpressionsSeeValue, ShutSaved
<1> QED BY <1>1, <1>2 DEF PortIInv

LEMMA AnalogAssigned ==
  ASSUME NEW s, NEW v, Assigned(s, v), error \in {"ok", "expired", "unavailable"}, Single
  PROVE  error' \in {"ok", "expired", "unavailable"} /\ Single'
<1> DEFINE new == [s EXCEPT !.value = Valid(v, s.resolution)]
<1>1. CASE Differs(new.value) \/ error # "ok"
  <2>1. error' = "ok" /\ Persisted(new, "ok")
        BY <1>1 DEF Assigned, Store
  <2> HIDE DEF new
  <2> QED BY <2>1, PersistedSingle
<1>2. CASE ~(Differs(new.value) \/ error # "ok")
      BY <1>2 DEF Assigned, Single
<1> QED BY <1>1, <1>2

-----------------------------------------------------------------------------
(* PortValue: the steps *)

LEMMA InitPortIInv == ASSUME PortInit PROVE PortIInv
<1>1. conf \in ConfigType
      BY ConfigsAssumption DEF PortInit
<1>2. Plain
      BY <1>1, StartIsPlain DEF PortInit, Plain
<1>3. Kept /\ Single /\ ShutSaved
      BY DEF PortInit, Kept, Single, ShutSaved
<1>4. ExpressionsSeeValue
      BY DEF PortInit, ExpressionsSeeValue
<1> QED BY <1>2, <1>3, <1>4 DEF PortIInv

LEMMA SetValueIInv ==
  ASSUME PortIInv, life = "running", NEW v \in Inputs, SetValue(v)
  PROVE  PortIInv'
<1>1. UNCHANGED <<conf, life>>
      BY DEF SetValue
<1>2. CASE SetAbsoluteValue(v)
  <2>1. /\ conf.kind = "analog" /\ Assigned(state, v) /\ Single
        /\ error \in {"ok", "expired", "unavailable"}
        BY <1>2 DEF SetAbsoluteValue, PortIInv, Plain
  <2> QED BY <1>1, <2>1, AnalogAssigned, AnalogKeepsIInv
<1>3. CASE ~SetAbsoluteValue(v)
  <2>1. conf.kind # "analog" /\ Accepted(v) /\ Assigned(state, v)
        BY <1>3 DEF SetValue, SetDigitalLine, SelectPosition, SetPosition, SetText
  <2>2. v \in 0 .. 3
        BY <2>1 DEF Accepted, Inputs, MaxPosition, MaxDial
  <2> QED BY <1>1, <2>1, <2>2, AssignedKeepsIInv
<1> QED BY <1>2, <1>3

LEMMA SetModeIInv ==
  ASSUME PortIInv, life = "running", NEW m \in 0 .. 3, SetMode(m)
  PROVE  PortIInv'
<1> DEFINE s == [state EXCEPT !.mode = ModeFor(m)]
<1>1. state' = s /\ Persisted(s, error) /\ UNCHANGED <<conf, error, valueAsDouble, life>>
      BY DEF SetMode, Store
<1> HIDE DEF s
<1>4. Single' /\ ShutSaved'
      BY <1>1, PersistedSingle DEF PortIInv, ShutSaved
<1>2. CASE conf.kind = "analog"
  <2>1. error' \in {"ok", "expired", "unavailable"}
        BY <1>1 DEF PortIInv, Plain
  <2> QED BY <1>1, <1>2, <1>4, <2>1, AnalogKeepsIInv
<1>3. CASE conf.kind # "analog"
  <2>0. conf.kind = "digital"
        BY <1>3 DEF SetMode
  <2>1. s \in PlainStates /\ s.value = state.value
    <3>1. ModeFor(m) \in 0 .. 3
          BY DEF ModeFor, PortIInv, Plain, ConfigType
    <3> QED BY <1>3, <2>0, <3>1 DEF PortIInv, Plain, PlainStates, States, s
  <2>2. PlainStates' = PlainStates
        BY <1>1 DEF PlainStates
  <2>3. /\ saved' \subseteq PlainStates /\ stored' \subseteq PlainStates
        /\ conf.persistent /\ Restorable /\ error = "ok" => saved' = {s}
        BY <1>1, <1>3, <2>1, PersistedKeeps DEF PortIInv, Plain
  <2>4. Plain'
        BY <1>1, <2>1, <2>2, <2>3 DEF PortIInv, Plain
  <2>5. Kept'
        BY <1>1, <2>1, <2>2, <2>3 DEF Kept, Restorable
  <2>6. ExpressionsSeeValue'
        BY <1>1, <2>0, <2>1 DEF PortIInv, ExpressionsSeeValue, Double
  <2> QED BY <1>4, <2>4, <2>5, <2>6 DEF PortIInv
<1> QED BY <1>2, <1>3

\* the two setters that only analog ports have
LEMMA SetAnalogIInv ==
  ASSUME PortIInv, life = "running", NEW r, SetResolution(r) \/ SetReference(r)
  PROVE  PortIInv'
<1>1. conf.kind = "analog" /\ UNCHANGED <<conf, life>>
      BY DEF SetResolution, SetReference
<1>2. error \in {"ok", "expired", "unavailable"} /\ Single
      BY DEF PortIInv, Plain
<1>4. error' \in {"ok", "expired", "unavailable"} /\ Single'
  <2>1. CASE SetReference(r)
    <3> DEFINE s == [state EXCEPT !.reference = r]
    <3>1. Persisted(s, error) /\ UNCHANGED error
          BY <2>1 DEF SetReference, Store
    <3> HIDE DEF s
    <3> QED BY <1>2, <3>1, PersistedSingle
  <2>2. CASE SetResolution(r)
    <3> DEFINE s == [state EXCEPT !.resolution = r]
               v == Valid(state.value, r)
    <3>1. \/ Assigned(s, v)
          \/ UNCHANGED error /\ (UNCHANGED <<saved, stored>> \/ Persisted(s, error))
          BY <2>2 DEF SetResolution
    <3> HIDE DEF s, v
    <3>2. CASE Assigned(s, v)
          BY <1>2, <3>2, AnalogAssigned
    <3>3. CASE UNCHANGED error /\ Persisted(s, error)
          BY <1>2, <3>3, PersistedSingle
    <3>4. CASE UNCHANGED <<error, saved, stored>>
          BY <1>2, <3>4 DEF Single
    <3> QED BY <3>1, <3>2, <3>3, <3>4
  <2> QED BY <2>1, <2>2
<1> QED BY <1>1, <1>4, AnalogKeepsIInv

LEMMA SetErrorIInv ==
  ASSUME PortIInv, life = "running", NEW e \in {"expired", "unavailable"}, SetError(e)
  PROVE  PortIInv'
<1>1. error' = e /\ valueAsDouble' = NaN /\ UNCHANGED <<conf, state, saved, stored, life>>
      BY DEF SetError
<1>2. PlainStates' = PlainStates
      BY <1>1 DEF PlainStates
<1>3. Plain'
      BY <1>1, <1>2 DEF PortIInv, Plain
<1>4. Kept' /\ ExpressionsSeeValue'
      BY <1>1 DEF Kept, ExpressionsSeeValue
<1>5. Single' /\ ShutSaved'
      BY <1>1 DEF PortIInv, Single, ShutSaved
<1> QED BY <1>3, <1>4, <1>5 DEF PortIInv

\* What the file has is a state of the port.
LEMMA ChosenState ==
  ASSUME PortIInv, stored # {}
  PROVE  stored = {CHOOSE s \in stored : TRUE}
BY DEF PortIInv, Single

LEMMA PortStartIInv == ASSUME PortIInv, PortStart PROVE PortIInv'
<1> DEFINE c == CHOOSE s \in stored : TRUE
<1>1. /\ state' = IF stored = {} THEN StartState ELSE RestoredState(c)
      /\ error' = "ok" /\ valueAsDouble' = Double(state') /\ saved' = stored
      /\ life' = "running" /\ UNCHANGED <<conf, stored>>
      BY DEF PortStart
<1>2. stored # {} => stored = {c}
      BY ChosenState
<1> HIDE DEF c
<1>5. Single' /\ ShutSaved'
      BY <1>1 DEF PortIInv, Single, ShutSaved
<1>3. CASE conf.kind = "analog"
      BY <1>1, <1>3, <1>5, AnalogKeepsIInv
<1>4. CASE conf.kind # "analog"
  <2>1. PlainStates' = PlainStates /\ StartState' = StartState
        BY <1>1 DEF PlainStates, StartState, NewState
  <2>2. \A s \in PlainStates : RestoredState(s)' = RestoredState(s)
        BY <1>1 DEF RestoredState, RestoredDigital, RestoredAnalog, RestoredSelect, RestoredDial, Valid,
                    StartState, NewState
  <2>3. conf \in ConfigType /\ stored \subseteq PlainStates
        BY <1>4 DEF PortIInv, Plain
  <2>5. ExpressionsSeeValue'
        BY <1>1 DEF ExpressionsSeeValue, Double
  <2>6. CASE stored = {}
    <3>1. state' = StartState /\ saved' = {} /\ stored' = {}
          BY <1>1, <2>6
    <3>2. Plain'
          BY <1>1, <2>1, <2>3, <3>1, StartIsPlain DEF Plain
    <3>3. Kept'
          BY <2>1, <3>1 DEF Kept
    <3> QED BY <1>5, <2>5, <3>2, <3>3 DEF PortIInv
  <2>7. CASE stored # {}
    <3>1. c \in PlainStates /\ stored = {c} /\ state' = RestoredState(c)
          BY <1>1, <1>2, <2>3, <2>7
    <3>2. Plain'
          BY <1>1, <1>4, <2>1, <2>3, <3>1, RestoredIsPlain DEF Plain
    <3>3. Kept'
          BY <1>1, <2>1, <2>2, <3>1 DEF Kept
    <3> QED BY <1>5, <2>5, <3>2, <3>3 DEF PortIInv
  <2> QED BY <2>6, <2>7
<1> QED BY <1>3, <1>4

\* the file is saved, or what is left of it
LEMMA FileIInv ==
  ASSUME PortIInv, SaveForAnother \/ ShutDown \/ Killed \/ EditFile
  PROVE  PortIInv'
<1>1. UNCHANGED <<conf, state, error, valueAsDouble, saved>>
      BY DEF SaveForAnother, ShutDown, Killed, EditFile, Ends
<1>2. CASE SaveForAnother \/ ShutDown
  <2>1. stored' = saved
        BY <1>2 DEF SaveForAnother, ShutDown
  <2>2. Single' /\ ShutSaved' /\ (conf.kind # "analog" => stored' \subseteq PlainStates)
        BY <1>1, <2>1 DEF PortIInv, Plain, Single, ShutSaved
  <2> QED BY <1>1, <2>2, KeepsPortIInv
<1>3. CASE Killed
  <2>1. life' = "killed"
        BY <1>3 DEF Killed, Ends
  <2>2. CASE stored' \in {stored, {}}
    <3>1. Single' /\ ShutSaved' /\ (conf.kind # "analog" => stored' \subseteq PlainStates)
          BY <1>1, <2>1, <2>2 DEF PortIInv, Plain, Single, ShutSaved
    <3> QED BY <1>1, <3>1, KeepsPortIInv
  <2>3. ASSUME NEW s \in saved, NEW t \in Cut(s), stored' = {t} PROVE PortIInv'
    <3>1. Single' /\ ShutSaved'
          BY <1>1, <2>1, <2>3 DEF PortIInv, Single, ShutSaved
    <3>2. ASSUME conf.kind # "analog" PROVE t \in PlainStates
      <4>1. s \in PlainStates /\ StartState \in PlainStates
            BY <3>2, StartIsPlain DEF PortIInv, Plain
      <4>2. PICK m \in {s.mode, StartState.mode}, v \in {s.value, StartState.value},
                 n \in {s.resolution, StartState.resolution} :
              t = [s EXCEPT !.mode = m, !.value = v, !.resolution = n]
            BY DEF Cut
      <4>3. /\ m \in 0 .. 3 /\ v \in 0 .. 3 /\ n = 2
            /\ conf.kind # "digital" => m = 0
            BY <4>1, <4>2 DEF PlainStates, States
      <4> QED BY <4>1, <4>2, <4>3 DEF PlainStates, States
    <3> QED BY <1>1, <2>3, <3>1, <3>2, KeepsPortIInv
  <2> QED BY <1>3, <2>2, <2>3 DEF Killed
<1>4. CASE EditFile
  <2>1. stored' = {} /\ life' = "edited"
        BY <1>4 DEF EditFile
  <2>2. Single' /\ ShutSaved' /\ (conf.kind # "analog" => stored' \subseteq PlainStates)
        BY <1>1, <2>1 DEF PortIInv, Plain, Single, ShutSaved
  <2> QED BY <1>1, <2>2, KeepsPortIInv
<1> QED BY <1>2, <1>3, <1>4

\* the setters of the port, by whoever they are called
LEMMA SettersIInv ==
  ASSUME PortIInv, life = "running",
         \/ \E v \in Inputs : SetValue(v) \/ SetMode(v)
         \/ \E r : SetResolution(r) \/ SetReference(r)
  PROVE  PortIInv'
<1>1. ASSUME NEW v \in Inputs, SetValue(v) PROVE PortIInv'
      BY <1>1, SetValueIInv
<1>2. ASSUME NEW v \in Inputs, SetMode(v) PROVE PortIInv'
  <2>1. v \in 0 .. 3
        BY <1>2 DEF SetMode, Modes, PortIInv, Plain, ConfigType
  <2> QED BY <1>2, <2>1, SetModeIInv
<1>3. ASSUME NEW r, SetResolution(r) \/ SetReference(r) PROVE PortIInv'
      BY <1>3, SetAnalogIInv
<1> QED BY <1>1, <1>2, <1>3

LEMMA NextPortIInv == ASSUME PortIInv, [PortNext]_portVars PROVE PortIInv'
<1>0. ASSUME UNCHANGED <<conf, state, error, valueAsDouble, saved, stored, life>> PROVE PortIInv'
  <2>1. Single' /\ ShutSaved' /\ (conf.kind # "analog" => stored' \subseteq PlainStates)
        BY <1>0 DEF PortIInv, Plain, Single, ShutSaved
  <2> QED BY <1>0, <2>1, KeepsPortIInv
<1>1. ASSUME life = "running", Works PROVE PortIInv'
  <2>1. CASE ChangeInternally
        BY <1>1, <2>1, SettersIInv DEF ChangeInternally
  <2>2. CASE ChangeByUser
        BY <1>1, <2>2, SettersIInv
           DEF ChangeByUser, CommandDigital, CommandAnalog, CommandSelect, CommandDial, CommandCustom
  <2>3. CASE \E e \in {"expired", "unavailable"} : SetError(e)
        BY <1>1, <2>3, SetErrorIInv
  <2>4. CASE PortDoWork
        BY <1>0, <2>4 DEF PortDoWork
  <2>5. CASE PortTick
        BY <1>0, <2>5 DEF PortTick
  <2>6. CASE SaveForAnother \/ ShutDown \/ Killed
        BY <2>6, FileIInv
  <2> QED BY <1>1, <2>1, <2>2, <2>3, <2>4, <2>5, <2>6 DEF Works
<1>2. CASE PortStart
      BY <1>2, PortStartIInv
<1>3. CASE EditFile
      BY <1>3, FileIInv
<1>4. CASE UNCHANGED portVars
      BY <1>0, <1>4 DEF portVars
<1> QED BY <1>1, <1>2, <1>3, <1>4 DEF PortNext

-----------------------------------------------------------------------------
(* PortValue: types *)

\* The digits of a port and its highest value.
LEMMA FullType == \A r \in 1 .. 2 : Full(r) \in {1, 3}
<1>1. 2 ^ 1 = 2 /\ 2 ^ 2 = 4
      BY SMT
<1>2. Full(1) = 2 ^ 1 - 1 /\ Full(2) = 2 ^ 2 - 1
      BY DEF Full
<1>3. Full(1) = 1 /\ Full(2) = 3
      BY <1>1, <1>2
<1>4. \A r \in 1 .. 2 : r = 1 \/ r = 2
      OBVIOUS
<1> QED BY <1>3, <1>4

\* A value that is accepted fits the port.
LEMMA ValidType ==
  ASSUME NEW v \in Inputs, NEW r \in 1 .. 2, conf.kind = "analog" \/ v \in 0 .. 3
  PROVE  Valid(v, r) \in 0 .. 3
BY FullType DEF Valid, Inputs

LEMMA DoubleType ==
  ASSUME NEW s \in States
  PROVE  Double(s) \in (0 .. 3) \X {0, 1, 3}
<1>1. s.value \in 0 .. 3 /\ Full(s.resolution) \in {0, 1, 3}
      BY FullType DEF States
<1>2. <<s.value, Full(s.resolution)>> \in (0 .. 3) \X {0, 1, 3}
      BY <1>1
<1>3. <<s.value, 1>> \in (0 .. 3) \X {0, 1, 3} /\ NaN \in (0 .. 3) \X {0, 1, 3}
      BY <1>1 DEF NaN
<1> HIDE DEF Full, NaN
<1> QED BY <1>2, <1>3 DEF Double

LEMMA PersistedType ==
  ASSUME PortTypeOK, NEW s \in States, NEW e, Persisted(s, e)
  PROVE  saved' \in SUBSET States /\ stored' \in SUBSET States
<1>1. [s EXCEPT !.reference = 0] \in States
      BY DEF States
<1> QED BY <1>1 DEF Persisted, PortTypeOK

LEMMA AssignedType ==
  ASSUME PortTypeOK, NEW s \in States, NEW v \in Inputs, conf.kind = "analog" \/ v \in 0 .. 3,
         Assigned(s, v), UNCHANGED <<conf, sinceRefresh, life>>
  PROVE  PortTypeOK'
<1> DEFINE new == [s EXCEPT !.value = Valid(v, s.resolution)]
<1>1. new \in States
  <2>1. Valid(v, s.resolution) \in 0 .. 3
        BY ValidType DEF States
  <2> QED BY <2>1 DEF States
<1>2. CASE Differs(new.value) \/ error # "ok"
  <2>1. /\ state' = new /\ Persisted(new, "ok") /\ error' = "ok"
        /\ valueAsDouble' = Double(new) /\ news' = "due"
        /\ refreshRequired' \in {AutoRefresh, refreshRequired \/ AutoRefresh}
        BY <1>2 DEF Assigned, Store
  <2> HIDE DEF new
  <2>2. /\ saved' \in SUBSET States /\ stored' \in SUBSET States
        /\ valueAsDouble' \in (0 .. 3) \X {0, 1, 3}
        BY <1>1, <2>1, DoubleType, PersistedType
  <2>3. refreshRequired' \in BOOLEAN
        BY <2>1 DEF AutoRefresh
  <2> QED BY <1>1, <2>1, <2>2, <2>3 DEF PortTypeOK
<1>3. CASE ~(Differs(new.value) \/ error # "ok")
      BY <1>3 DEF Assigned, PortTypeOK
<1> QED BY <1>2, <1>3

\* setMode, setReference, and setResolution without a new value
LEMMA AlteredType ==
  ASSUME PortTypeOK, NEW s \in States, Altered(s), state' = s,
         saved' \in SUBSET States, stored' \in SUBSET States,
         UNCHANGED <<conf, error, valueAsDouble, sinceRefresh, life>>
  PROVE  PortTypeOK'
<1>1. refreshRequired' \in BOOLEAN /\ news' \in {"none", "due", "lost"}
      BY DEF Altered, AutoRefresh, PortTypeOK
<1> QED BY <1>1 DEF PortTypeOK

LEMMA SettersType ==
  ASSUME PortTypeOK,
         \/ \E v \in Inputs : SetValue(v) \/ SetMode(v)
         \/ \E r \in Resolutions : SetResolution(r)
         \/ \E r \in 0 .. 1 : SetReference(r)
  PROVE  PortTypeOK'
<1>1. /\ state \in States /\ conf \in ConfigType
      /\ saved \in SUBSET States /\ stored \in SUBSET States
      BY DEF PortTypeOK
<1>2. ASSUME NEW v \in Inputs, SetValue(v) PROVE PortTypeOK'
  <2>1. Assigned(state, v) /\ (conf.kind = "analog" \/ Accepted(v)) /\ UNCHANGED <<conf, sinceRefresh, life>>
        BY <1>2 DEF SetValue, SetDigitalLine, SetAbsoluteValue, SelectPosition, SetPosition, SetText
  <2>2. conf.kind = "analog" \/ v \in 0 .. 3
        BY <2>1 DEF Accepted, Inputs, MaxPosition, MaxDial
  <2> QED BY <1>1, <2>1, <2>2, AssignedType
<1>3. ASSUME NEW v \in Inputs, SetMode(v) PROVE PortTypeOK'
  <2> DEFINE s == [state EXCEPT !.mode = ModeFor(v)]
  <2>0. ModeFor(v) \in 0 .. 3
        BY <1>1, <1>3 DEF SetMode, Modes, ModeFor, ConfigType
  <2>1. s \in States
        BY <1>1, <2>0 DEF States
  <2>2. /\ state' = s /\ Persisted(s, error) /\ Altered(s)
        /\ UNCHANGED <<conf, error, valueAsDouble, sinceRefresh, life>>
        BY <1>3 DEF SetMode, Store
  <2> HIDE DEF s
  <2> QED BY <2>1, <2>2, PersistedType, AlteredType
<1>4. ASSUME NEW r \in Resolutions, SetResolution(r) PROVE PortTypeOK'
  <2> DEFINE s == [state EXCEPT !.resolution = r]
             v == Valid(state.value, r)
  <2>0. state.value \in 0 .. 3 /\ r \in 1 .. 2
        BY <1>1 DEF States, Resolutions
  <2>1. s \in States /\ conf.kind = "analog" /\ UNCHANGED <<conf, sinceRefresh, life>>
        BY <1>1, <1>4, <2>0 DEF SetResolution, States
  <2>2. v \in Inputs
        BY <2>0, ValidType DEF Inputs
  <2>3. \/ Assigned(s, v)
        \/ /\ state' = s /\ Altered(s) /\ UNCHANGED <<error, valueAsDouble>>
           /\ Persisted(s, error) \/ UNCHANGED <<saved, stored>>
        BY <1>4 DEF SetResolution
  <2> HIDE DEF s, v
  <2>4. CASE Assigned(s, v)
        BY <2>1, <2>2, <2>4, AssignedType
  <2>5. CASE /\ state' = s /\ Altered(s) /\ UNCHANGED <<error, valueAsDouble>>
             /\ Persisted(s, error) \/ UNCHANGED <<saved, stored>>
    <3>1. saved' \in SUBSET States /\ stored' \in SUBSET States
          BY <1>1, <2>1, <2>5, PersistedType
    <3> QED BY <2>1, <2>5, <3>1, AlteredType
  <2> QED BY <2>3, <2>4, <2>5
<1>5. ASSUME NEW r \in 0 .. 1, SetReference(r) PROVE PortTypeOK'
  <2> DEFINE s == [state EXCEPT !.reference = r]
  <2>1. s \in States
        BY <1>1 DEF States
  <2>2. /\ state' = s /\ Persisted(s, error) /\ Altered(s)
        /\ UNCHANGED <<conf, error, valueAsDouble, sinceRefresh, life>>
        BY <1>5 DEF SetReference, Store
  <2> HIDE DEF s
  <2> QED BY <2>1, <2>2, PersistedType, AlteredType
<1> QED BY <1>2, <1>3, <1>4, <1>5

\* A start makes a state of a port from whatever the file has.
LEMMA RestoredStateType ==
  ASSUME conf \in ConfigType, NEW s \in States
  PROVE  RestoredState(s) \in States
<1>1. s.value \in 0 .. 3 /\ s.mode \in 0 .. 3 /\ s.resolution \in 1 .. 2
      BY DEF States
<1>2. Valid(s.value, s.resolution) \in 0 .. 3
      BY <1>1, ValidType DEF Inputs, Valid
<1>3. StartState \in States
      BY StartIsPlain DEF PlainStates
<1>4. ASSUME NEW m \in 0 .. 3, NEW n \in 0 .. 3, NEW r \in 1 .. 2
      PROVE  /\ [StartState EXCEPT !.mode = m, !.value = n] \in States
             /\ [StartState EXCEPT !.mode = m, !.resolution = r, !.value = n] \in States
             /\ [StartState EXCEPT !.value = n] \in States
      BY <1>3 DEF States
<1>5. RestoredDigital(s) \in States
  <2>1. (IF s.mode = 3 THEN 3 ELSE conf.pull) \in 0 .. 3
        BY DEF ConfigType
  <2> QED BY <1>1, <1>4, <2>1 DEF RestoredDigital
<1>6. RestoredAnalog(s) \in States
      BY <1>1, <1>2, <1>4 DEF RestoredAnalog
<1>7. RestoredSelect(s) \in States
      BY <1>1, <1>4 DEF RestoredSelect
<1>8. RestoredDial(s) \in States
  <2>1. (IF (s.value \div conf.step) * conf.step = 0 THEN 0 ELSE s.value) \in 0 .. 3
        BY <1>1
  <2> QED BY <1>4, <2>1 DEF RestoredDial
<1> QED BY <1>5, <1>6, <1>7, <1>8 DEF RestoredState

LEMMA InitPortTypeOK == PortInit => PortTypeOK
<1> SUFFICES ASSUME PortInit PROVE PortTypeOK
    OBVIOUS
<1>0. conf \in ConfigType /\ RefreshCap \in 0 .. RefreshCap
      BY ConfigsAssumption DEF PortInit, RefreshCap
<1>1. StartState \in States
      BY <1>0, StartIsPlain DEF PlainStates
<1>2. valueAsDouble \in (0 .. 3) \X {0, 1, 3}
      BY <1>1, DoubleType DEF PortInit
<1>3. refreshRequired \in BOOLEAN
      BY DEF PortInit, AutoRefresh
<1> QED BY <1>0, <1>1, <1>2, <1>3 DEF PortInit, PortTypeOK

\* The file is saved, or what is left of it.
LEMMA FileType ==
  ASSUME PortTypeOK, SaveForAnother \/ ShutDown \/ Killed \/ EditFile
  PROVE  PortTypeOK'
<1>0. RefreshCap \in 0 .. RefreshCap
      BY DEF RefreshCap
<1>1. /\ UNCHANGED <<conf, state, error, valueAsDouble, saved>>
      /\ refreshRequired' \in BOOLEAN /\ sinceRefresh' \in 0 .. RefreshCap
      /\ news' \in {"none", "due", "lost"}
      /\ life' \in {"running", "shut down", "killed", "edited"}
      BY <1>0 DEF SaveForAnother, ShutDown, Killed, EditFile, Ends, PortTypeOK
<1>2. stored' \in SUBSET States
  <2>1. CASE SaveForAnother \/ ShutDown \/ EditFile
        BY <2>1 DEF SaveForAnother, ShutDown, EditFile, PortTypeOK
  <2>2. ASSUME NEW s \in saved, NEW t \in Cut(s) PROVE t \in States
    <3>1. s \in States /\ StartState \in States
          BY StartIsPlain DEF PortTypeOK, PlainStates
    <3>2. PICK m \in {s.mode, StartState.mode}, v \in {s.value, StartState.value},
               n \in {s.resolution, StartState.resolution} :
            t = [s EXCEPT !.mode = m, !.value = v, !.resolution = n]
          BY <2>2 DEF Cut
    <3>3. m \in 0 .. 3 /\ v \in 0 .. 3 /\ n \in 1 .. 2
          BY <3>1, <3>2 DEF States
    <3> QED BY <3>1, <3>2, <3>3 DEF States
  <2>3. CASE Killed
        BY <2>2, <2>3 DEF Killed, PortTypeOK
  <2> QED BY <2>1, <2>3
<1> QED BY <1>1, <1>2 DEF PortTypeOK

LEMMA WorksType == ASSUME PortTypeOK, Works PROVE PortTypeOK'
<1>1. CASE ChangeInternally
      BY <1>1, SettersType DEF ChangeInternally
<1>2. CASE ChangeByUser
      BY <1>2, SettersType
         DEF ChangeByUser, CommandDigital, CommandAnalog, CommandSelect, CommandDial, CommandCustom
<1>3. ASSUME NEW e \in {"expired", "unavailable"}, SetError(e) PROVE PortTypeOK'
  <2>1. NaN \in (0 .. 3) \X {0, 1, 3}
        BY DEF NaN
  <2>2. refreshRequired' \in BOOLEAN /\ news' \in {"none", "due", "lost"}
        BY <1>3 DEF SetError, AutoRefresh, PortTypeOK
  <2> QED BY <1>3, <2>1, <2>2 DEF SetError, PortTypeOK
<1>4. CASE PortDoWork
  <2> DEFINE age == IF Refreshes THEN 0 ELSE sinceRefresh
             due == conf.refresh = "periodic" /\ conf.period > 0 /\ age > conf.period
  <2>0. sinceRefresh' = IF due THEN 0 ELSE age
        BY <1>4 DEF PortDoWork
  <2>1. sinceRefresh' \in 0 .. RefreshCap
    <3>0. sinceRefresh \in 0 .. RefreshCap
          BY DEF PortTypeOK
    <3>1. age \in 0 .. RefreshCap
          BY <3>0 DEF RefreshCap
    <3> HIDE DEF age, due
    <3> QED BY <2>0, <3>1 DEF RefreshCap
  <2>2. refreshRequired' \in BOOLEAN
        BY <1>4 DEF PortDoWork, PortTypeOK
  <2>3. news' \in {"none", "due", "lost"}
        BY <1>4 DEF PortDoWork, PortTypeOK, Announced
  <2> QED BY <1>4, <2>1, <2>2, <2>3 DEF PortDoWork, PortTypeOK
<1>5. CASE PortTick
  <2>1. sinceRefresh \in 0 .. RefreshCap
        BY DEF PortTypeOK
  <2>2. sinceRefresh' \in 0 .. RefreshCap
        BY <1>5, <2>1 DEF PortTick, RefreshCap
  <2> QED BY <1>5, <2>2 DEF PortTick, PortTypeOK
<1>6. CASE SaveForAnother \/ ShutDown \/ Killed
      BY <1>6, FileType
<1> QED BY <1>1, <1>2, <1>3, <1>4, <1>5, <1>6 DEF Works

LEMMA NextPortTypeOK == PortTypeOK /\ [PortNext]_portVars => PortTypeOK'
<1> SUFFICES ASSUME PortTypeOK, [PortNext]_portVars PROVE PortTypeOK'
    OBVIOUS
<1>1. CASE Works
      BY <1>1, WorksType
<1>2. CASE PortStart
  <2> DEFINE c == CHOOSE s \in stored : TRUE
  <2>1. /\ state' = IF stored = {} THEN StartState ELSE RestoredState(c)
        /\ error' = "ok" /\ valueAsDouble' = Double(state')
        /\ sinceRefresh' = RefreshCap /\ saved' = stored /\ life' = "running"
        /\ UNCHANGED <<conf, news, stored>>
        BY <1>2 DEF PortStart
  <2>2. stored # {} => c \in States
        BY DEF PortTypeOK
  <2> HIDE DEF c
  <2>3. state' \in States
        BY <2>1, <2>2, RestoredStateType, StartIsPlain DEF PlainStates, PortTypeOK
  <2>4. valueAsDouble' \in (0 .. 3) \X {0, 1, 3}
        BY <2>1, <2>3, DoubleType
  <2>5. sinceRefresh' \in 0 .. RefreshCap
        BY <2>1 DEF RefreshCap
  <2>6. refreshRequired' \in BOOLEAN
        BY <1>2 DEF PortStart, AutoRefresh
  <2> QED BY <2>1, <2>3, <2>4, <2>5, <2>6 DEF PortTypeOK
<1>3. CASE EditFile
      BY <1>3, FileType
<1>4. CASE UNCHANGED portVars
      BY <1>4 DEF portVars, PortTypeOK
<1> QED BY <1>1, <1>2, <1>3, <1>4 DEF PortNext

-----------------------------------------------------------------------------
(* PortValue: the theorems *)

LEMMA PortIInvHolds == PortSpec => []PortIInv
<1>1. PortInit => PortIInv
      BY InitPortIInv
<1>2. PortIInv /\ [PortNext]_portVars => PortIInv'
      BY NextPortIInv
<1> QED BY <1>1, <1>2, PTL DEF PortSpec

\* Expressions see the value of a port, and no number while it is in an error
\* state: setError takes the value from them, and the setters give it back
\* even when the value is the old one.
THEOREM ExpressionsTheorem == PortSpec => []ExpressionsSeeValue
<1>1. PortIInv => ExpressionsSeeValue
      BY DEF PortIInv
<1> QED BY <1>1, PortIInvHolds, PTL

\* What a start finds in the file: a persistent port that is in no error state
\* is as it was, after a requested shutdown (savePersistentConfig, which is not
\* throttled then), and after any other end if the file has what memory had.
THEOREM SurvivesTheorem == PortSpec => StateSurvives
<1> DEFINE Survives ==
      PortStart /\ (life = "shut down" \/ stored = saved)
        /\ conf.persistent /\ error = "ok" /\ conf.kind \in {"digital", "select", "dial"}
        /\ (conf.kind = "dial" => state.value % conf.step = 0)
        /\ (conf.kind = "digital" /\ conf.pull # 0 => state.mode = 3)
      => state' = state
<1>1. ASSUME PortIInv PROVE Survives
  <2> SUFFICES ASSUME PortStart, life = "shut down" \/ stored = saved,
                      conf.persistent, error = "ok", Restorable,
                      conf.kind = "dial" => state.value % conf.step = 0,
                      conf.kind = "digital" /\ conf.pull # 0 => state.mode = 3
               PROVE  state' = state
      BY DEF Restorable
  <2>0. stored = saved
        BY <1>1 DEF PortIInv, ShutSaved
  <2>1. conf \in ConfigType /\ conf.kind # "analog" /\ state \in PlainStates
        BY <1>1 DEF PortIInv, Plain, Restorable
  <2>2. CASE saved = {} /\ state = StartState
        BY <2>0, <2>2 DEF PortStart
  <2>3. ASSUME NEW s \in PlainStates, saved = {s}, state = s \/ state = RestoredState(s)
        PROVE  state' = state
    <3>1. state' = RestoredState(s)
      <4>1. stored # {} /\ (CHOOSE t \in stored : TRUE) = s
            BY <2>0, <2>3
      <4> QED BY <4>1 DEF PortStart
    <3>2. CASE state = s
      <4>1. conf.kind = "digital" => s.mode \notin {1, 2}
            BY <2>0, <2>3 DEF PortStart, Refused
      <4> QED BY <2>1, <3>1, <3>2, <4>1, RestoredIsPlain
    <3> QED BY <2>3, <3>1, <3>2
  <2> QED BY <1>1, <2>2, <2>3 DEF PortIInv, Kept
<1> HIDE DEF Survives
<1>2. PortIInv => [Survives]_portVars
      BY <1>1
<1>3. [][Survives]_portVars
      => StateSurvives
      BY DEF Survives, StateSurvives
<1> QED BY <1>2, <1>3, PortIInvHolds, PTL

-----------------------------------------------------------------------------
(* PersistentConfig: the invariant *)

\* Memory holds what the ports have, or had when the process ended.
Current == Restored(persistentConfig) = value

\* What a requested shutdown leaves behind, and the way there.
Handed ==
  phase = "stopped" /\ shutdownRequested =>
    Restored(persistentFile) = value

\* What a save has written so far, or ever will, if a crash cuts it.
Partial ==
  phase \in {"saving", "exiting", "cut"} =>
    \A p \in Ports : persistentFile[p] \in {persistentConfig[p], Absent}

\* Every state a complete file can give the ports has been seen.
Remembered ==
  /\ value \in past
  /\ Initial \in past
  /\ phase \in {"running", "stopped", "crashed"} => Restored(persistentFile) \in past

StoreIInv == PersistTypeOK /\ Current /\ Handed /\ Partial /\ Remembered

-----------------------------------------------------------------------------
(* PersistentConfig: what a start reads *)

\* Every port has a value after a start.
LEMMA RestoredType ==
  ASSUME NEW file \in Stored
  PROVE  Restored(file) \in [Ports -> Values]
BY InitialAssumption DEF Stored, Restored

\* An empty file gives the initial state.
LEMMA RestoredNothing == NoEntries \in Stored /\ Restored(NoEntries) = Initial
BY InitialAssumption DEF Stored, NoEntries, Restored

\* Persisting a port's new state keeps memory in step with the ports.
LEMMA RestoredChange ==
  ASSUME NEW file \in Stored, NEW p \in Ports, NEW v \in Values
  PROVE  /\ [file EXCEPT ![p] = v] \in Stored
         /\ Restored([file EXCEPT ![p] = v]) = [Restored(file) EXCEPT ![p] = v]
BY AbsentAssumption DEF Stored, Restored

-----------------------------------------------------------------------------
(* PersistentConfig: the steps *)

LEMMA InitStoreIInv == PersistInit => StoreIInv
<1> SUFFICES ASSUME PersistInit PROVE StoreIInv
    OBVIOUS
<1>1. PersistTypeOK
  <2>1. value \in [Ports -> Values] /\ past \subseteq [Ports -> Values]
        BY InitialAssumption DEF PersistInit
  <2>2. saveAge \in 0 .. ThrottleCap
        BY ThrottleAssumption DEF PersistInit, ThrottleCap
  <2>3. /\ persistentConfig \in Stored
        /\ persistentFile \in Stored
        BY RestoredNothing DEF PersistInit
  <2> QED BY <2>1, <2>2, <2>3 DEF PersistInit, PersistTypeOK
<1>2. Current /\ Handed /\ Partial /\ Remembered
      BY RestoredNothing DEF PersistInit, Current, Handed, Partial, Remembered
<1> QED BY <1>1, <1>2 DEF StoreIInv

\* the file is truncated
LEMMA TruncatePartial ==
  ASSUME persistentFile' = NoEntries
  PROVE  Partial'
BY DEF Partial, NoEntries

LEMMA NextStoreIInv == StoreIInv /\ [PersistNext]_persistVars => StoreIInv'
<1> SUFFICES ASSUME StoreIInv, [PersistNext]_persistVars PROVE StoreIInv'
    OBVIOUS
<1> USE DEF StoreIInv
<1>1. ASSUME NEW p \in Ports, NEW v \in Values, Change(p, v) PROVE StoreIInv'
  <2>0. /\ persistentConfig \in Stored
        /\ Restored(persistentConfig) = value
        BY DEF PersistTypeOK, Current
  <2>1. /\ persistentConfig' \in Stored
        /\ Restored(persistentConfig') = value'
        BY <1>1, <2>0, RestoredChange DEF Change
  <2>2. value' \in [Ports -> Values]
        BY <1>1 DEF Change, PersistTypeOK
  <2>3. PersistTypeOK'
        BY <1>1, <2>1, <2>2, RestoredNothing DEF Change, PersistTypeOK
  <2>4. Current' /\ Handed'
        BY <1>1, <2>1 DEF Change, Current, Handed
  <2>5. Remembered'
        BY <1>1 DEF Change, Remembered
  <2>6. Partial'
    <3>1. CASE persistentFile' = NoEntries
          BY <3>1, TruncatePartial
    <3>2. CASE phase' = "running"
          BY <3>2 DEF Partial
    <3> QED BY <1>1, <3>1, <3>2 DEF Change
  <2> QED BY <2>3, <2>4, <2>5, <2>6
<1>2. ASSUME NEW p \in Ports, Write(p) PROVE StoreIInv'
  <2>1. /\ phase \in {"saving", "exiting"} /\ UNCHANGED <<phase, memory, past>>
        /\ persistentFile' = [persistentFile EXCEPT ![p] = persistentConfig[p]]
        BY <1>2 DEF Write
  <2>2. PersistTypeOK'
        BY <2>1 DEF memory, PersistTypeOK, Stored
  <2>3. Current' /\ Handed' /\ Remembered'
        BY <2>1 DEF memory, Current, Handed, Remembered
  <2>4. Partial'
        BY <2>1 DEF memory, Partial, PersistTypeOK, Stored
  <2> QED BY <2>2, <2>3, <2>4
<1>9. ASSUME NEW next \in {"running", "stopped"}, Finish(next),
             phase \in {"saving", "exiting"}
      PROVE  StoreIInv'
  <2>1. /\ persistentFile = persistentConfig /\ phase' = next /\ saveAge' = 0
        /\ UNCHANGED <<value, persistentConfig, persistentFile, shutdownRequested, past>>
        BY <1>9 DEF Finish
  <2>2. Restored(persistentFile') = value'
        BY <2>1 DEF Current
  <2>3. PersistTypeOK'
        BY <2>1, ThrottleAssumption DEF PersistTypeOK, ThrottleCap
  <2>4. Current' /\ Handed' /\ Remembered'
        BY <2>1, <2>2 DEF Current, Handed, Remembered
  <2>5. Partial'
        BY <2>1 DEF Partial
  <2> QED BY <2>3, <2>4, <2>5
<1>3. CASE RequestShutdown
      BY <1>3 DEF RequestShutdown, PersistTypeOK, Current, Handed, Partial, Remembered
<1>4. CASE LeaveLoop
  <2>1. PersistTypeOK'
        BY <1>4, RestoredNothing DEF LeaveLoop, memory, PersistTypeOK
  <2>2. Current' /\ Handed' /\ Remembered'
        BY <1>4 DEF LeaveLoop, memory, SavesNow, Current, Handed, Remembered
  <2>3. Partial'
    <3>1. CASE persistentFile' = NoEntries
          BY <3>1, TruncatePartial
    <3>2. CASE phase' = "stopped"
          BY <3>2 DEF Partial
    <3> QED BY <1>4, <3>1, <3>2 DEF LeaveLoop
  <2> QED BY <2>1, <2>2, <2>3
<1>5. CASE PersistTick
      BY <1>5, ThrottleAssumption
      DEF PersistTick, PersistTypeOK, ThrottleCap, Current, Handed, Partial, Remembered
<1>6. CASE Crash
  <2>1. /\ UNCHANGED <<memory, persistentFile, past>>
        /\ phase \in {"running", "saving", "exiting"}
        /\ phase' = IF phase = "running" THEN "crashed" ELSE "cut"
        BY <1>6 DEF Crash
  <2> QED BY <2>1 DEF memory, PersistTypeOK, Current, Handed, Partial, Remembered
<1>7. CASE Start
  <2>1. PersistTypeOK'
    <3>1. value' \in [Ports -> Values]
          BY <1>7, RestoredType DEF Start, PersistTypeOK
    <3>2. saveAge' \in 0 .. ThrottleCap
          BY <1>7, ThrottleAssumption DEF Start, ThrottleCap
    <3>3. past' \subseteq [Ports -> Values]
          BY <1>7, <3>1 DEF Start, PersistTypeOK
    <3> QED BY <1>7, <3>1, <3>2, <3>3 DEF Start, PersistTypeOK
  <2>2. Current' /\ Handed' /\ Partial' /\ Remembered'
        BY <1>7 DEF Start, Current, Handed, Partial, Remembered
  <2> QED BY <2>1, <2>2
<1>8. CASE UNCHANGED persistVars
      BY <1>8 DEF persistVars, memory, PersistTypeOK, Current, Handed, Partial, Remembered
<1> QED
    BY <1>1, <1>2, <1>3, <1>4, <1>5, <1>6, <1>7, <1>8, <1>9
    DEF PersistNext, FinishSave, FinishLastSave

-----------------------------------------------------------------------------
(* PersistentConfig: the theorems *)

LEMMA StoreInductive == PersistSpec => []StoreIInv
BY InitStoreIInv, NextStoreIInv, PTL DEF PersistSpec

\* The types of startup's, persist's and savePersistentConfig's variables.
THEOREM StoreTypeCorrect == PersistSpec => []PersistTypeOK
<1>1. StoreIInv => PersistTypeOK
      BY DEF StoreIInv
<1> QED BY <1>1, StoreInductive, PTL

\* A requested shutdown (startup's last savePersistentConfig, which is not
\* throttled then) leaves the state of every port in the file.
THEOREM ShutdownSaves == PersistSpec => []SavedAtShutdown
<1>1. StoreIInv => SavedAtShutdown
      BY DEF StoreIInv, Handed, SavedAtShutdown
<1> QED BY <1>1, StoreInductive, PTL

\* A complete file never mixes the states of two moments, as
\* savePersistentConfig writes all of the configuration; one that a crash has
\* cut in the middle of it has some of the states the ports had then, and
\* nothing older.
THEOREM OneMoment == PersistSpec => []RestoresOneMoment
<1>1. ASSUME StoreIInv PROVE RestoresOneMoment
  <2>1. CASE phase \in {"running", "stopped", "crashed"}
        BY <1>1, <2>1 DEF StoreIInv, Remembered, RestoresOneMoment
  <2>2. CASE phase \in {"saving", "exiting", "cut"}
    <3>1. ASSUME NEW p \in Ports PROVE Restored(persistentFile)[p] \in {value[p], Initial[p]}
      <4>1. value[p] = Restored(persistentConfig)[p]
            BY <1>1 DEF StoreIInv, Current
      <4>2. persistentFile[p] \in {persistentConfig[p], Absent}
            BY <1>1, <2>2 DEF StoreIInv, Partial
      <4> QED BY <4>1, <4>2 DEF Restored
    <3> QED BY <2>2, <3>1 DEF RestoresOneMoment
  <2> QED BY <1>1, <2>1, <2>2 DEF StoreIInv, PersistTypeOK
<1> QED BY <1>1, StoreInductive, PTL

-----------------------------------------------------------------------------
(* ExecPort: the invariant *)

\* the waiter has not reported the end yet
Watching == waiter \in {"check", "wait", "read", "after"}

\* the process the port knows is there and its end has been fetched
Fetched == processPID # 0 /\ process[processPID] = "reaped"

\* Ids are given in order, and only the process of processPID is alive.
Alive ==
  /\ processPID \in {0, processHandle}
  /\ \A p \in Processes : p > processHandle => process[p] = "unborn"
  /\ \A p \in Processes : p <= processHandle => process[p] # "unborn"
  /\ \A p \in Processes :
       process[p] \in {"running", "zombie"} => p = processPID

\* What the two threads know of each other.
Agreed ==
  /\ Watching => processPID # 0 /\ ~hasTerminated
  /\ waiter = "after" => Fetched
  /\ hasTerminated => Fetched
  /\ main = "launched" => processPID # 0 /\ ~hasTerminated /\ ~Watching

ProcessIInv == TypeOK /\ (~killed => Alive /\ Agreed)

-----------------------------------------------------------------------------
LEMMA InitProcessIInv == Init => ProcessIInv
<1> SUFFICES ASSUME Init PROVE ProcessIInv
    OBVIOUS
<1>1. TypeOK
  <2>1. process \in [Processes -> {"unborn", "running", "zombie", "reaped"}]
        BY DEF Init
  <2>2. startAge \in 0 .. AgeCap
        BY KillAssumption DEF Init
  <2>3. 0 \in 0 .. MaxStarts
        BY StartAssumption
  <2> QED BY <2>1, <2>2, <2>3 DEF Init, TypeOK
<1>2. Alive /\ Agreed
      BY DEF Init, Alive, Agreed, Watching, Fetched, Processes
<1> QED BY <1>1, <1>2 DEF ProcessIInv

\* Every step keeps the types.
LEMMA NextTypeOK == TypeOK /\ [Next]_vars => TypeOK'
<1> SUFFICES ASSUME TypeOK, [Next]_vars PROVE TypeOK'
    OBVIOUS
<1> USE StartAssumption, KillAssumption DEF TypeOK, Processes, mainVars, waiterVars
<1>1. CASE SetLine
  <2>1. line' \in BOOLEAN
        BY <1>1 DEF SetLine, LineLow
  <2> QED BY <1>1, <2>1 DEF SetLine
<1>2. CASE NoticeEnd
  <2>1. line' \in BOOLEAN
        BY <1>2 DEF NoticeEnd, LineLow
  <2>2. processPID' \in 0 .. MaxStarts
        BY <1>2 DEF NoticeEnd
  <2> QED BY <1>2, <2>1, <2>2 DEF NoticeEnd
<1>3. CASE LetRun
      BY <1>3 DEF LetRun
<1>4. CASE Kill
  <2>1. process' \in [Processes -> {"unborn", "running", "zombie", "reaped"}]
        BY <1>4 DEF Kill
  <2>2. line' \in BOOLEAN
        BY <1>4 DEF Kill, LineLow
  <2> QED BY <1>4, <2>1, <2>2 DEF Kill
<1>5. CASE StayIdle
      BY <1>5 DEF StayIdle
<1>6. CASE FailToLaunch
      BY <1>6 DEF FailToLaunch, LineLow
<1>7. CASE Launch
  <2>1. processHandle' \in 0 .. MaxStarts /\ processPID' \in 0 .. MaxStarts
        BY <1>7 DEF Launch
  <2>2. process' \in [Processes -> {"unborn", "running", "zombie", "reaped"}]
        BY <1>7 DEF Launch
  <2> QED BY <1>7, <2>1, <2>2 DEF Launch
<1>8. CASE StartWaiter
  <2>1. line' \in BOOLEAN
        BY <1>8 DEF StartWaiter, LineLow
  <2>2. startAge' \in 0 .. AgeCap
        BY <1>8 DEF StartWaiter
  <2> QED BY <1>8, <2>1, <2>2 DEF StartWaiter
<1>9. CASE WaiterCheck
      BY <1>9 DEF WaiterCheck
<1>10. CASE WaiterWait
  <2>1. process' \in [Processes -> {"unborn", "running", "zombie", "reaped"}]
        BY <1>10 DEF WaiterWait
  <2>2. reading' \in 0 .. MaxStarts /\ waiter' \in {"after", "read"}
        BY <1>10 DEF WaiterWait
  <2> QED BY <1>10, <2>1, <2>2 DEF WaiterWait
<1>11. CASE WaiterRead
      BY <1>11 DEF WaiterRead
<1>12. CASE WaiterAfter
      BY <1>12 DEF WaiterAfter
<1>13. CASE WaiterCleanup
      BY <1>13 DEF WaiterCleanup
<1>14. ASSUME NEW p \in Processes, EndOf(p) PROVE TypeOK'
      BY <1>14 DEF EndOf
<1>15. CASE Tick
      BY <1>15 DEF Tick, Older
<1>16. CASE UNCHANGED vars
      BY <1>16 DEF vars
<1> QED
    BY <1>1, <1>2, <1>3, <1>4, <1>5, <1>6, <1>7, <1>8, <1>9, <1>10, <1>11,
       <1>12, <1>13, <1>14, <1>15, <1>16
    DEF Next, DoWork, Waiter

\* What has been killed stays killed.
LEMMA KilledForGood == [Next]_vars /\ killed => killed'
<1> SUFFICES ASSUME [Next]_vars, killed PROVE killed'
    OBVIOUS
<1>1. CASE UNCHANGED vars
      BY <1>1 DEF vars
<1>2. CASE Next
      BY <1>2 DEF Next, DoWork, Waiter, SetLine, NoticeEnd, LetRun, Kill, StayIdle,
         FailToLaunch, Launch, StartWaiter, WaiterCheck, WaiterWait, WaiterRead,
         WaiterAfter, WaiterCleanup, EndOf, Tick
<1> QED BY <1>1, <1>2

\* Every step but Kill keeps what the threads know.
LEMMA NextAgreed ==
  ASSUME ProcessIInv, ~killed', [Next]_vars
  PROVE  Alive' /\ Agreed'
<1> USE StartAssumption, KillAssumption
    DEF Alive, Agreed, Watching, Fetched, mainVars, waiterVars
<1>0. TypeOK /\ TypeOK' /\ Alive /\ Agreed
      BY NextTypeOK, KilledForGood DEF ProcessIInv
<1>1. CASE SetLine
      BY <1>0, <1>1 DEF SetLine, TypeOK
<1>2. CASE NoticeEnd
      BY <1>0, <1>2 DEF NoticeEnd, TypeOK, Processes
<1>3. CASE LetRun
      BY <1>0, <1>3 DEF LetRun
<1>4. CASE Kill
      BY <1>0, <1>4 DEF Kill
<1>5. CASE StayIdle
      BY <1>0, <1>5 DEF StayIdle
<1>6. CASE FailToLaunch
      BY <1>0, <1>6 DEF FailToLaunch
<1>7. CASE Launch
      BY <1>0, <1>7 DEF Launch, TypeOK, Processes
<1>8. CASE StartWaiter
      BY <1>0, <1>8 DEF StartWaiter, TypeOK
<1>9. CASE WaiterCheck
      BY <1>0, <1>9 DEF WaiterCheck, TypeOK, Processes
<1>10. CASE WaiterWait
  <2>1. waiter = "wait" /\ processPID # 0 /\ processPID \in Processes
        BY <1>0, <1>10 DEF WaiterWait, TypeOK, Processes
  <2>2. process[processPID] \in {"running", "zombie", "reaped"}
        BY <1>0, <2>1 DEF TypeOK, Processes
  <2>3. CASE process[processPID] = "running"
    <3>1. waiter' = "read" /\ UNCHANGED process
          BY <1>10, <2>1, <2>3 DEF WaiterWait, With
    <3> QED BY <1>0, <1>10, <2>1, <3>1 DEF WaiterWait
  <2>4. CASE process[processPID] = "zombie"
    <3>1. /\ waiter' = "after"
          /\ process' = [process EXCEPT ![processPID] = "reaped"]
          BY <1>10, <2>1, <2>4 DEF WaiterWait, With
    <3> QED BY <1>0, <1>10, <2>1, <2>4, <3>1 DEF WaiterWait, TypeOK
  <2>5. CASE process[processPID] = "reaped"
    <3>1. waiter' = "after" /\ UNCHANGED process
          BY <1>10, <2>1, <2>5 DEF WaiterWait, With
    <3> QED BY <1>0, <1>10, <2>1, <2>5, <3>1 DEF WaiterWait
  <2> QED BY <2>2, <2>3, <2>4, <2>5
<1>11. CASE WaiterRead
      BY <1>0, <1>11 DEF WaiterRead
<1>12. CASE WaiterAfter
      BY <1>0, <1>12 DEF WaiterAfter, TypeOK, Processes
<1>13. CASE WaiterCleanup
      BY <1>0, <1>13 DEF WaiterCleanup
<1>14. ASSUME NEW p \in Processes, EndOf(p) PROVE Alive' /\ Agreed'
      BY <1>0, <1>14 DEF EndOf, TypeOK
<1>15. CASE Tick
      BY <1>0, <1>15 DEF Tick
<1>16. CASE UNCHANGED vars
      BY <1>0, <1>16 DEF vars
<1> QED
    BY <1>1, <1>2, <1>3, <1>4, <1>5, <1>6, <1>7, <1>8, <1>9, <1>10, <1>11,
       <1>12, <1>13, <1>14, <1>15, <1>16
    DEF Next, DoWork, Waiter

-----------------------------------------------------------------------------
LEMMA ProcessInductive == Spec => []ProcessIInv
<1>1. ProcessIInv /\ [Next]_vars => ProcessIInv'
      BY NextTypeOK, NextAgreed DEF ProcessIInv
<1> QED BY InitProcessIInv, <1>1, PTL DEF Spec

\* The types of ExecPort's variables, with KillTime or without.
THEOREM ExecTypeCorrect == Spec => []TypeOK
<1>1. Init => TypeOK
      BY InitProcessIInv DEF ProcessIInv
<1> QED BY <1>1, NextTypeOK, PTL DEF Spec

\* Unless KillTime has cut a process short, doWork never launches the program
\* while another instance of it runs.
THEOREM OneAtATime == Spec => []OneProcess
<1>1. ProcessIInv => OneProcess
      BY DEF ProcessIInv, Alive, OneProcess, With
<1> QED BY <1>1, ProcessInductive, PTL

\* Unless KillTime has interfered, hasTerminated is only set for a process whose
\* exit code waitpid has fetched.
THEOREM ReportsAreReal == Spec => []EndIsReal
<1>1. ProcessIInv => EndIsReal
      BY DEF ProcessIInv, TypeOK, Agreed, Fetched, EndIsReal, With, Processes
<1> QED BY <1>1, ProcessInductive, PTL

-----------------------------------------------------------------------------
(* All together *)

\* What a port of the four modules keeps, whichever a behaviour is about.
AllIInv == IInv /\ PortTypeOK /\ PortIInv /\ StoreIInv /\ ProcessIInv

LEMMA BaseIInv ==
  ASSUME Assignments = {}
  PROVE  BaseSpec => []AllIInv
<1>1. BaseInit => AllIInv
      BY InitIInv, InitPortTypeOK, InitPortIInv, InitStoreIInv, InitProcessIInv DEF BaseInit, AllIInv
<1>2. ASSUME AllIInv, [BaseNext]_<<which, cascadeVars, portVars, persistVars, vars>>
      PROVE  AllIInv'
  <2>1. IInv'
    <3>1. [CascadeNext]_cascadeVars
          BY <1>2 DEF BaseNext
    <3> QED BY <1>2, <3>1, StepIInv DEF AllIInv
  <2>2. PortTypeOK' /\ PortIInv'
    <3>1. [PortNext]_portVars
          BY <1>2 DEF BaseNext
    <3> QED BY <1>2, <3>1, NextPortTypeOK, NextPortIInv DEF AllIInv
  <2>3. StoreIInv'
    <3>1. [PersistNext]_persistVars
          BY <1>2 DEF BaseNext
    <3> QED BY <1>2, <3>1, NextStoreIInv DEF AllIInv
  <2>4. ProcessIInv'
    <3>1. [Next]_vars
          BY <1>2 DEF BaseNext
    <3> QED BY <1>2, <3>1, NextTypeOK, NextAgreed DEF AllIInv, ProcessIInv
  <2> QED BY <2>1, <2>2, <2>3, <2>4 DEF AllIInv
<1> QED BY <1>1, <1>2, PTL DEF BaseSpec

\* For any ports without Assignment ports, any configurations, values and
\* throttles: the variables keep their types, a cascade leaves the handlers of
\* what it has changed High (handleStateChange), and expressions see the value
\* of a port (setError, setLine, setPosition).
THEOREM BaseTheorem ==
  ASSUME Assignments = {}
  PROVE  BaseSpec => []BaseInv
<1>1. AllIInv => BaseInv
      BY IInvKeepsHandlers DEF AllIInv, BaseInv, IInv, PortIInv, StoreIInv, ProcessIInv
<1> QED BY <1>1, BaseIInv, PTL
=============================================================================
