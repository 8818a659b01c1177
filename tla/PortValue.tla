------------------------------ MODULE PortValue ------------------------------
(***************************************************************************)
(* One port of one of the base types: its value, its error, the value that *)
(* expressions see, the refresh messages that announce changes to masters  *)
(* (and may not reach them), and what the file of the persistent           *)
(* configuration and the next start make of its state.  The port is        *)
(* changed by internal functions and by the commands of a master.          *)
(*                                                                         *)
(* Ticks are 500 ms.  The functions of ports are those of this module; who *)
(* is notified of a change is a matter of ChangePropagation.               *)
(***************************************************************************)
EXTENDS Integers

CONSTANTS
  Configs,     \* the configurations of the port, see ConfigType
  UserWrites   \* masters send commands

VARIABLES
  conf,              \* the configuration
  state,             \* mode, value, resolution and reference of the port
  error,
  valueAsDouble,     \* what expressions see, a fraction
  refreshRequired,
  sinceRefresh,      \* time since lastRefreshTime
  news,              \* for connected masters: none, to be sent, or sent and lost
  saved,             \* states in the persistent configuration: one or none
  stored,            \* states in its file
  life               \* of the process: how it has ended, and what came after

portVars == <<conf, state, error, valueAsDouble, refreshRequired, sinceRefresh, news, saved, stored, life>>

ConfigType ==
  [kind : {"digital", "analog", "select", "dial", "custom"},
   refresh : {"auto", "periodic", "off"},
   period : 0 .. 3,           \* RefreshTime
   readonly : BOOLEAN, persistent : BOOLEAN, step : {1, 2},
   pull : 0 .. 2]             \* the pullup or pulldown flag of a digital port

ASSUME ConfigsAssumption == Configs \subseteq ConfigType

States == [mode : 0 .. 3, value : 0 .. 3, resolution : 1 .. 2, reference : 0 .. 1]

\* 1 s: refresh messages are not sent more often
Gap == 2
\* bound of sinceRefresh: longer times are not told apart
RefreshCap == 4
\* bounds of the model: the positions and digits of a port
MaxDial == 3
MaxPosition == 2
Resolutions == 1 .. 2
Inputs == 0 .. 4

PortTypeOK ==
  /\ conf \in ConfigType
  /\ state \in States
  /\ error \in {"ok", "expired", "unavailable"}
  /\ valueAsDouble \in (0 .. 3) \X {0, 1, 3}
  /\ refreshRequired \in BOOLEAN
  /\ sinceRefresh \in 0 .. RefreshCap
  /\ news \in {"none", "due", "lost"}
  /\ saved \in SUBSET States /\ stored \in SUBSET States
  /\ life \in {"running", "shut down", "killed", "edited"}

-----------------------------------------------------------------------------
(* Helpers *)

NaN == <<0, 0>>
Full(resolution) == 2 ^ resolution - 1
AutoRefresh == conf.refresh = "auto"

\* the values setLine, setAbsoluteValue, setPosition and setValue do not refuse
Accepted(v) ==
  CASE conf.kind = "select" -> v <= MaxPosition
    [] conf.kind = "dial" -> v <= MaxDial
    [] conf.kind = "analog" -> TRUE
    [] OTHER -> v <= 1

\* validateValue of an analog port
Valid(v, resolution) ==
  IF conf.kind = "analog" /\ v > Full(resolution) THEN Full(resolution) ELSE v

\* A dial compares with the next possible step, and keeps the value as it is.
Differs(v) ==
  IF conf.kind = "dial" THEN (v \div conf.step) * conf.step # state.value ELSE v # state.value

Double(s) ==
  CASE conf.kind = "analog" -> <<s.value, Full(s.resolution)>>
    [] conf.kind = "custom" -> NaN
    [] OTHER -> <<s.value, 1>>

\* persist refuses ports in an error state and types it does not know.  It
\* also saves the file, unless any port has done so within the last ten seconds
\* (see PersistentConfig).  The reference is not written.
Persisted(s, e) ==
  \/ /\ conf.persistent /\ e = "ok" /\ conf.kind # "custom"
     /\ saved' = {[s EXCEPT !.reference = 0]}
     /\ stored' \in {stored, saved'}
  \/ /\ ~(conf.persistent /\ e = "ok" /\ conf.kind # "custom")
     /\ UNCHANGED <<saved, stored>>

Store(s, e) ==
  /\ state' = s
  /\ Persisted(s, e)

\* The state of a new port, and the one its configuration gives it: a digital
\* port is an Input, with its pullup or pulldown if it has one.
NewState == [mode |-> 0, value |-> 0, resolution |-> 2, reference |-> 0]
StartState == [NewState EXCEPT !.mode = IF conf.kind = "digital" THEN conf.pull ELSE 0]

PortInit ==
  /\ conf \in Configs
  /\ state = StartState
  /\ error = "ok"
  /\ valueAsDouble = Double(StartState)
  /\ refreshRequired = (AutoRefresh /\ StartState # NewState)
  /\ sinceRefresh = RefreshCap
  /\ news = "none"
  /\ saved = {}
  /\ stored = {}
  /\ life = "running"

-----------------------------------------------------------------------------
(* Changes.  s is the state the setter works on, v the new value. *)

\* mutant of Assigned: expressions keep the value of the error
AssignedStale(s, v) ==
  LET new == [s EXCEPT !.value = Valid(v, s.resolution)] IN
  IF Differs(new.value) \/ error # "ok"
  THEN /\ Store(new, "ok")
       /\ error' = "ok"
       /\ valueAsDouble' = IF Differs(new.value) THEN Double(new) ELSE valueAsDouble
       /\ refreshRequired' = IF error # "ok" THEN AutoRefresh ELSE refreshRequired \/ AutoRefresh
       /\ news' = "due"
  ELSE /\ state' = s
       /\ UNCHANGED <<saved, stored, error, valueAsDouble, refreshRequired, news>>

\* mutant of Assigned: not persisted when only the error is cleared
AssignedUnsaved(s, v) ==
  LET new == [s EXCEPT !.value = Valid(v, s.resolution)] IN
  IF Differs(new.value) \/ error # "ok"
  THEN /\ state' = new
       /\ IF error = "ok" THEN Persisted(new, "ok") ELSE UNCHANGED <<saved, stored>>
       /\ error' = "ok"
       /\ valueAsDouble' = Double(new)
       /\ refreshRequired' = IF error # "ok" THEN AutoRefresh ELSE refreshRequired \/ AutoRefresh
       /\ news' = "due"
  ELSE /\ state' = s
       /\ UNCHANGED <<saved, stored, error, valueAsDouble, refreshRequired, news>>

\* setLine, setAbsoluteValue, setPosition and setValue after their checks: an
\* error makes any value a change
Assigned(s, v) ==
  LET new == [s EXCEPT !.value = Valid(v, s.resolution)] IN
  IF Differs(new.value) \/ error # "ok"
  THEN /\ Store(new, "ok")
       /\ error' = "ok"
       /\ valueAsDouble' = Double(new)
       /\ refreshRequired' = IF error # "ok" THEN AutoRefresh ELSE refreshRequired \/ AutoRefresh
       /\ news' = "due"
  ELSE /\ state' = s
       /\ UNCHANGED <<saved, stored, error, valueAsDouble, refreshRequired, news>>

\* setMode, setResolution and setReference up to the notification
Altered(s) ==
  /\ refreshRequired' = IF s # state THEN AutoRefresh ELSE refreshRequired
  /\ news' = IF s # state THEN "due" ELSE news

SetDigitalLine(v) == conf.kind = "digital" /\ Accepted(v) /\ Assigned(state, v)
SetAbsoluteValue(v) == conf.kind = "analog" /\ Assigned(state, v)
SelectPosition(v) == conf.kind = "select" /\ Accepted(v) /\ Assigned(state, v)
SetPosition(v) == conf.kind = "dial" /\ Accepted(v) /\ Assigned(state, v)
SetText(v) == conf.kind = "custom" /\ Accepted(v) /\ Assigned(state, v)

SetValue(v) ==
  /\ SetDigitalLine(v) \/ SetAbsoluteValue(v) \/ SelectPosition(v) \/ SetPosition(v) \/ SetText(v)
  /\ UNCHANGED <<conf, sinceRefresh, life>>

\* A bidirectional digital port takes Input (0) and Output (3), and the input
\* with a pullup (1) or a pulldown (2) if that is its flag; Input is then mapped
\* to it.
Modes == IF conf.kind = "digital" THEN {0, conf.pull, 3} ELSE 0 .. 1
ModeFor(m) == IF conf.kind = "digital" /\ m = 0 THEN conf.pull ELSE m

SetMode(m) ==
  /\ conf.kind \in {"digital", "analog"}
  /\ m \in Modes
  /\ LET s == [state EXCEPT !.mode = ModeFor(m)] IN Store(s, error) /\ Altered(s)
  /\ UNCHANGED <<conf, error, valueAsDouble, sinceRefresh, life>>

\* An output takes the value that fits the new resolution; an input keeps
\* the one it has.
SetResolution(r) ==
  /\ conf.kind = "analog"
  /\ LET s == [state EXCEPT !.resolution = r]
         v == Valid(state.value, r)
     IN  IF state.mode # 0 /\ (v # state.value \/ error # "ok")
         THEN Assigned(s, v)
         ELSE /\ state' = s
              /\ IF state.mode = 0 THEN Persisted(s, error) ELSE UNCHANGED <<saved, stored>>
              /\ Altered(s)
              /\ UNCHANGED <<error, valueAsDouble>>
  /\ UNCHANGED <<conf, sinceRefresh, life>>

SetReference(r) ==
  /\ conf.kind = "analog"
  /\ LET s == [state EXCEPT !.reference = r] IN Store(s, error) /\ Altered(s)
  /\ UNCHANGED <<conf, error, valueAsDouble, sinceRefresh, life>>

\* setError: only expressions and masters see the difference
SetError(e) ==
  /\ error' = e
  /\ valueAsDouble' = NaN
  /\ refreshRequired' = IF e # error THEN AutoRefresh ELSE refreshRequired
  /\ news' = IF e # error THEN "due" ELSE news
  /\ UNCHANGED <<conf, state, sinceRefresh, saved, stored, life>>

\* an internal function
ChangeInternally ==
  \/ \E v \in Inputs : SetValue(v) \/ SetMode(v)
  \/ \E r \in Resolutions : SetResolution(r)
  \/ \E r \in 0 .. 1 : SetReference(r)

\* The commands of a master, by the type of the port.  A readonly port refuses
\* a value and a mode, a resolution and a reference it does not.
CommandDigital ==
  conf.kind = "digital" /\ ~conf.readonly /\ \E v \in Inputs : SetValue(v) \/ SetMode(v)

CommandAnalog ==
  /\ conf.kind = "analog"
  /\ \/ ~conf.readonly /\ \E v \in Inputs : SetValue(v) \/ SetMode(v)
     \/ \E r \in Resolutions : SetResolution(r)
     \/ \E r \in 0 .. 1 : SetReference(r)

CommandSelect == conf.kind = "select" /\ ~conf.readonly /\ \E v \in Inputs : SetValue(v)
CommandDial == conf.kind = "dial" /\ ~conf.readonly /\ \E v \in Inputs : SetValue(v)
CommandCustom == conf.kind = "custom" /\ ~conf.readonly /\ \E v \in Inputs : SetValue(v)

ChangeByUser ==
  /\ UserWrites
  /\ CommandDigital \/ CommandAnalog \/ CommandSelect \/ CommandDial \/ CommandCustom

-----------------------------------------------------------------------------
(* Refresh messages *)

Refreshes == refreshRequired /\ sinceRefresh > Gap

\* What becomes of what masters are to be told: refresh's message tells them,
\* or it is lost, as doWork may not send in the middle of a message (canSend)
\* or sending fails.  doWork does not look at the result.
Announced(sends) ==
  IF sends /\ news # "none" THEN news' \in {"none", "lost"} ELSE news' = news

\* mutant of PortDoWork: a request that is made too soon is dropped
PortDoWorkDropping ==
  /\ LET age == IF Refreshes THEN 0 ELSE sinceRefresh
         due == conf.refresh = "periodic" /\ conf.period > 0 /\ age > conf.period
     IN  /\ refreshRequired' = due
         /\ sinceRefresh' = IF due THEN 0 ELSE age
  /\ Announced(Refreshes)
  /\ UNCHANGED <<conf, state, error, valueAsDouble, saved, stored, life>>

\* Port::doWork: a refresh that is required is attempted if the last one is
\* more than a second ago, and is not required any more then; a periodic one is
\* requested by setting the clock back
PortDoWork ==
  /\ LET age == IF Refreshes THEN 0 ELSE sinceRefresh
         due == conf.refresh = "periodic" /\ conf.period > 0 /\ age > conf.period
     IN  /\ refreshRequired' = ((refreshRequired /\ ~Refreshes) \/ due)
         /\ sinceRefresh' = IF due THEN 0 ELSE age
  /\ Announced(Refreshes)
  /\ UNCHANGED <<conf, state, error, valueAsDouble, saved, stored, life>>

PortTick ==
  /\ sinceRefresh < RefreshCap
  /\ sinceRefresh' = sinceRefresh + 1
  /\ UNCHANGED <<conf, state, error, valueAsDouble, refreshRequired, news, saved, stored, life>>

-----------------------------------------------------------------------------
(* The file and the process *)

\* another port is persisted, which saves the file for all of them
SaveForAnother ==
  /\ stored' = saved
  /\ UNCHANGED <<conf, state, error, valueAsDouble, refreshRequired, sinceRefresh, news, saved, life>>

\* Masters read everything when they connect again.  The last state and error
\* are kept to compare a start with.
Ends(how) ==
  /\ life' = how
  /\ news' = "none"
  /\ refreshRequired' = FALSE
  /\ sinceRefresh' = RefreshCap
  /\ UNCHANGED <<conf, state, error, valueAsDouble, saved>>

\* a requested shutdown saves the file, however short ago that was done
ShutDown == Ends("shut down") /\ stored' = saved

\* What a save leaves in the file that is cut short: any of the lines of the
\* port.  A line that is missing leaves it to the configuration.
Cut(s) ==
  {[s EXCEPT !.mode = m, !.value = v, !.resolution = r] :
     m \in {s.mode, StartState.mode}, v \in {s.value, StartState.value},
     r \in {s.resolution, StartState.resolution}}

\* The process is killed or ends with an error, between two saves or in the
\* middle of one.
Killed == Ends("killed") /\ (stored' \in {stored, {}} \/ \E s \in saved : \E t \in Cut(s) : stored' = {t})

\* What configureDigitalPort and its likes make of the persistent configuration:
\* the mode and the resolution first, then the value.  They do not read the
\* reference, and the position of a dial is compared with 0.
RestoredDigital(s) == [StartState EXCEPT !.mode = IF s.mode = 3 THEN 3 ELSE conf.pull, !.value = s.value]
RestoredAnalog(s) ==
  [StartState EXCEPT !.mode = s.mode, !.resolution = s.resolution, !.value = Valid(s.value, s.resolution)]
RestoredSelect(s) == [StartState EXCEPT !.value = s.value]
RestoredDial(s) == [StartState EXCEPT !.value = IF (s.value \div conf.step) * conf.step = 0 THEN 0 ELSE s.value]

RestoredState(s) ==
  CASE conf.kind = "digital" -> RestoredDigital(s)
    [] conf.kind = "analog" -> RestoredAnalog(s)
    [] conf.kind = "select" -> RestoredSelect(s)
    [] OTHER -> RestoredDial(s)

\* configureDigitalPort does not know two of the modes persist writes
Refused == conf.kind = "digital" /\ \E s \in stored : s.mode \in {1, 2}

PortStart ==
  /\ life # "running"
  /\ ~Refused
  /\ state' = IF stored = {} THEN StartState ELSE RestoredState(CHOOSE s \in stored : TRUE)
  /\ error' = "ok"
  /\ valueAsDouble' = Double(state')
  /\ refreshRequired' = (AutoRefresh /\ state' # NewState)
  /\ sinceRefresh' = RefreshCap
  /\ saved' = stored
  /\ life' = "running"
  /\ UNCHANGED <<conf, news, stored>>

\* the start has ended with an exception: somebody removes the entry
EditFile ==
  /\ life # "running"
  /\ Refused
  /\ stored' = {}
  /\ life' = "edited"
  /\ UNCHANGED <<conf, state, error, valueAsDouble, refreshRequired, sinceRefresh, news, saved>>

Works ==
  \/ ChangeInternally
  \/ ChangeByUser
  \/ \E e \in {"expired", "unavailable"} : SetError(e)
  \/ PortDoWork
  \/ PortTick
  \/ SaveForAnother
  \/ ShutDown
  \/ Killed

PortNext ==
  \/ life = "running" /\ Works
  \/ PortStart
  \/ EditFile

\* while the process runs the main loop comes back to every port, and time
\* goes on
PortFairness ==
  /\ WF_portVars(life = "running" /\ PortDoWork)
  /\ WF_portVars(life = "running" /\ PortTick)
PortSpec == PortInit /\ [][PortNext]_portVars /\ PortFairness

-----------------------------------------------------------------------------
(* Properties *)

Changes == ChangeInternally \/ ChangeByUser \/ PortStart \/ \E e \in {"expired", "unavailable"} : SetError(e)

\* Expressions see the value of a port, and no number while the port is in an
\* error state, whatever the order of errors, values and restarts has been
\* (setError, setLine, setPosition; analog ports are left out, see below).
ExpressionsSeeValue ==
  conf.kind # "analog" =>
    valueAsDouble = IF error = "ok" THEN Double(state) ELSE NaN

\* With RefreshMode Auto every change of the value, the mode or the error leads
\* to a message in the end, though messages are not sent more often than once a
\* second and flags are set and cleared by many functions.  The message may be
\* lost: doWork clears the request without looking at what refresh returns.
ChangesAnnounced == AutoRefresh => (news = "due" ~> news # "due")

\* With RefreshMode Periodic and a RefreshTime of more than a second messages
\* are sent again and again, whether they are lost or not, unless changes keep
\* clearing the request or the process has ended for good.
PeriodicallyRefreshed ==
  conf.refresh = "periodic" /\ conf.period > Gap =>
    []<>Refreshes \/ []<><<Changes>>_portVars \/ <>[](life # "running")

\* Masters are sent what happens to a port, by either mode.
MastersInformed == ChangesAnnounced /\ PeriodicallyRefreshed

\* A start finds a persistent port as the process before has left it: after a
\* requested shutdown whatever the throttle has held back, and after any other
\* end unless the throttle has held something back or a save was cut short.
\* The port must not have been in an error state, a dial must be on its grid,
\* and an input must have neither pullup nor pulldown.
StateSurvives ==
  [][PortStart /\ (life = "shut down" \/ stored = saved)
      /\ conf.persistent /\ error = "ok" /\ conf.kind \in {"digital", "select", "dial"}
      /\ (conf.kind = "dial" => state.value % conf.step = 0)
      /\ (conf.kind = "digital" /\ conf.pull # 0 => state.mode = 3)
     => state' = state]_portVars
=============================================================================
