----------------------------- MODULE PolledPorts -----------------------------
(***************************************************************************)
(* The ports of the FritzBox and of the Fronius plugin.  A port queues the *)
(* requests to ask for its value, and a switch the commands; the worker    *)
(* thread of the plugin takes them one by one, logs in at the box where    *)
(* that is needed, and leaves the answer for the port, which shows it when *)
(* its turn comes.  An error is set by the worker directly.                *)
(*                                                                         *)
(* The box may be silent, answer with something that can not be parsed,    *)
(* refuse the login or not reach the device, and it ends sessions; devices *)
(* change by themselves.                                                   *)
(***************************************************************************)
EXTENDS Integers, Sequences

CONSTANT
  PolledConfigs   \* sets of ports, one of a kind each

VARIABLES
  polled,       \* the ports of the plugin
  jobs,         \* queue: what the worker is to do
  job,          \* what it does, and how far it has come
  sid,          \* the plugin has a session ID
  session,      \* the box knows it
  shown,        \* the values of the ports
  failing,      \* ports in the error state
  reading,      \* switchState, power, energy, temperature
  readingSet,   \* valueSet
  reality,      \* the values of the devices
  wanted        \* history: the last command, unless it failed or was overruled

polledVars ==
  <<polled, jobs, job, sid, session, shown, failing, reading, readingSet, reality, wanted>>

FritzKinds == {"switch", "power", "energy", "temperature"}
FroniusKinds == {"solar", "dayenergy"}

ASSUME PolledAssumption == PolledConfigs \subseteq SUBSET (FritzKinds \cup FroniusKinds)

Unknown == -1    \* for temperatures -9999
Beyond == 2      \* out of the range of the port
NoLine == -2
Failed == -3     \* httpGet returns nothing

Readings(p) == IF p \in {"switch", "energy"} THEN {0, 1} ELSE {0, 1, Beyond}

Job(act, p) == [act |-> act, port |-> p, stage |-> "check", answer |-> Unknown]
Idle == Job("none", "none")
IsCommand(j) == j.act \in {"high", "low"}

\* bounds of the model: commands and requests of one port in the queue
MaxCommands == 2
MaxGets == 1
Waiting(Test(_)) == Len(SelectSeq(jobs, Test))
WaitingGets(p) == LET ForPort(j) == j.port = p /\ j.act = "get" IN Waiting(ForPort)

CommandQueued == \E i \in DOMAIN jobs : IsCommand(jobs[i])
CommandWaits == CommandQueued \/ (IsCommand(job) /\ job.stage # "store")

\* what the box may do with a request: refuse a login, report that a device is
\* not there, say nothing or something that can not be parsed
Outcomes == {"answers", "silent", "garbles", "refuses", "inval"}

PolledTypeOK ==
  /\ polled \subseteq FritzKinds \cup FroniusKinds
  /\ \A i \in DOMAIN jobs : jobs[i].port \in polled /\ jobs[i].act \in {"get", "high", "low"}
  /\ job.stage \in {"check", "login", "ask", "store"}
  /\ sid \in BOOLEAN /\ session \in BOOLEAN
  /\ \A p \in polled :
       /\ shown[p] \in {0, 1} /\ reality[p] \in Readings(p)
       /\ reading[p] \in Readings(p) \cup {Unknown}
       /\ failing[p] \in BOOLEAN /\ readingSet[p] \in BOOLEAN
  /\ wanted \in {0, 1, NoLine}

\* The switch has no value to show at first, the others an error.
PolledInit ==
  /\ polled \in PolledConfigs
  /\ jobs = << >>
  /\ job = Idle
  /\ sid = FALSE /\ session = FALSE
  /\ shown = [p \in polled |-> 0]
  /\ failing = [p \in polled |-> FALSE]
  /\ reading = [p \in polled |-> Unknown]
  /\ readingSet = [p \in polled |-> p # "switch"]
  /\ reality = [p \in polled |-> 0]
  /\ wanted = NoLine

-----------------------------------------------------------------------------
(* The main thread *)

\* A value is set with the method of the base class; one that is out of range
\* throws there, and is tried again the next time.
ShowReading(p) ==
  IF readingSet[p] /\ reading[p] # Beyond
  THEN /\ readingSet' = [readingSet EXCEPT ![p] = FALSE]
       /\ failing' = [failing EXCEPT ![p] = reading[p] = Unknown]
       /\ shown' = IF reading[p] = Unknown THEN shown ELSE [shown EXCEPT ![p] = reading[p]]
  ELSE UNCHANGED <<readingSet, failing, shown>>

\* mutant of Requests: the method of the switch is called, which queues a command
RequestsSwitching(p, due) ==
  (IF due THEN <<Job("get", p)>> ELSE << >>)
    \o IF p = "switch" /\ readingSet[p] /\ reading[p] \notin {Unknown, shown[p]}
       THEN <<Job(IF reading[p] = 1 THEN "high" ELSE "low", p)>> ELSE << >>

Requests(p, due) == IF due THEN <<Job("get", p)>> ELSE << >>

\* doWork: when the query interval is over the port asks for its value; a value
\* that has come is shown, under the mutex
PortWork(p, due) ==
  /\ p \in polled
  /\ due => WaitingGets(p) < MaxGets
  /\ jobs' = jobs \o Requests(p, due)
  /\ ShowReading(p)
  /\ UNCHANGED <<polled, job, sid, session, reading, reality, wanted>>

SwitchWork == \E due \in BOOLEAN : PortWork("switch", due)
PowerWork == \E due \in BOOLEAN : PortWork("power", due)
EnergyWork == \E due \in BOOLEAN : PortWork("energy", due)
TemperatureWork == \E due \in BOOLEAN : PortWork("temperature", due)
SolarWork == \E due \in BOOLEAN : PortWork("solar", due)
DayEnergyWork == \E due \in BOOLEAN : PortWork("dayenergy", due)

\* setLine of the switch
Switch(v) ==
  /\ "switch" \in polled
  /\ v # shown["switch"] \/ failing["switch"]
  /\ Waiting(IsCommand) + (IF IsCommand(job) THEN 1 ELSE 0) < MaxCommands
  /\ shown' = [shown EXCEPT !["switch"] = v]
  /\ failing' = [failing EXCEPT !["switch"] = FALSE]
  /\ jobs' = Append(jobs, Job(IF v = 1 THEN "high" ELSE "low", "switch"))
  /\ wanted' = v
  /\ UNCHANGED <<polled, job, sid, session, reading, readingSet, reality>>

-----------------------------------------------------------------------------
(* The worker *)

TakeJob ==
  /\ job = Idle
  /\ jobs # << >>
  /\ job' = [Head(jobs) EXCEPT !.stage = IF Head(jobs).port \in FroniusKinds THEN "ask" ELSE "check"]
  /\ jobs' = Tail(jobs)
  /\ UNCHANGED <<polled, sid, session, shown, failing, reading, readingSet, reality, wanted>>

\* a command that fails is overruled by one that waits
Overruled == wanted' = IF IsCommand(job) /\ ~CommandQueued THEN NoLine ELSE wanted

\* the port is set to the error state, without the mutex
GiveUp ==
  /\ job' = Idle
  /\ failing' = [failing EXCEPT ![job.port] = TRUE]
  /\ Overruled

\* an exception ends the job, and nobody learns of it
Abandon ==
  /\ job' = Idle
  /\ failing' = failing
  /\ Overruled

Proceed(stage) ==
  /\ job' = [job EXCEPT !.stage = stage]
  /\ UNCHANGED <<failing, wanted>>

\* mutant of CheckLogin: only asks the box when there is no session
CheckLoginOnce(b) ==
  /\ job # Idle /\ job.stage = "check" /\ b = "answers"
  /\ Proceed(IF sid THEN "ask" ELSE "login") /\ sid' = sid
  /\ UNCHANGED <<polled, jobs, session, shown, reading, readingSet, reality>>

\* checkLogin: asks the box whether the session is still valid
CheckLogin(b) ==
  /\ job # Idle /\ job.stage = "check" /\ b \notin {"refuses", "inval"}
  /\ \/ b = "silent" /\ sid' = FALSE /\ GiveUp
     \/ b = "garbles" /\ sid' = sid /\ Abandon
     \/ /\ b = "answers"
        /\ sid' = (sid /\ session)
        /\ Proceed(IF sid' THEN "ask" ELSE "login")
  /\ UNCHANGED <<polled, jobs, session, shown, reading, readingSet, reality>>

\* login, getSessionID: a challenge and its response
Login(b) ==
  /\ job # Idle /\ job.stage = "login" /\ b # "inval"
  /\ \/ b \in {"silent", "refuses"} /\ GiveUp /\ UNCHANGED <<sid, session>>
     \/ b = "garbles" /\ Abandon /\ UNCHANGED <<sid, session>>
     \/ b = "answers" /\ sid' = TRUE /\ session' = TRUE /\ Proceed("ask")
  /\ UNCHANGED <<polled, jobs, shown, reading, readingSet, reality>>

\* what httpGet returns, and what is made of it; a session that has ended is an
\* error of the server
FritzAnswer(b, v) ==
  CASE b = "silent" \/ ~session -> Failed
    [] b \in {"garbles", "inval"} -> Unknown
    [] OTHER -> v

FroniusAnswer(b, v) ==
  CASE b \in {"silent", "garbles"} -> Failed
    [] b = "inval" -> Unknown
    [] OTHER -> v

\* once the session has ended it makes no difference what the box does
Outcome(b) == b = "answers" \/ (session /\ b # "refuses")

Answered(answer) ==
  IF answer = Failed THEN GiveUp
  ELSE /\ job' = [job EXCEPT !.stage = "store", !.answer = answer]
       /\ failing' = failing
       /\ IF answer = Unknown THEN Overruled ELSE wanted' = wanted

Get(answer) ==
  /\ job.act = "get" /\ job.stage = "ask"
  /\ Answered(answer)
  /\ UNCHANGED <<polled, jobs, sid, session, shown, reading, readingSet, reality>>

GetSwitchState(b) == Outcome(b) /\ job.port = "switch" /\ Get(FritzAnswer(b, reality["switch"]))
GetSwitchPower(b) == Outcome(b) /\ job.port = "power" /\ Get(FritzAnswer(b, reality["power"]))
GetSwitchEnergy(b) == Outcome(b) /\ job.port = "energy" /\ Get(FritzAnswer(b, reality["energy"]))
GetTemperature(b) == Outcome(b) /\ job.port = "temperature" /\ Get(FritzAnswer(b, reality["temperature"]))
GetCurrentPower(b) == b # "refuses" /\ job.port = "solar" /\ Get(FroniusAnswer(b, reality["solar"]))
GetDayEnergy(b) == b # "refuses" /\ job.port = "dayenergy" /\ Get(FroniusAnswer(b, reality["dayenergy"]))

\* A command may have been carried out although the answer is lost or cannot be
\* parsed.
SetSwitchState(b) ==
  LET v == IF job.act = "high" THEN 1 ELSE 0 IN
  /\ IsCommand(job) /\ job.stage = "ask" /\ Outcome(b)
  /\ Answered(FritzAnswer(b, v))
  /\ \/ FritzAnswer(b, v) = v /\ reality' = [reality EXCEPT !["switch"] = v]
     \/ FritzAnswer(b, v) # v /\ reality' = reality
     \/ b \in {"silent", "garbles"} /\ session /\ reality' = [reality EXCEPT !["switch"] = v]
  /\ UNCHANGED <<polled, jobs, sid, session, shown, reading, readingSet>>

\* setSwitchState and its likes of the ports, under the mutex
StoreReading ==
  /\ job.stage = "store"
  /\ reading' = [reading EXCEPT ![job.port] = job.answer]
  /\ readingSet' = [readingSet EXCEPT ![job.port] = TRUE]
  /\ job' = Idle
  /\ UNCHANGED <<polled, jobs, sid, session, shown, failing, reality, wanted>>

\* the requests of the worker to the box
Ask(b) ==
  \/ CheckLogin(b) \/ Login(b)
  \/ GetSwitchState(b) \/ SetSwitchState(b) \/ GetSwitchPower(b) \/ GetSwitchEnergy(b) \/ GetTemperature(b)
  \/ GetCurrentPower(b) \/ GetDayEnergy(b)

PollThread == TakeJob \/ (\E b \in Outcomes : Ask(b)) \/ StoreReading

-----------------------------------------------------------------------------
(* The world *)

\* A button of the socket is pressed, the sun shines.  A command that waits
\* will overrule it.
RealityChanges(p) ==
  /\ p \in polled
  /\ \E v \in Readings(p) \ {reality[p]} : reality' = [reality EXCEPT ![p] = v]
  /\ wanted' = IF p = "switch" /\ ~CommandWaits THEN NoLine ELSE wanted
  /\ UNCHANGED <<polled, jobs, job, sid, session, shown, failing, reading, readingSet>>

SessionEnds ==
  /\ session
  /\ session' = FALSE
  /\ UNCHANGED <<polled, jobs, job, sid, shown, failing, reading, readingSet, reality, wanted>>

\* what keeps the ports from coming to rest
Unrest ==
  \/ \E v \in {0, 1} : Switch(v)
  \/ \E p \in polled : RealityChanges(p)
  \/ SessionEnds
  \/ \E b \in Outcomes \ {"answers"} : Ask(b)

PolledNext ==
  \/ SwitchWork \/ PowerWork \/ EnergyWork \/ TemperatureWork \/ SolarWork \/ DayEnergyWork
  \/ PollThread
  \/ \E v \in {0, 1} : Switch(v)
  \/ \E p \in polled : RealityChanges(p)
  \/ SessionEnds

\* the main loop and the worker go on, and the query intervals end
PolledFairness ==
  /\ \A p \in FritzKinds \cup FroniusKinds : WF_polledVars(PortWork(p, TRUE)) /\ WF_polledVars(PortWork(p, FALSE))
  /\ WF_polledVars(PollThread)

PolledSpec == PolledInit /\ [][PolledNext]_polledVars /\ PolledFairness

-----------------------------------------------------------------------------
(* Properties *)

\* Once no command waits the socket is as the last command has set it, unless
\* that failed or a button was pressed since: a report is never answered with
\* a command ("use base method to avoid triggering an action!").
OrdersObeyed == ~CommandWaits /\ wanted # NoLine => reality["switch"] = wanted

PolledInv == PolledTypeOK /\ OrdersObeyed

\* When the world is at rest and the box answers, the ports come to show what
\* the devices do, whatever errors, commands and reports have crossed before and
\* whatever became of the session (checkLogin, setSwitchState, doWork).
ReadingsShown ==
  []<><<Unrest>>_polledVars
    \/ <>[](\A p \in polled : reality[p] # Beyond => ~failing[p] /\ shown[p] = reality[p])
=============================================================================
