------------------------------ MODULE MqttPorts ------------------------------
(***************************************************************************)
(* A port of the MQTT plugin and the device behind it.  Three threads: the *)
(* main thread calls doWork and the setters, the work thread of the plugin *)
(* connects, subscribes and queries, and the client library calls          *)
(* handle_payload.  The port of each class keeps what has been received in *)
(* a mailbox until doWork takes it.                                        *)
(***************************************************************************)
EXTENDS Integers, Sequences, SequencesExt

CONSTANT
  MqttConfigs   \* see MqttType

VARIABLES
  mqtt,         \* the configuration
  client,       \* of the work thread
  callback,     \* what the call connected has left to do
  queue,        \* notifications for the work thread
  subscription, \* on this connection
  initial,      \* the initial line or value, None if there is none (left)
  portValue,
  portError,
  box,          \* the value received last, None for one that is not understood
  boxSet,       \* valueSet
  fresh,        \* there is a timeout, and lastReceiveTime is not longer ago
  queryDue,     \* lastQueryTime is longer ago than the interval
  arriving,     \* what handle_payload has left to do
  device,       \* state of the device
  commands,     \* messages to the device
  reports,      \* messages of the device
  crashed

mqttVars == <<mqtt, client, callback, queue, subscription, initial, portValue, portError, box, boxSet,
              fresh, queryDue, arriving, device, commands, reports, crashed>>
networkVars == <<client, callback, queue, subscription>>
portVars == <<initial, portValue, portError, queryDue>>
mailboxVars == <<box, boxSet, fresh, arriving>>

Classes == {"digital", "dial", "select", "generic", "switch", "power"}
Unlocked == {"switch", "power"}
\* no value: unknown, not understood or not configured
None == -1
Bits == {0, 1}
\* a dial value that is out of the range of the port
TooBig == 2
Junk == -2
Payloads == Bits \cup {TooBig, Junk}
\* the message that asks the device for its state
Query == -3

MqttType == [class : Classes, queries : BOOLEAN, writes : BOOLEAN, timeout : BOOLEAN, initial : Bits \cup {None},
   odd : Payloads]

ASSUME MqttAssumption == MqttConfigs \subseteq MqttType

\* bounds of the queue of the work thread, the request for the subscriptions
\* not counted, and of the messages under way
QueueCap == 1
CommandCap == 1
ReportCap == 1

QueueLimit == IF callback = "request" THEN QueueCap ELSE QueueCap + 1

MqttTypeOK ==
  /\ mqtt \in MqttType
  /\ client \in {"none", "connecting", "up", "lost"}
  /\ callback \in {"none", "clear", "request"}
  /\ queue \in Seq({"subscribe", "query", "reconnect"}) /\ Len(queue) <= QueueLimit
  /\ subscription \in {"none", "made", "failed"}
  /\ initial \in Bits \cup {None}
  /\ portValue \in Bits
  /\ portError \in {"ok", "expired", "unavailable"}
  /\ box \in Bits \cup {TooBig, None}
  /\ boxSet \in BOOLEAN
  /\ fresh \in BOOLEAN
  /\ queryDue \in BOOLEAN
  /\ arriving \in Seq({"flag", "time"}) /\ Len(arriving) <= 2
  /\ device \in Bits
  /\ commands \in Seq(Bits \cup {Query}) /\ Len(commands) <= CommandCap
  /\ reports \in Seq(Payloads) /\ Len(reports) <= ReportCap
  /\ crashed \in BOOLEAN

\* valueSet "causes an error in doWork" until a first value arrives
MqttInit ==
  /\ mqtt \in MqttConfigs
  /\ client = "none"
  /\ callback = "none"
  /\ queue = <<>>
  /\ subscription = "none"
  /\ initial = mqtt.initial
  /\ portValue = 0
  /\ portError = "ok"
  /\ box = None
  /\ boxSet = (mqtt.class # "generic")
  /\ fresh = FALSE
  /\ queryDue = TRUE
  /\ arriving = <<>>
  /\ device \in Bits
  /\ commands = <<>>
  /\ reports = <<>>
  /\ crashed = FALSE

Queued(q, notification) == IF Len(q) < QueueCap THEN Append(q, notification) ELSE q
Sent(message) == commands' = IF Len(commands) < CommandCap THEN Append(commands, message) ELSE commands

-----------------------------------------------------------------------------
(* The connection *)

Connect ==
  /\ client = "none"
  /\ client' = "connecting"
  /\ UNCHANGED <<callback, queue, subscription>>

\* The client is deleted: the connection is lost, or could not be established
\* in time.  A callback that runs goes on, one that has not begun may not come.
DropClient ==
  /\ client \in {"connecting", "lost"}
  /\ client' = "none"
  /\ callback' \in {callback, "none"}
  /\ UNCHANGED <<queue, subscription>>

\* From now on is_connected is true.  The thread of the client library, which
\* sees this, calls connected next.
Established ==
  /\ client = "connecting" /\ callback = "none"
  /\ client' = "up" /\ callback' = "clear"
  /\ subscription' = "none"
  /\ UNCHANGED <<queue, commands, reports>>

\* From now on is_connected is false, messages under way are lost, and the call
\* connection_lost follows: nothing is taken from the queue before it is over.
\* When connected is not over it comes after it, and is left out, as DoReconnect
\* does nothing.
ConnectionLost ==
  /\ client = "up"
  /\ client' = "lost"
  /\ queue' = IF callback = "none" THEN Queued(queue, "reconnect") ELSE queue
  /\ subscription' = "none"
  /\ commands' \in {commands, <<>>}
  /\ reports' = <<>>
  /\ UNCHANGED callback

\* connected: pending queries are cleared, then the subscription is requested
ClearQueue ==
  /\ callback = "clear"
  /\ callback' = "request"
  /\ queue' = <<>>

\* mutant of RequestSubscription: it is taken for done when the queue, which has
\* just been cleared, has something in it
RequestUnlessQueued ==
  /\ callback = "request"
  /\ callback' = "none"
  /\ queue' = IF queue = <<>> THEN Append(queue, "subscribe") ELSE queue

RequestSubscription ==
  /\ callback = "request"
  /\ callback' = "none"
  /\ queue' = Append(queue, "subscribe")

Callback ==
  /\ ~crashed
  /\ ClearQueue \/ RequestSubscription
  /\ UNCHANGED <<mqtt, client, subscription, portVars, mailboxVars, device, commands, reports, crashed>>

Network ==
  /\ ~crashed
  /\ Established \/ ConnectionLost
  /\ UNCHANGED <<mqtt, portVars, mailboxVars, device, crashed>>

-----------------------------------------------------------------------------
(* The work thread *)

\* setLine and setPosition of the base class: an error ends with them
BaseSet(v) == portValue' = v /\ portError' = "ok"
Changes(v) == portValue # v \/ portError # "ok"

\* subscribe: the initial line of a switch is set by this thread
SwitchSubscribe ==
  /\ mqtt.class = "switch" /\ initial # None
  /\ BaseSet(initial)
  /\ IF Changes(initial) THEN Sent(initial) ELSE UNCHANGED commands
  /\ UNCHANGED <<box, boxSet>>

\* the initial value of a Generic port is put into the mailbox
GenericSubscribe ==
  /\ mqtt.class = "generic" /\ initial # None
  /\ box' = initial /\ boxSet' = TRUE
  /\ UNCHANGED <<portValue, portError, commands>>

PlainSubscribe ==
  /\ initial = None
  /\ UNCHANGED <<portValue, portError, commands, box, boxSet>>

\* The broker may refuse a subscription, which nobody hears of (on_failure).
SubscribeCalled ==
  /\ subscription' \in {"made", IF subscription = "made" THEN "made" ELSE "failed"}
  /\ SwitchSubscribe \/ GenericSubscribe \/ PlainSubscribe
  /\ initial' = None

\* The call may fail; the error is logged, and the initial value stays.
SubscribeThrows ==
  /\ subscription' = IF subscription = "made" THEN "made" ELSE "failed"
  /\ UNCHANGED <<initial, portValue, portError, commands, box, boxSet>>

DoSubscribe ==
  /\ Head(queue) = "subscribe"
  /\ SubscribeCalled \/ SubscribeThrows
  /\ queue' = IF mqtt.queries THEN Append(Tail(queue), "query") ELSE Tail(queue)
  /\ UNCHANGED queryDue

DoQuery ==
  /\ Head(queue) = "query"
  /\ queue' = Tail(queue)
  /\ queryDue' = FALSE
  /\ Sent(Query)
  /\ UNCHANGED <<subscription, initial, portValue, portError, box, boxSet>>

DoReconnect ==
  /\ Head(queue) = "reconnect"
  /\ queue' = Tail(queue)
  /\ UNCHANGED <<subscription, initial, portValue, portError, box, boxSet, queryDue, commands>>

\* The queue is served whenever there is a connection, whatever the callbacks
\* have left to do.
WorkThread ==
  /\ ~crashed
  /\ \/ /\ Connect \/ DropClient
        /\ UNCHANGED <<mqtt, portVars, mailboxVars, device, commands, reports, crashed>>
     \/ /\ client = "up" /\ queue # <<>>
        /\ DoSubscribe \/ DoQuery \/ DoReconnect
        /\ UNCHANGED <<mqtt, client, callback, fresh, arriving, device, reports, crashed>>

-----------------------------------------------------------------------------
(* The device *)

\* Nobody hears of a report without a subscription.
Subscribed == subscription = "made" /\ ~crashed
Reported(p) ==
  /\ Subscribed => Len(reports) < ReportCap
  /\ reports' = IF Subscribed THEN Append(reports, p) ELSE reports

\* A command switches the device; it reports its state then and when queried.
DeviceAnswers ==
  /\ commands # <<>>
  /\ commands' = Tail(commands)
  /\ device' = IF Head(commands) = Query THEN device ELSE Head(commands)
  /\ Reported(device')
  /\ UNCHANGED <<mqtt, networkVars, portVars, mailboxVars, crashed>>

\* somebody else switches the device, or it reports something else
DeviceActs ==
  /\ ~crashed
  /\ \E p \in Bits \cup {mqtt.odd} :
       /\ device' = IF p \in Bits THEN p ELSE device
       /\ Reported(p)
  /\ UNCHANGED <<mqtt, networkVars, portVars, mailboxVars, commands, crashed>>

-----------------------------------------------------------------------------
(* handle_payload, called by the client library *)

\* What each class understands; the calls that end early leave the time as it is.
DigitalValue(p) == IF p \in Bits THEN p ELSE None
DialValue(p) == IF p \in Bits \cup {TooBig} THEN p ELSE None
SelectValue(p) == IF p \in Bits THEN p ELSE None
GenericValue(p) == IF p \in Bits THEN p ELSE None
SwitchValue(p) == IF p \in Bits THEN p ELSE None
PowerValue(p) == IF p \in Bits THEN p ELSE None

Understood(p) ==
  CASE mqtt.class = "digital" -> DigitalValue(p)
    [] mqtt.class = "dial" -> DialValue(p)
    [] mqtt.class = "select" -> SelectValue(p)
    [] mqtt.class = "generic" -> GenericValue(p)
    [] mqtt.class = "switch" -> SwitchValue(p)
    [] mqtt.class = "power" -> PowerValue(p)

\* Dial and Select ports note the time of a value, Generic ports of any
\* message, Digital ports of none.
Noted(p) == mqtt.class = "generic" \/ (mqtt.class # "digital" /\ Understood(p) # None)

\* They hold the mutex all the time.
ReceiveLocked(p) ==
  /\ mqtt.class \notin Unlocked
  /\ box' = Understood(p) /\ boxSet' = TRUE
  /\ fresh' = (fresh \/ (mqtt.timeout /\ Noted(p)))
  /\ UNCHANGED arriving

\* The others hold it while the value is stored, and go on without it.
ReceiveUnlocked(p) ==
  /\ mqtt.class \in Unlocked
  /\ box' = Understood(p) /\ boxSet' = TRUE
  /\ arriving' = IF mqtt.class = "switch" THEN <<"flag", "time">> ELSE <<"time">>
  /\ UNCHANGED fresh

\* The input expression of a Dial port does not compile with the value put in:
\* the exception leaves handle_payload, in a thread of the client library.
ReceiveThrows(p) ==
  /\ mqtt.class = "dial" /\ p = Junk
  /\ crashed' \in BOOLEAN
  /\ UNCHANGED mailboxVars

\* at least once: the message may be delivered again
Receive ==
  /\ ~crashed
  /\ arriving = <<>> /\ reports # <<>>
  /\ \/ ReceiveLocked(Head(reports)) /\ UNCHANGED crashed
     \/ ReceiveUnlocked(Head(reports)) /\ UNCHANGED crashed
     \/ ReceiveThrows(Head(reports))
  /\ reports' \in {Tail(reports), reports}
  /\ UNCHANGED <<mqtt, networkVars, portVars, device, commands>>

ReceiveOnce == Receive /\ reports' = Tail(reports)

ReceiveRest ==
  /\ ~crashed
  /\ arriving # <<>>
  /\ arriving' = Tail(arriving)
  /\ boxSet' = (boxSet \/ Head(arriving) = "flag")
  /\ fresh' = (fresh \/ (mqtt.timeout /\ Head(arriving) = "time"))
  /\ UNCHANGED <<mqtt, networkVars, portVars, box, device, commands, reports, crashed>>

-----------------------------------------------------------------------------
(* The main thread *)

QueryNeeded == mqtt.queries /\ queryDue

RequestQuery == queue' = IF QueryNeeded THEN Queued(queue, "query") ELSE queue

\* "error timeout reached without message?"
Expires == portError = "ok" /\ mqtt.timeout /\ ~fresh

\* what is in the mailbox replaces the error state, or causes it
TakeBox(b) ==
  /\ IF boxSet
     THEN IF b \in Bits THEN BaseSet(b) ELSE portError' = "unavailable" /\ UNCHANGED portValue
     ELSE portError' = (IF Expires THEN "expired" ELSE portError) /\ UNCHANGED portValue
  /\ boxSet' = FALSE

\* the mailbox outlives the expiry
KeepBox == TakeBox(box) /\ UNCHANGED box

\* the expiry also clears what is in the mailbox
ClearBox ==
  /\ box' = IF Expires THEN None ELSE box
  /\ TakeBox(box')

\* doWork of the classes
DigitalDoWork == mqtt.class = "digital" /\ KeepBox
DialDoWork == mqtt.class = "dial" /\ KeepBox
SelectDoWork == mqtt.class = "select" /\ KeepBox
GenericDoWork == mqtt.class = "generic" /\ ClearBox
SwitchDoWork == mqtt.class = "switch" /\ ClearBox
PowerDoWork == mqtt.class = "power" /\ ClearBox
ClassDoWork == DigitalDoWork \/ DialDoWork \/ SelectDoWork \/ GenericDoWork \/ SwitchDoWork \/ PowerDoWork

\* mutant of MqttDoWork: the setter of the class is used, which publishes
MqttDoWorkPublishing ==
  /\ ~crashed
  /\ RequestQuery
  /\ ClassDoWork
  /\ IF mqtt.writes /\ portError' = "ok" /\ Changes(portValue') /\ client = "up"
     THEN Sent(portValue') ELSE UNCHANGED commands
  /\ UNCHANGED <<mqtt, client, callback, subscription, initial, fresh, queryDue, arriving, device, reports, crashed>>

MqttDoWork ==
  /\ ~crashed
  /\ RequestQuery
  /\ ClassDoWork
  /\ UNCHANGED <<mqtt, client, callback, subscription, initial, fresh, queryDue, arriving, device, commands,
                 reports, crashed>>

\* Without a connection the library throws: nothing is sent, and the exception
\* is the caller's; without a client the call ends the process.
Publish(v) ==
  \/ client = "up" /\ Sent(v) /\ UNCHANGED crashed
  \/ client \in {"connecting", "lost"} /\ crashed' \in BOOLEAN /\ UNCHANGED commands
  \/ client = "none" /\ crashed' = TRUE /\ UNCHANGED commands

\* With the exception caught, and a look for the client before; the work thread
\* may delete a client without a connection after the look.
PublishCaught(v) ==
  \/ client = "up" /\ Sent(v) /\ UNCHANGED crashed
  \/ client \in {"connecting", "lost"} /\ crashed' \in BOOLEAN /\ UNCHANGED commands
  \/ client = "none" /\ UNCHANGED <<commands, crashed>>

Quiet == UNCHANGED <<commands, crashed>>

\* setLine, setPosition and setValue of the classes
DigitalSetLine(v) == mqtt.class = "digital" /\ IF Changes(v) THEN Publish(v) ELSE Quiet
DialSetPosition(v) == mqtt.class = "dial" /\ IF Changes(v) THEN Publish(v) ELSE Quiet
SelectSetPosition(v) == mqtt.class = "select" /\ IF Changes(v) THEN Publish(v) ELSE Quiet
GenericSetValue(v) == mqtt.class = "generic" /\ PublishCaught(v)
SwitchSetLine(v) == mqtt.class = "switch" /\ IF Changes(v) THEN PublishCaught(v) ELSE Quiet

UserSets ==
  /\ ~crashed /\ mqtt.writes
  /\ \E v \in Bits :
       /\ BaseSet(v)
       /\ DigitalSetLine(v) \/ DialSetPosition(v) \/ SelectSetPosition(v) \/ GenericSetValue(v) \/ SwitchSetLine(v)
  /\ UNCHANGED <<mqtt, networkVars, initial, mailboxVars, queryDue, device, reports>>

-----------------------------------------------------------------------------
(* Time, and the whole *)

QueryTimePasses ==
  /\ ~crashed /\ ~queryDue
  /\ queryDue' = TRUE
  /\ UNCHANGED <<mqtt, networkVars, initial, portValue, portError, mailboxVars, device, commands, reports, crashed>>

TimeoutPasses ==
  /\ ~crashed /\ fresh
  /\ fresh' = FALSE
  /\ UNCHANGED <<mqtt, networkVars, portVars, box, boxSet, arriving, device, commands, reports, crashed>>

\* The process is started again after it has crashed.
MqttRestart ==
  /\ crashed
  /\ client' = "none" /\ callback' = "none" /\ queue' = <<>> /\ subscription' = "none"
  /\ initial' = mqtt.initial
  /\ portValue' = 0 /\ portError' = "ok"
  /\ box' = None /\ boxSet' = (mqtt.class # "generic") /\ fresh' = FALSE /\ arriving' = <<>>
  /\ queryDue' = TRUE
  /\ commands' = <<>> /\ reports' = <<>>
  /\ crashed' = FALSE
  /\ UNCHANGED <<mqtt, device>>

\* what upsets a connected system
Disturb ==
  UserSets \/ TimeoutPasses \/ DeviceActs \/ (Network /\ ConnectionLost) \/ (WorkThread /\ DropClient)

MqttNext ==
  WorkThread \/ Callback \/ Network \/ DeviceAnswers \/ DeviceActs \/ Receive \/ ReceiveRest \/ MqttDoWork
    \/ UserSets \/ QueryTimePasses \/ TimeoutPasses \/ MqttRestart

\* The threads run, the client library delivers, the clock goes on and the
\* device answers; a connection attempt may always fail.
MqttFairness ==
  /\ WF_mqttVars(WorkThread)
  /\ WF_mqttVars(Callback)
  /\ SF_mqttVars(DeviceAnswers)
  /\ SF_mqttVars(ReceiveOnce)
  /\ WF_mqttVars(ReceiveRest)
  /\ WF_mqttVars(MqttDoWork)
  /\ WF_mqttVars(QueryTimePasses)
MqttSpec == MqttInit /\ [][MqttNext]_mqttVars /\ MqttFairness

-----------------------------------------------------------------------------
(* Properties *)

\* Every connection has the subscriptions attempted: as long as that has not
\* been done the request for it is in the queue, or connected is still to put it
\* there.  No notification of an earlier connection that the work thread takes
\* meanwhile, and no query of the main thread, can lose it.
SubscriptionKept ==
  client = "up" /\ subscription = "none" => callback \in {"clear", "request"} \/ Contains(queue, "subscribe")

\* What the threads rely on: the types, a port's box among them, and that.
MqttInv == MqttTypeOK /\ SubscriptionKept

\* When nothing is switched and the connection holds a port that queries comes
\* to show what the device does, in whatever order commands were lost, crossed
\* reports or raced with the timeout.  A subscription that has failed, of which
\* the plugin takes no notice, lasts as long as the connection.
DeviceShown ==
  []<><<Disturb>>_mqttVars
    \/ <>[](mqtt.queries => crashed \/ subscription = "failed" \/ (portError = "ok" /\ portValue = device))

\* doWork uses the "base method to avoid triggering an action": a report is
\* never answered with a command, so that reports and commands that cross
\* each other come to an end.
CommandsEnd == []<><<UserSets>>_mqttVars \/ <>[](\A i \in DOMAIN commands : commands[i] = Query)

\* A device that has been silent for the timeout is noticed: its port does
\* not go on to show the last value.
SilenceNoticed == mqtt.timeout /\ ~fresh ~> (portError # "ok" \/ fresh \/ crashed)
=============================================================================
