---------------------------- MODULE DevicesProofs ----------------------------
(***************************************************************************)
(* For any ports of the plugins that stand for devices.                    *)
(*                                                                         *)
(* MQTT: the variables keep their types, among them the bounds of the      *)
(* queue, and a connection for which no subscription has been attempted    *)
(* has the request for them in the queue, or the callback connected is     *)
(* still to put it there.  MqttInv is inductive: a connection comes up     *)
(* with that callback ahead of it, whatever an earlier one has left in the *)
(* queue; only the callback clears the queue, and before it adds the       *)
(* request; what takes anything else from the queue leaves the request     *)
(* there.  That the request fits in needs that the queue is within its     *)
(* bound between the two steps of the callback (QueueLimit).               *)
(*                                                                         *)
(* FritzBox and Fronius: once no command waits the socket is as the last   *)
(* command has set it, whatever the box answers and whichever reports      *)
(* cross the commands.  OrdersObeyed says nothing while a command waits.   *)
(* Obeying does: the last command of the queue, or the one at work if none *)
(* is queued, is the one that is wanted.  A failure can only make that     *)
(* untrue of the last command, which then is not wanted any more.          *)
(*                                                                         *)
(* Weather: types.  The last theorem is about all of them (MCDevices).     *)
(***************************************************************************)
EXTENDS MCDevices, TLAPS, SequenceTheorems

Notifications == {"subscribe", "query", "reconnect"}

-----------------------------------------------------------------------------
(* MQTT: lemmas about the queue and the messages *)

\* A notification is queued behind the others, if there is room.
LEMMA QueuedType ==
  ASSUME NEW q \in Seq(Notifications), NEW limit \in {QueueCap, QueueCap + 1}, Len(q) <= limit,
         NEW n \in Notifications
  PROVE  /\ Queued(q, n) \in Seq(Notifications)
         /\ Len(Queued(q, n)) <= limit
         /\ Contains(q, "subscribe") => Contains(Queued(q, n), "subscribe")
<1>1. CASE Len(q) < QueueCap
  <2>1. Queued(q, n) = Append(q, n)
        BY <1>1 DEF Queued
  <2>2. /\ Append(q, n) \in Seq(Notifications)
        /\ Len(Append(q, n)) = Len(q) + 1
        /\ \A i \in 1 .. Len(q) : Append(q, n)[i] = q[i]
        BY AppendProperties
  <2> QED BY <1>1, <2>1, <2>2 DEF QueueCap, Contains
<1>2. CASE ~(Len(q) < QueueCap)
      BY <1>2 DEF Queued
<1> QED BY <1>1, <1>2

\* Taking a notification that is not the request leaves the request.
LEMMA TakenType ==
  ASSUME NEW q \in Seq(Notifications), q # <<>>, NEW limit \in {QueueCap, QueueCap + 1}, Len(q) <= limit
  PROVE  /\ Tail(q) \in Seq(Notifications)
         /\ Len(Tail(q)) + 1 <= limit
         /\ Contains(q, "subscribe") /\ Head(q) # "subscribe" => Contains(Tail(q), "subscribe")
<1>1. /\ Tail(q) \in Seq(Notifications)
      /\ Len(Tail(q)) = Len(q) - 1
      /\ \A i \in 1 .. Len(Tail(q)) : Tail(q)[i] = q[i + 1]
      BY HeadTailProperties
<1>2. Head(q) = q[1]
      OBVIOUS
<1>3. ASSUME Contains(q, "subscribe"), Head(q) # "subscribe"
      PROVE  Contains(Tail(q), "subscribe")
  <2>1. PICK i \in 1 .. Len(q) : q[i] = "subscribe"
        BY <1>3 DEF Contains
  <2>2. i # 1
        BY <1>2, <1>3, <2>1
  <2>3. i - 1 \in 1 .. Len(Tail(q)) /\ Tail(q)[i - 1] = q[i]
        BY <1>1, <2>2
  <2> QED BY <2>1, <2>3 DEF Contains
<1> QED BY <1>1, <1>3 DEF QueueCap

Messages == Bits \cup {Query}

\* A command is sent, or lost if too many are under way.
LEMMA SentType ==
  ASSUME commands \in Seq(Messages), Len(commands) <= CommandCap, NEW m \in Messages, Sent(m)
  PROVE  commands' \in Seq(Messages) /\ Len(commands') <= CommandCap
<1>1. Append(commands, m) \in Seq(Messages) /\ Len(Append(commands, m)) = Len(commands) + 1
      BY AppendProperties
<1> QED BY <1>1 DEF Sent, CommandCap

-----------------------------------------------------------------------------
(* MQTT: Init *)

LEMMA InitMqttInv == MqttInit => MqttInv
<1> SUFFICES ASSUME MqttInit PROVE MqttInv
    OBVIOUS
<1> USE DEF MqttInit
<1>1. mqtt \in MqttType /\ initial \in Bits \cup {None}
      BY MqttAssumption DEF MqttType
<1>2. /\ queue \in Seq({"subscribe", "query", "reconnect"}) /\ Len(queue) <= QueueLimit
      /\ arriving \in Seq({"flag", "time"}) /\ Len(arriving) <= 2
      /\ commands \in Seq(Bits \cup {Query}) /\ Len(commands) <= CommandCap
      /\ reports \in Seq(Payloads) /\ Len(reports) <= ReportCap
      BY DEF QueueLimit, QueueCap, CommandCap, ReportCap
<1>3. /\ portValue \in Bits /\ device \in Bits /\ boxSet \in BOOLEAN
      /\ box \in Bits \cup {TooBig, None}
      BY DEF Bits
<1>4. SubscriptionKept
      BY DEF SubscriptionKept
<1> QED BY <1>1, <1>2, <1>3, <1>4 DEF MqttInv, MqttTypeOK

-----------------------------------------------------------------------------
(* MQTT: the connection *)

\* The queue is within its limit while the callback is where it is.
LEMMA LimitType ==
  /\ QueueLimit \in {QueueCap, QueueCap + 1} /\ (callback = "request" => QueueLimit = QueueCap)
  /\ callback' = callback => QueueLimit' = QueueLimit
BY DEF QueueLimit

LEMMA NetworkKeepsMqttInv == MqttInv /\ Network => MqttInv'
<1> SUFFICES ASSUME MqttInv, Network PROVE MqttInv'
    OBVIOUS
<1> USE DEF MqttInv
<1>1. /\ UNCHANGED <<mqtt, portVars, mailboxVars, device, crashed>>
      /\ Established \/ ConnectionLost
      BY DEF Network
<1>2. CASE Established
  <2>1. /\ callback' = "clear" /\ client' = "up" /\ subscription' = "none" /\ callback = "none"
        /\ UNCHANGED <<queue, commands, reports>>
        BY <1>2 DEF Established
  <2>2. Len(queue') <= QueueLimit'
        BY <2>1 DEF MqttTypeOK, QueueLimit
  <2>3. SubscriptionKept'
        BY <2>1 DEF SubscriptionKept
  <2> QED BY <1>1, <2>1, <2>2, <2>3 DEF MqttTypeOK, mailboxVars, portVars
<1>3. CASE ConnectionLost
  <2>1. /\ client' = "lost" /\ subscription' = "none" /\ callback' = callback
        /\ queue' = Queued(queue, "reconnect") \/ queue' = queue
        /\ commands' = commands \/ commands' = <<>>
        /\ reports' = <<>>
        BY <1>3 DEF ConnectionLost
  <2>2. queue' \in Seq({"subscribe", "query", "reconnect"}) /\ Len(queue') <= QueueLimit'
    <3>1. queue \in Seq(Notifications) /\ Len(queue) <= QueueLimit /\ "reconnect" \in Notifications
          BY DEF MqttTypeOK, Notifications
    <3>2. Queued(queue, "reconnect") \in Seq(Notifications) /\ Len(Queued(queue, "reconnect")) <= QueueLimit
          BY <3>1, LimitType, QueuedType
    <3> QED BY <2>1, <3>1, <3>2, LimitType DEF Notifications
  <2>3. /\ commands' \in Seq(Bits \cup {Query}) /\ Len(commands') <= CommandCap
        /\ reports' \in Seq(Payloads) /\ Len(reports') <= ReportCap
    <3>1. /\ <<>> \in Seq(Bits \cup {Query}) /\ <<>> \in Seq(Payloads)
          /\ Len(<<>>) <= CommandCap /\ Len(<<>>) <= ReportCap
          BY EmptySeq DEF CommandCap, ReportCap
    <3> QED BY <2>1, <3>1 DEF MqttTypeOK
  <2>4. SubscriptionKept'
        BY <2>1 DEF SubscriptionKept
  <2> QED BY <1>1, <2>1, <2>2, <2>3, <2>4 DEF MqttTypeOK, mailboxVars, portVars
<1> QED BY <1>1, <1>2, <1>3

LEMMA CallbackKeepsMqttInv == MqttInv /\ Callback => MqttInv'
<1> SUFFICES ASSUME MqttInv, Callback PROVE MqttInv'
    OBVIOUS
<1> USE DEF MqttInv
<1>1. /\ queue' \in Seq({"subscribe", "query", "reconnect"}) /\ Len(queue') <= QueueLimit'
      /\ callback' \in {"none", "request"}
      /\ SubscriptionKept'
  <2>1. CASE ClearQueue
    <3>1. callback' = "request" /\ queue' = <<>>
          BY <2>1 DEF ClearQueue
    <3> QED BY <3>1 DEF SubscriptionKept, QueueLimit, QueueCap
  <2>2. CASE RequestSubscription
    <3>1. callback = "request" /\ callback' = "none" /\ queue' = Append(queue, "subscribe")
          BY <2>2 DEF RequestSubscription
    <3>2. queue \in Seq(Notifications) /\ Len(queue) <= QueueCap /\ "subscribe" \in Notifications
          BY <3>1, LimitType DEF MqttTypeOK, Notifications
    <3>3. /\ queue' \in Seq(Notifications) /\ Len(queue') = Len(queue) + 1
          /\ queue'[Len(queue) + 1] = "subscribe"
          BY <3>1, <3>2, AppendProperties
    <3>4. Contains(queue', "subscribe") /\ Len(queue') <= QueueLimit'
          BY <3>1, <3>2, <3>3 DEF Contains, QueueLimit, QueueCap
    <3> QED BY <3>1, <3>3, <3>4 DEF SubscriptionKept, Notifications
  <2> QED BY <2>1, <2>2 DEF Callback
<1> QED BY <1>1 DEF Callback, MqttTypeOK, mailboxVars, portVars

-----------------------------------------------------------------------------
(* MQTT: the work thread *)

LEMMA WorkKeepsMqttInv == MqttInv /\ WorkThread => MqttInv'
<1> SUFFICES ASSUME MqttInv, WorkThread PROVE MqttInv'
    OBVIOUS
<1> USE DEF MqttInv, MqttTypeOK
<1>q. queue \in Seq(Notifications)
      BY DEF Notifications
<1>1. CASE /\ Connect \/ DropClient
           /\ UNCHANGED <<mqtt, portVars, mailboxVars, device, commands, reports, crashed>>
  <2>1. /\ UNCHANGED <<queue, subscription>>
        /\ client' \in {"none", "connecting"}
        /\ callback' = callback \/ callback' = "none"
        BY <1>1 DEF Connect, DropClient
  <2>2. Len(queue') <= QueueLimit'
        BY <2>1 DEF QueueLimit, QueueCap
  <2>3. SubscriptionKept'
        BY <2>1 DEF SubscriptionKept
  <2> QED BY <1>1, <2>1, <2>2, <2>3 DEF mailboxVars, portVars
<1>2. CASE /\ client = "up" /\ queue # <<>>
           /\ DoSubscribe \/ DoQuery \/ DoReconnect
           /\ UNCHANGED <<mqtt, client, callback, fresh, arriving, device, reports, crashed>>
  <2>t. /\ Tail(queue) \in Seq(Notifications)
        /\ Len(Tail(queue)) + 1 <= QueueLimit
        /\ Contains(queue, "subscribe") /\ Head(queue) # "subscribe" => Contains(Tail(queue), "subscribe")
        BY <1>q, <1>2, LimitType, TakenType
  <2>l. Len(Tail(queue)) \in Nat /\ QueueLimit' = QueueLimit /\ QueueLimit \in Nat
        BY <1>2, <2>t, LimitType DEF QueueCap
  <2>1. CASE DoSubscribe
    <3>1. /\ Append(Tail(queue), "query") \in Seq(Notifications)
          /\ Len(Append(Tail(queue), "query")) = Len(Tail(queue)) + 1
          BY <2>t, AppendProperties DEF Notifications
    <3>2. queue' \in Seq({"subscribe", "query", "reconnect"}) /\ Len(queue') <= QueueLimit'
          BY <2>1, <2>t, <2>l, <3>1 DEF DoSubscribe, Notifications
    <3>3. /\ portValue' \in Bits /\ portError' \in {"ok", "expired", "unavailable"}
          /\ box' \in Bits \cup {TooBig, None} /\ boxSet' \in BOOLEAN /\ initial' \in Bits \cup {None}
          BY <2>1 DEF DoSubscribe, SubscribeCalled, SubscribeThrows, SwitchSubscribe, GenericSubscribe,
                      PlainSubscribe, BaseSet
    <3>4. commands' \in Seq(Messages) /\ Len(commands') <= CommandCap
      <4>0. commands \in Seq(Messages) /\ Len(commands) <= CommandCap
            BY DEF Messages
      <4>1. CASE SwitchSubscribe
        <5>1. initial \in Messages /\ (Sent(initial) \/ commands' = commands)
              BY <4>1 DEF SwitchSubscribe, Messages
        <5> QED BY <4>0, <5>1, SentType
      <4>2. CASE GenericSubscribe \/ PlainSubscribe \/ SubscribeThrows
        <5>1. commands' = commands
              BY <4>2 DEF GenericSubscribe, PlainSubscribe, SubscribeThrows
        <5> QED BY <4>0, <5>1
      <4> QED BY <2>1, <4>1, <4>2 DEF DoSubscribe, SubscribeCalled
    <3>5. subscription' \in {"made", "failed"} /\ queryDue' = queryDue
          BY <2>1 DEF DoSubscribe, SubscribeCalled, SubscribeThrows
    <3> QED BY <1>2, <3>2, <3>3, <3>4, <3>5 DEF SubscriptionKept, Messages
  <2>2. CASE DoQuery
    <3>0. commands \in Seq(Messages) /\ Len(commands) <= CommandCap /\ Query \in Messages
          BY DEF Messages
    <3>1. commands' \in Seq(Messages) /\ Len(commands') <= CommandCap
          BY <2>2, <3>0, SentType DEF DoQuery
    <3>2. queue' = Tail(queue) /\ queue' \in Seq({"subscribe", "query", "reconnect"}) /\ Len(queue') <= QueueLimit'
          BY <2>2, <2>t, <2>l DEF DoQuery, Notifications
    <3>3. SubscriptionKept'
          BY <1>2, <2>2, <2>t, <3>2 DEF DoQuery, SubscriptionKept
    <3> QED BY <1>2, <2>2, <3>1, <3>2, <3>3 DEF DoQuery, Messages
  <2>3. CASE DoReconnect
    <3>1. queue' = Tail(queue) /\ queue' \in Seq({"subscribe", "query", "reconnect"}) /\ Len(queue') <= QueueLimit'
          BY <2>3, <2>t, <2>l DEF DoReconnect, Notifications
    <3>2. SubscriptionKept'
          BY <1>2, <2>3, <2>t, <3>1 DEF DoReconnect, SubscriptionKept
    <3> QED BY <1>2, <2>3, <3>1, <3>2 DEF DoReconnect
  <2> QED BY <1>2, <2>1, <2>2, <2>3
<1> QED BY <1>1, <1>2 DEF WorkThread

-----------------------------------------------------------------------------
(* MQTT: the device *)

\* A report is on its way behind the others, if there is room.
LEMMA ReportedType ==
  ASSUME MqttTypeOK, NEW p \in Payloads, Reported(p)
  PROVE  reports' \in Seq(Payloads) /\ Len(reports') <= ReportCap
<1>1. reports \in Seq(Payloads) /\ Len(reports) <= ReportCap
      BY DEF MqttTypeOK
<1>2. Append(reports, p) \in Seq(Payloads) /\ Len(Append(reports, p)) = Len(reports) + 1
      BY <1>1, AppendProperties
<1> QED BY <1>1, <1>2 DEF Reported, ReportCap

LEMMA DeviceKeepsMqttInv == MqttInv /\ (DeviceAnswers \/ DeviceActs) => MqttInv'
<1> SUFFICES ASSUME MqttInv, DeviceAnswers \/ DeviceActs PROVE MqttInv'
    OBVIOUS
<1>t. MqttTypeOK /\ SubscriptionKept
      BY DEF MqttInv
<1>1. UNCHANGED networkVars => SubscriptionKept'
      BY <1>t DEF SubscriptionKept, networkVars
<1>2. CASE DeviceAnswers
  <2>1. /\ commands \in Seq(Bits \cup {Query}) /\ Len(commands) <= CommandCap /\ commands # <<>>
        /\ commands' = Tail(commands)
        BY <1>t, <1>2 DEF DeviceAnswers, MqttTypeOK
  <2>2. /\ commands' \in Seq(Bits \cup {Query}) /\ Len(commands') = Len(commands) - 1
        /\ Head(commands) \in Bits \cup {Query}
        BY <2>1, HeadTailProperties
  <2>3. Len(commands') <= CommandCap
        BY <2>1, <2>2 DEF CommandCap
  <2>4. device' \in Bits
        BY <1>t, <1>2, <2>2 DEF DeviceAnswers, MqttTypeOK
  <2>5. device' \in Payloads
        BY <2>4 DEF Payloads
  <2>6. reports' \in Seq(Payloads) /\ Len(reports') <= ReportCap
        BY <1>t, <1>2, <2>5, ReportedType DEF DeviceAnswers
  <2> QED BY <1>t, <1>1, <1>2, <2>2, <2>3, <2>4, <2>6
          DEF DeviceAnswers, MqttInv, MqttTypeOK, QueueLimit, mailboxVars, networkVars, portVars
<1>3. CASE DeviceActs
  <2>1. mqtt.odd \in Payloads
        BY <1>t DEF MqttTypeOK, MqttType
  <2>2. PICK p \in Bits \cup {mqtt.odd} :
          /\ device' = IF p \in Bits THEN p ELSE device
          /\ Reported(p)
        BY <1>3 DEF DeviceActs
  <2>3. device' \in Bits /\ p \in Payloads
        BY <1>t, <2>1, <2>2 DEF MqttTypeOK, Payloads
  <2>4. reports' \in Seq(Payloads) /\ Len(reports') <= ReportCap
        BY <1>t, <2>2, <2>3, ReportedType
  <2> QED BY <1>t, <1>1, <1>3, <2>3, <2>4
          DEF DeviceActs, MqttInv, MqttTypeOK, QueueLimit, mailboxVars, networkVars, portVars
<1> QED BY <1>2, <1>3
-----------------------------------------------------------------------------
(* MQTT: handle_payload *)

LEMMA ReceiveKeepsMqttInv == MqttInv /\ (Receive \/ ReceiveRest) => MqttInv'
<1> SUFFICES ASSUME MqttInv, Receive \/ ReceiveRest PROVE MqttInv'
    OBVIOUS
<1>t. MqttTypeOK /\ SubscriptionKept
      BY DEF MqttInv
<1>1. UNCHANGED networkVars => SubscriptionKept'
      BY <1>t DEF SubscriptionKept, networkVars
<1>2. CASE Receive
  <2>1. reports \in Seq(Payloads) /\ Len(reports) <= ReportCap /\ reports # <<>>
        BY <1>t, <1>2 DEF Receive, MqttTypeOK
  <2>2. reports' \in Seq(Payloads) /\ Len(reports') <= ReportCap
    <3>1. Tail(reports) \in Seq(Payloads) /\ Len(Tail(reports)) = Len(reports) - 1
          BY <2>1, HeadTailProperties
    <3>2. reports' = Tail(reports) \/ reports' = reports
          BY <1>2 DEF Receive
    <3> QED BY <2>1, <3>1, <3>2 DEF ReportCap
  <2>3. Understood(Head(reports)) \in Bits \cup {TooBig, None}
    <3>1. mqtt.class \in Classes
          BY <1>t DEF MqttTypeOK, MqttType
    <3> QED BY <3>1 DEF Understood, DigitalValue, DialValue, SelectValue, GenericValue, SwitchValue, PowerValue, Classes
  <2>4. /\ box' \in Bits \cup {TooBig, None} /\ boxSet' \in BOOLEAN /\ fresh' \in BOOLEAN
        /\ arriving' \in Seq({"flag", "time"}) /\ Len(arriving') <= 2
    <3>1. CASE ReceiveLocked(Head(reports))
          BY <1>t, <2>3, <3>1 DEF ReceiveLocked, MqttTypeOK
    <3>2. CASE ReceiveUnlocked(Head(reports))
      <4>1. /\ <<"flag", "time">> \in Seq({"flag", "time"}) /\ Len(<<"flag", "time">>) = 2
            /\ <<"time">> \in Seq({"flag", "time"}) /\ Len(<<"time">>) = 1
            OBVIOUS
      <4>2. arriving' \in {<<"flag", "time">>, <<"time">>}
            BY <3>2 DEF ReceiveUnlocked
      <4>3. arriving' \in Seq({"flag", "time"}) /\ Len(arriving') <= 2
        <5>1. CASE arriving' = <<"flag", "time">>
              BY <4>1, <5>1
        <5>2. CASE arriving' = <<"time">>
              BY <4>1, <5>2
        <5> QED BY <4>2, <5>1, <5>2
      <4>4. /\ box' \in Bits \cup {TooBig, None} /\ boxSet' \in BOOLEAN
            /\ fresh' \in BOOLEAN
            BY <1>t, <2>3, <3>2 DEF ReceiveUnlocked, MqttTypeOK
      <4> QED BY <4>3, <4>4
    <3>3. CASE ReceiveThrows(Head(reports))
          BY <1>t, <3>3 DEF ReceiveThrows, MqttTypeOK, mailboxVars
    <3> QED BY <1>2, <3>1, <3>2, <3>3 DEF Receive
  <2>5. crashed' \in BOOLEAN
        BY <1>t, <1>2 DEF Receive, ReceiveThrows, MqttTypeOK
  <2> QED BY <1>t, <1>1, <1>2, <2>2, <2>4, <2>5
          DEF Receive, MqttInv, MqttTypeOK, QueueLimit, networkVars, portVars
<1>3. CASE ReceiveRest
  <2>1. arriving \in Seq({"flag", "time"}) /\ Len(arriving) <= 2 /\ arriving # <<>> /\ arriving' = Tail(arriving)
        BY <1>t, <1>3 DEF ReceiveRest, MqttTypeOK
  <2>2. arriving' \in Seq({"flag", "time"}) /\ Len(arriving') = Len(arriving) - 1
        BY <2>1, HeadTailProperties
  <2>3. Len(arriving') <= 2 /\ boxSet' \in BOOLEAN /\ fresh' \in BOOLEAN
        BY <1>3, <2>1, <2>2 DEF ReceiveRest
  <2> QED BY <1>t, <1>1, <1>3, <2>2, <2>3
          DEF ReceiveRest, MqttInv, MqttTypeOK, QueueLimit, networkVars, portVars
<1> QED BY <1>2, <1>3

-----------------------------------------------------------------------------
(* MQTT: the main thread *)

LEMMA WorkTypes ==
  ASSUME MqttTypeOK, ClassDoWork
  PROVE  /\ portValue' \in Bits /\ portError' \in {"ok", "expired", "unavailable"}
         /\ box' \in Bits \cup {TooBig, None} /\ boxSet' \in BOOLEAN
<1>1. ASSUME NEW b, TakeBox(b)
      PROVE  /\ portValue' \in Bits /\ portError' \in {"ok", "expired", "unavailable"}
             /\ boxSet' \in BOOLEAN
      BY <1>1 DEF TakeBox, BaseSet, MqttTypeOK
<1>2. CASE KeepBox
      BY <1>1, <1>2 DEF KeepBox, MqttTypeOK
<1>3. CASE ClearBox
      BY <1>1, <1>3 DEF ClearBox, MqttTypeOK
<1> QED BY <1>2, <1>3 DEF ClassDoWork, DigitalDoWork, DialDoWork, SelectDoWork, GenericDoWork, SwitchDoWork, PowerDoWork

LEMMA DoWorkKeepsMqttInv == MqttInv /\ MqttDoWork => MqttInv'
<1> SUFFICES ASSUME MqttInv, MqttDoWork PROVE MqttInv'
    OBVIOUS
<1>t. MqttTypeOK /\ SubscriptionKept
      BY DEF MqttInv
<1>1. /\ queue' \in Seq({"subscribe", "query", "reconnect"}) /\ Len(queue') <= QueueLimit'
      /\ Contains(queue, "subscribe") => Contains(queue', "subscribe")
  <2>1. queue \in Seq(Notifications) /\ Len(queue) <= QueueLimit /\ "query" \in Notifications
        BY <1>t DEF MqttTypeOK, Notifications
  <2>2. /\ Queued(queue, "query") \in Seq(Notifications) /\ Len(Queued(queue, "query")) <= QueueLimit
        /\ Contains(queue, "subscribe") => Contains(Queued(queue, "query"), "subscribe")
        BY <2>1, LimitType, QueuedType
  <2>3. (queue' = Queued(queue, "query") \/ queue' = queue) /\ QueueLimit' = QueueLimit
        BY LimitType DEF MqttDoWork, RequestQuery
  <2> QED BY <2>1, <2>2, <2>3 DEF Notifications
<1>2. /\ portValue' \in Bits /\ portError' \in {"ok", "expired", "unavailable"}
      /\ box' \in Bits \cup {TooBig, None} /\ boxSet' \in BOOLEAN
      BY <1>t, WorkTypes DEF MqttDoWork
<1>3. SubscriptionKept'
      BY <1>t, <1>1 DEF MqttDoWork, SubscriptionKept
<1> QED BY <1>t, <1>1, <1>2, <1>3 DEF MqttDoWork, MqttInv, MqttTypeOK

LEMMA SetsKeepMqttInv == MqttInv /\ UserSets => MqttInv'
<1> SUFFICES ASSUME MqttInv, UserSets PROVE MqttInv'
    OBVIOUS
<1>t. MqttTypeOK /\ SubscriptionKept
      BY DEF MqttInv
<1>1. PICK v \in Bits :
        /\ BaseSet(v)
        /\ DigitalSetLine(v) \/ DialSetPosition(v) \/ SelectSetPosition(v) \/ GenericSetValue(v) \/ SwitchSetLine(v)
      BY DEF UserSets
<1>2. /\ Sent(v) \/ commands' = commands
      /\ crashed' \in BOOLEAN
      BY <1>t, <1>1 DEF DigitalSetLine, DialSetPosition, SelectSetPosition, GenericSetValue, SwitchSetLine,
                        Publish, PublishCaught, Quiet, MqttTypeOK
<1>3. commands' \in Seq(Messages) /\ Len(commands') <= CommandCap
  <2>1. commands \in Seq(Messages) /\ Len(commands) <= CommandCap /\ v \in Messages
        BY <1>t DEF MqttTypeOK, Messages
  <2> QED BY <1>2, <2>1, SentType
<1>4. portValue' \in Bits /\ portError' = "ok"
      BY <1>1 DEF BaseSet
<1>5. SubscriptionKept'
      BY <1>t DEF UserSets, SubscriptionKept, networkVars
<1> QED BY <1>t, <1>2, <1>3, <1>4, <1>5 
        DEF UserSets, MqttInv, MqttTypeOK, QueueLimit, Messages, networkVars, mailboxVars

-----------------------------------------------------------------------------
(* MQTT: time, restarts, and the whole *)

LEMMA TimeKeepsMqttInv == MqttInv /\ (QueryTimePasses \/ TimeoutPasses) => MqttInv'
<1> SUFFICES ASSUME MqttInv, QueryTimePasses \/ TimeoutPasses PROVE MqttInv'
    OBVIOUS
<1>1. SubscriptionKept'
      BY DEF MqttInv, QueryTimePasses, TimeoutPasses, SubscriptionKept, networkVars
<1> QED BY <1>1 DEF MqttInv, MqttTypeOK, QueueLimit, QueryTimePasses, TimeoutPasses, networkVars, mailboxVars, portVars

LEMMA RestartKeepsMqttInv == MqttInv /\ MqttRestart => MqttInv'
<1> SUFFICES ASSUME MqttInv, MqttRestart PROVE MqttInv'
    OBVIOUS
<1> USE DEF MqttInv, MqttRestart
<1>1. initial' \in Bits \cup {None}
      BY DEF MqttTypeOK, MqttType
<1>2. /\ queue' \in Seq({"subscribe", "query", "reconnect"}) /\ Len(queue') <= QueueLimit'
      /\ arriving' \in Seq({"flag", "time"}) /\ Len(arriving') <= 2
      /\ commands' \in Seq(Bits \cup {Query}) /\ Len(commands') <= CommandCap
      /\ reports' \in Seq(Payloads) /\ Len(reports') <= ReportCap
      BY DEF QueueLimit, QueueCap, CommandCap, ReportCap
<1>3. portValue' \in Bits /\ boxSet' \in BOOLEAN
      BY DEF Bits
<1>4. SubscriptionKept'
      BY DEF SubscriptionKept
<1> QED BY <1>1, <1>2, <1>3, <1>4 DEF MqttTypeOK

LEMMA StepMqttInv == MqttInv /\ [MqttNext]_mqttVars => MqttInv'
<1> SUFFICES ASSUME MqttInv, [MqttNext]_mqttVars PROVE MqttInv'
    OBVIOUS
<1>1. CASE UNCHANGED mqttVars
      BY <1>1 DEF MqttInv, MqttTypeOK, QueueLimit, SubscriptionKept, mqttVars
<1>2. CASE MqttNext
      BY <1>2, WorkKeepsMqttInv, CallbackKeepsMqttInv, NetworkKeepsMqttInv, DeviceKeepsMqttInv,
         ReceiveKeepsMqttInv, DoWorkKeepsMqttInv, SetsKeepMqttInv, TimeKeepsMqttInv, RestartKeepsMqttInv DEF MqttNext
<1> QED BY <1>1, <1>2

\* For any port: the variables keep their types, and a connection for which no
\* subscription has been attempted has the request for them in the queue, or a
\* callback that is going to put it there (connected, connection_lost, run).
THEOREM MqttTheorem == MqttSpec => []MqttInv
<1>1. MqttInit => MqttInv
      BY InitMqttInv
<1>2. MqttInv /\ [MqttNext]_mqttVars => MqttInv'
      BY StepMqttInv
<1> QED BY <1>1, <1>2, PTL DEF MqttSpec

-----------------------------------------------------------------------------
(* Polled ports: the invariant *)

PolledKinds == FritzKinds \cup FroniusKinds
Line(j) == IF j.act = "high" THEN 1 ELSE 0

\* Only the switch is commanded, and answers are readings of the port.
QueuedJobs(ports) ==
  {j \in [act : {"get", "high", "low"}, port : ports, stage : {"check"}, answer : {Unknown}] :
     IsCommand(j) => j.port = "switch"}
TakenJobs(ports) ==
  {j \in [act : {"get", "high", "low"}, port : ports, stage : {"check", "login", "ask", "store"},
          answer : {Unknown, 0, 1, Beyond}] :
     /\ IsCommand(j) => j.port = "switch"
     /\ j.stage = "store" => j.answer \in Readings(j.port) \cup {Unknown}}

PolledTypes ==
  /\ polled \subseteq PolledKinds
  /\ jobs \in Seq(QueuedJobs(polled))
  /\ job \in TakenJobs(polled) \cup {Idle}
  /\ sid \in BOOLEAN /\ session \in BOOLEAN
  /\ shown \in [polled -> {0, 1}]
  /\ failing \in [polled -> BOOLEAN] /\ readingSet \in [polled -> BOOLEAN]
  /\ reality \in [polled -> {0, 1, Beyond}]
  /\ reading \in [polled -> {Unknown, 0, 1, Beyond}]
  /\ \A p \in polled : reality[p] \in Readings(p) /\ reading[p] \in Readings(p) \cup {Unknown}
  /\ wanted \in {0, 1, NoLine}

\* the last command in the queue, if there is one, is for v
LastIs(q, v) ==
  \A i \in 1 .. Len(q) :
    IsCommand(q[i]) /\ (\A k \in 1 .. Len(q) : k > i => ~IsCommand(q[k])) => Line(q[i]) = v
Has(q) == \E i \in 1 .. Len(q) : IsCommand(q[i])
AtWork(j) == IsCommand(j) /\ j.stage # "store"

Obeying ==
  wanted # NoLine =>
    /\ "switch" \in polled
    /\ LastIs(jobs, wanted)
    /\ ~Has(jobs) /\ AtWork(job) => Line(job) = wanted
    /\ ~Has(jobs) /\ ~AtWork(job) => reality["switch"] = wanted

PolledIInv == PolledTypes /\ Obeying

-----------------------------------------------------------------------------
(* Polled ports: lemmas about the queue *)

\* A request at the end of the queue leaves the last command the last.
LEMMA RequestAppended ==
  ASSUME NEW ports, NEW q \in Seq(QueuedJobs(ports)), NEW j \in QueuedJobs(ports), ~IsCommand(j), NEW v
  PROVE  /\ q \o <<j>> \in Seq(QueuedJobs(ports))
         /\ Has(q \o <<j>>) <=> Has(q)
         /\ LastIs(q, v) => LastIs(q \o <<j>>, v)
<1>1. <<j>> \in Seq(QueuedJobs(ports)) /\ Len(<<j>>) = 1 /\ <<j>>[1] = j
      OBVIOUS
<1>2. /\ q \o <<j>> \in Seq(QueuedJobs(ports))
      /\ Len(q \o <<j>>) = Len(q) + 1
      /\ \A i \in 1 .. Len(q) + 1 : (q \o <<j>>)[i] = IF i <= Len(q) THEN q[i] ELSE <<j>>[i - Len(q)]
      BY <1>1, ConcatProperties
<1> DEFINE r == q \o <<j>>
<1>3. /\ \A i \in 1 .. Len(q) : r[i] = q[i]
      /\ r[Len(q) + 1] = j /\ Len(q) \in Nat /\ Len(r) = Len(q) + 1
      BY <1>1, <1>2
<1>4. Has(r) <=> Has(q)
      BY <1>3 DEF Has
<1>5. ASSUME LastIs(q, v) PROVE LastIs(r, v)
  <2> SUFFICES ASSUME NEW i \in 1 .. Len(r), IsCommand(r[i]),
                      \A k \in 1 .. Len(r) : k > i => ~IsCommand(r[k])
               PROVE  Line(r[i]) = v
      BY DEF LastIs
  <2>1. i \in 1 .. Len(q) /\ r[i] = q[i]
        BY <1>3
  <2>2. \A k \in 1 .. Len(q) : k > i => ~IsCommand(q[k])
        BY <1>3
  <2> QED BY <1>5, <2>1, <2>2 DEF LastIs
<1> QED BY <1>2, <1>4, <1>5

\* A command at the end of the queue is the last.
LEMMA CommandAppended ==
  ASSUME NEW ports, NEW q \in Seq(QueuedJobs(ports)), NEW j \in QueuedJobs(ports), IsCommand(j)
  PROVE  /\ Append(q, j) \in Seq(QueuedJobs(ports))
         /\ Has(Append(q, j))
         /\ LastIs(Append(q, j), Line(j))
<1> DEFINE r == Append(q, j)
<1>1. /\ r \in Seq(QueuedJobs(ports))
      /\ Len(r) = Len(q) + 1 /\ Len(q) \in Nat
      /\ r[Len(q) + 1] = j
      BY AppendProperties
<1>2. Has(r)
      BY <1>1 DEF Has
<1>3. ASSUME NEW i \in 1 .. Len(r), \A k \in 1 .. Len(r) : k > i => ~IsCommand(r[k])
      PROVE  Line(r[i]) = Line(j)
  <2>1. i = Len(q) + 1
        BY <1>1, <1>3
  <2> QED BY <1>1, <2>1
<1> QED BY <1>1, <1>2, <1>3 DEF LastIs

\* Taking the first of the queue leaves the last, unless that was the first.
LEMMA FirstTaken ==
  ASSUME NEW ports, NEW q \in Seq(QueuedJobs(ports)), q # <<>>, NEW v, LastIs(q, v)
  PROVE  /\ Tail(q) \in Seq(QueuedJobs(ports)) /\ Head(q) \in QueuedJobs(ports)
         /\ LastIs(Tail(q), v)
         /\ IsCommand(Head(q)) /\ ~Has(Tail(q)) => Line(Head(q)) = v
         /\ Has(q) <=> IsCommand(Head(q)) \/ Has(Tail(q))
<1> DEFINE t == Tail(q)
<1>1. /\ t \in Seq(QueuedJobs(ports)) /\ Head(q) \in QueuedJobs(ports)
      /\ Len(t) = Len(q) - 1 /\ Len(t) \in Nat
      /\ \A i \in 1 .. Len(t) : t[i] = q[i + 1]
      BY HeadTailProperties
<1>2. Head(q) = q[1] /\ 1 \in 1 .. Len(q)
      BY <1>1
<1>3. \A k \in 1 .. Len(q) : k > 1 => k - 1 \in 1 .. Len(t) /\ t[k - 1] = q[k]
      BY <1>1
<1>4. LastIs(t, v)
  <2> SUFFICES ASSUME NEW i \in 1 .. Len(t), IsCommand(t[i]),
                      \A k \in 1 .. Len(t) : k > i => ~IsCommand(t[k])
               PROVE  Line(t[i]) = v
      BY DEF LastIs
  <2>1. i + 1 \in 1 .. Len(q) /\ q[i + 1] = t[i]
        BY <1>1
  <2>2. ASSUME NEW k \in 1 .. Len(q), k > i + 1 PROVE ~IsCommand(q[k])
        BY <1>3, <2>2
  <2> QED BY <2>1, <2>2 DEF LastIs
<1>5. ASSUME IsCommand(Head(q)), ~Has(t) PROVE Line(Head(q)) = v
  <2>1. \A k \in 1 .. Len(q) : k > 1 => ~IsCommand(q[k])
        BY <1>3, <1>5 DEF Has
  <2> QED BY <1>2, <1>5, <2>1 DEF LastIs
<1>6. Has(q) <=> IsCommand(Head(q)) \/ Has(t)
  <2>1. ASSUME Has(q) PROVE IsCommand(Head(q)) \/ Has(t)
    <3>1. PICK k \in 1 .. Len(q) : IsCommand(q[k])
          BY <2>1 DEF Has
    <3>2. k = 1 \/ k > 1
          OBVIOUS
    <3> QED BY <1>2, <1>3, <3>1, <3>2 DEF Has
  <2>2. ASSUME Has(t) PROVE Has(q)
        BY <1>1, <2>2 DEF Has
  <2> QED BY <1>2, <2>1, <2>2 DEF Has
<1> QED BY <1>1, <1>4, <1>5, <1>6
-----------------------------------------------------------------------------
(* Polled ports: Init, and what follows from the invariant *)

LEMMA InitPolledIInv == PolledInit => PolledIInv
<1> SUFFICES ASSUME PolledInit PROVE PolledIInv
    OBVIOUS
<1> USE DEF PolledInit
<1>1. polled \subseteq PolledKinds
      BY PolledAssumption DEF PolledKinds
<1>2. /\ jobs \in Seq(QueuedJobs(polled)) /\ job \in TakenJobs(polled) \cup {Idle}
      /\ sid \in BOOLEAN /\ session \in BOOLEAN /\ wanted \in {0, 1, NoLine}
      BY EmptySeq
<1>3. /\ shown \in [polled -> {0, 1}] /\ reality \in [polled -> {0, 1, Beyond}]
      /\ reading \in [polled -> {Unknown, 0, 1, Beyond}]
      /\ failing \in [polled -> BOOLEAN]
      OBVIOUS
<1>4. readingSet \in [polled -> BOOLEAN]
      OBVIOUS
<1>5. \A p \in polled : reality[p] \in Readings(p) /\ reading[p] \in Readings(p) \cup {Unknown}
      BY DEF Readings
<1> QED BY <1>1, <1>2, <1>3, <1>4, <1>5 DEF PolledIInv, PolledTypes, Obeying

\* A command waits if the queue has one or one is at work.
LEMMA Waits == PolledTypes => (CommandQueued <=> Has(jobs)) /\ (CommandWaits <=> Has(jobs) \/ AtWork(job))
<1> SUFFICES ASSUME PolledTypes PROVE (CommandQueued <=> Has(jobs)) /\ (CommandWaits <=> Has(jobs) \/ AtWork(job))
    OBVIOUS
<1>1. DOMAIN jobs = 1 .. Len(jobs)
      BY DEF PolledTypes
<1> QED BY <1>1 DEF CommandQueued, CommandWaits, Has, AtWork

LEMMA PolledIInvImplies == PolledIInv => PolledInv
<1> SUFFICES ASSUME PolledIInv PROVE PolledInv
    OBVIOUS
<1>1. OrdersObeyed
      BY Waits DEF PolledIInv, Obeying, OrdersObeyed
<1>2. \A i \in DOMAIN jobs : jobs[i].port \in polled /\ jobs[i].act \in {"get", "high", "low"}
  <2>1. \A i \in DOMAIN jobs : jobs[i] \in QueuedJobs(polled)
        BY DEF PolledIInv, PolledTypes
  <2> QED BY <2>1 DEF QueuedJobs
<1>3. job.stage \in {"check", "login", "ask", "store"}
      BY DEF PolledIInv, PolledTypes, TakenJobs, Idle, Job
<1> QED BY <1>1, <1>2, <1>3 DEF PolledIInv, PolledTypes, PolledInv, PolledTypeOK, PolledKinds

-----------------------------------------------------------------------------
(* Polled ports: the main thread *)

LEMMA WorkKeepsPolledIInv == ASSUME PolledIInv, NEW p, NEW due \in BOOLEAN, PortWork(p, due) PROVE PolledIInv'
<1> USE DEF PolledIInv
<1>1. p \in polled /\ ShowReading(p) /\ jobs' = jobs \o Requests(p, due)
      /\ UNCHANGED <<polled, job, sid, session, reading, reality, wanted>>
      BY DEF PortWork
<1>2. /\ jobs' \in Seq(QueuedJobs(polled))
      /\ Has(jobs') <=> Has(jobs)
      /\ LastIs(jobs, wanted) => LastIs(jobs', wanted)
  <2>1. CASE due
    <3>1. Requests(p, due) = <<Job("get", p)>> /\ Job("get", p) \in QueuedJobs(polled) /\ ~IsCommand(Job("get", p))
          BY <1>1, <2>1 DEF Requests, Job, QueuedJobs, IsCommand
    <3> QED BY <1>1, <3>1, RequestAppended DEF PolledTypes
  <2>2. CASE ~due
    <3>1. jobs' = jobs
          BY <1>1, <2>2, ConcatEmptySeq DEF Requests, PolledTypes
    <3> QED BY <3>1 DEF PolledTypes
  <2> QED BY <2>1, <2>2
<1>3. /\ shown' \in [polled -> {0, 1}]
      /\ failing' \in [polled -> BOOLEAN] /\ readingSet' \in [polled -> BOOLEAN]
  <2>1. reading[p] \in {Unknown, 0, 1, Beyond}
        BY <1>1 DEF PolledTypes
  <2> QED BY <1>1, <2>1 DEF PolledTypes, ShowReading
<1>4. PolledTypes'
      BY <1>1, <1>2, <1>3 DEF PolledTypes
<1>5. Obeying'
      BY <1>1, <1>2 DEF Obeying
<1> QED BY <1>4, <1>5

LEMMA SwitchKeepsPolledIInv == ASSUME PolledIInv, NEW v \in {0, 1}, Switch(v) PROVE PolledIInv'
<1> USE DEF PolledIInv
<1> DEFINE j == Job(IF v = 1 THEN "high" ELSE "low", "switch")
<1>1. /\ "switch" \in polled /\ wanted' = v /\ jobs' = Append(jobs, j)
      /\ shown' = [shown EXCEPT !["switch"] = v] /\ failing' = [failing EXCEPT !["switch"] = FALSE]
      /\ UNCHANGED <<polled, job, sid, session, reading, readingSet, reality>>
      BY DEF Switch
<1>2. j \in QueuedJobs(polled) /\ IsCommand(j) /\ Line(j) = v
      BY <1>1 DEF Job, QueuedJobs, IsCommand, Line
<1>3. jobs' \in Seq(QueuedJobs(polled)) /\ Has(jobs') /\ LastIs(jobs', v)
      BY <1>1, <1>2, CommandAppended DEF PolledTypes
<1>4. PolledTypes'
      BY <1>1, <1>3 DEF PolledTypes
<1>5. Obeying'
      BY <1>1, <1>3 DEF Obeying
<1> QED BY <1>4, <1>5

-----------------------------------------------------------------------------
(* Polled ports: the worker *)

LEMMA TakeKeepsPolledIInv == PolledIInv /\ TakeJob => PolledIInv'
<1> SUFFICES ASSUME PolledIInv, TakeJob PROVE PolledIInv'
    OBVIOUS
<1> USE DEF PolledIInv
<1>1. /\ job = Idle /\ jobs # <<>> /\ jobs' = Tail(jobs)
      /\ job' = [Head(jobs) EXCEPT !.stage = IF Head(jobs).port \in FroniusKinds THEN "ask" ELSE "check"]
      /\ UNCHANGED <<polled, sid, session, shown, failing, reading, readingSet, reality, wanted>>
      BY DEF TakeJob
<1>2. Tail(jobs) \in Seq(QueuedJobs(polled)) /\ Head(jobs) \in QueuedJobs(polled)
      BY <1>1, HeadTailProperties DEF PolledTypes
<1>3. /\ job' \in TakenJobs(polled)
      /\ IsCommand(job') <=> IsCommand(Head(jobs))
      /\ Line(job') = Line(Head(jobs)) /\ job'.stage # "store"
      BY <1>1, <1>2 DEF QueuedJobs, TakenJobs, IsCommand, Line
<1>4. PolledTypes'
      BY <1>1, <1>2, <1>3 DEF PolledTypes
<1>5. ~AtWork(job)
      BY <1>1 DEF AtWork, IsCommand, Idle, Job
<1>6. ASSUME wanted # NoLine PROVE /\ LastIs(jobs', wanted)
                                   /\ ~Has(jobs') /\ AtWork(job') => Line(job') = wanted
                                   /\ ~Has(jobs') /\ ~AtWork(job') => reality["switch"] = wanted
  <2>1. /\ LastIs(Tail(jobs), wanted)
        /\ IsCommand(Head(jobs)) /\ ~Has(Tail(jobs)) => Line(Head(jobs)) = wanted
        /\ Has(jobs) <=> IsCommand(Head(jobs)) \/ Has(Tail(jobs))
        BY <1>1, <1>6, FirstTaken DEF PolledTypes, Obeying
  <2>2. AtWork(job') <=> IsCommand(Head(jobs))
        BY <1>3 DEF AtWork
  <2> QED BY <1>1, <1>3, <1>5, <1>6, <2>1, <2>2 DEF Obeying
<1>7. Obeying'
      BY <1>1, <1>6 DEF Obeying
<1> QED BY <1>4, <1>7

\* A job that ends without success: its command, if it is the last, is not
\* wanted any more.
LEMMA EndKeepsPolledIInv ==
  ASSUME PolledIInv, job # Idle, Overruled, job' = Idle,
         failing' = failing \/ failing' = [failing EXCEPT ![job.port] = TRUE],
         sid' \in BOOLEAN, session' \in BOOLEAN,
         UNCHANGED <<polled, jobs, shown, reading, readingSet>>,
         \/ reality' = reality
         \/ IsCommand(job) /\ \E v \in {0, 1} : reality' = [reality EXCEPT !["switch"] = v],
         IsCommand(job) => job.stage # "store"
  PROVE  PolledIInv'
<1> USE DEF PolledIInv
<1>1. job \in TakenJobs(polled) /\ job.port \in polled /\ (IsCommand(job) => job.port = "switch")
      BY DEF PolledTypes, TakenJobs
<1>2. failing' \in [polled -> BOOLEAN] /\ wanted' \in {0, 1, NoLine}
      BY <1>1 DEF PolledTypes, Overruled
<1>3. /\ reality' \in [polled -> {0, 1, Beyond}]
      /\ \A p \in polled : reality'[p] \in Readings(p)
      BY <1>1 DEF PolledTypes, Readings
<1>4. PolledTypes'
      BY <1>2, <1>3 DEF PolledTypes
<1>5. ASSUME wanted' # NoLine PROVE Obeying'
  <2>1. wanted' = wanted /\ (IsCommand(job) => Has(jobs))
        BY <1>5, Waits DEF Overruled
  <2>2. ~AtWork(job')
        BY DEF AtWork, IsCommand, Idle, Job
  <2>3. ~Has(jobs) => ~IsCommand(job) /\ reality' = reality
        BY <2>1
  <2> QED BY <1>5, <2>1, <2>2, <2>3 DEF Obeying, AtWork
<1>6. Obeying'
      BY <1>5 DEF Obeying
<1> QED BY <1>4, <1>6

\* A job that goes on to a request.
LEMMA ProceedKeepsPolledIInv ==
  ASSUME PolledIInv, job # Idle, job.stage # "store", NEW stage \in {"login", "ask"}, Proceed(stage),
         sid' \in BOOLEAN, session' \in BOOLEAN,
         UNCHANGED <<polled, jobs, shown, reading, readingSet, reality>>
  PROVE  PolledIInv'
<1> USE DEF PolledIInv
<1>1. /\ job \in TakenJobs(polled) /\ job' = [job EXCEPT !.stage = stage]
      /\ failing' = failing /\ wanted' = wanted
      BY DEF PolledTypes, Proceed
<1>2. job' \in TakenJobs(polled) /\ Line(job') = Line(job) /\ (AtWork(job') <=> AtWork(job))
      BY <1>1 DEF TakenJobs, IsCommand, Line, AtWork
<1>3. PolledTypes'
      BY <1>1, <1>2 DEF PolledTypes
<1>4. Obeying'
      BY <1>1, <1>2 DEF Obeying
<1> QED BY <1>3, <1>4

LEMMA LoginKeepsPolledIInv == ASSUME PolledIInv, NEW b, CheckLogin(b) \/ Login(b) PROVE PolledIInv'
<1>1. CASE CheckLogin(b)
  <2>1. /\ job # Idle /\ job.stage = "check" /\ session' \in BOOLEAN
        /\ UNCHANGED <<polled, jobs, shown, reading, readingSet, reality>>
        BY <1>1 DEF CheckLogin, PolledIInv, PolledTypes
  <2>2. CASE sid' = FALSE /\ GiveUp
        BY <2>1, <2>2, EndKeepsPolledIInv DEF GiveUp
  <2>3. CASE sid' = sid /\ Abandon
    <3>1. sid' \in BOOLEAN
          BY <2>3 DEF PolledIInv, PolledTypes
    <3> QED BY <2>1, <2>3, <3>1, EndKeepsPolledIInv DEF Abandon
  <2>4. CASE sid' = (sid /\ session) /\ Proceed(IF sid' THEN "ask" ELSE "login")
    <3>1. sid' \in BOOLEAN
          BY <2>4 DEF PolledIInv, PolledTypes
    <3> DEFINE stage == IF sid' THEN "ask" ELSE "login"
    <3>2. stage \in {"login", "ask"} /\ Proceed(stage)
          BY <2>4
    <3> HIDE DEF stage
    <3> QED BY <2>1, <3>1, <3>2, ProceedKeepsPolledIInv
  <2> QED BY <1>1, <2>2, <2>3, <2>4 DEF CheckLogin
<1>2. CASE Login(b)
  <2>1. /\ job # Idle /\ job.stage = "login" /\ sid' \in BOOLEAN /\ session' \in BOOLEAN
        /\ UNCHANGED <<polled, jobs, shown, reading, readingSet, reality>>
        BY <1>2 DEF Login, PolledIInv, PolledTypes
  <2>2. CASE GiveUp
        BY <2>1, <2>2, EndKeepsPolledIInv DEF GiveUp
  <2>3. CASE Abandon
        BY <2>1, <2>3, EndKeepsPolledIInv DEF Abandon
  <2>4. CASE Proceed("ask")
        BY <2>1, <2>4, ProceedKeepsPolledIInv
  <2> QED BY <1>2, <2>2, <2>3, <2>4 DEF Login
<1> QED BY <1>1, <1>2

\* The answer to a request for a value.
LEMMA GetKeepsPolledIInv ==
  ASSUME PolledIInv, NEW answer, Get(answer), job \in TakenJobs(polled),
         answer \in Readings(job.port) \cup {Unknown, Failed}
  PROVE  PolledIInv'
<1>1. /\ job # Idle /\ ~IsCommand(job) /\ Answered(answer)
      /\ UNCHANGED <<polled, jobs, sid, session, shown, reading, readingSet, reality>>
      BY DEF Get, Idle, Job, IsCommand
<1>2. CASE answer = Failed
  <2>1. sid' \in BOOLEAN /\ session' \in BOOLEAN
        BY <1>1 DEF PolledIInv, PolledTypes
  <2> QED BY <1>1, <1>2, <2>1, EndKeepsPolledIInv DEF Answered, GiveUp
<1>3. CASE answer # Failed
  <2>1. /\ job' = [job EXCEPT !.stage = "store", !.answer = answer] /\ failing' = failing /\ wanted' = wanted
        BY <1>1, <1>3 DEF Answered, Overruled
  <2>2. job' \in TakenJobs(polled) /\ ~AtWork(job') /\ ~AtWork(job)
        BY <1>1, <1>3, <2>1 DEF TakenJobs, Readings, IsCommand, AtWork
  <2>3. PolledTypes'
        BY <1>1, <2>1, <2>2 DEF PolledIInv, PolledTypes
  <2>4. Obeying'
        BY <1>1, <2>1, <2>2 DEF PolledIInv, Obeying
  <2> QED BY <2>3, <2>4 DEF PolledIInv
<1> QED BY <1>2, <1>3

LEMMA GetsKeepPolledIInv ==
  ASSUME PolledIInv, NEW b,
         \/ GetSwitchState(b) \/ GetSwitchPower(b) \/ GetSwitchEnergy(b) \/ GetTemperature(b)
         \/ GetCurrentPower(b) \/ GetDayEnergy(b)
  PROVE  PolledIInv'
<1>1. PICK answer : Get(answer) /\ (answer = reality[job.port] \/ answer \in {Unknown, Failed})
      BY DEF GetSwitchState, GetSwitchPower, GetSwitchEnergy, GetTemperature, GetCurrentPower, GetDayEnergy,
             FritzAnswer, FroniusAnswer
<1>2. job.act = "get"
      BY <1>1 DEF Get
<1>3. job \in TakenJobs(polled) /\ job.port \in polled
      BY <1>2 DEF PolledIInv, PolledTypes, TakenJobs, Idle, Job
<1>4. answer \in Readings(job.port) \cup {Unknown, Failed}
      BY <1>1, <1>3 DEF PolledIInv, PolledTypes
<1> QED BY <1>1, <1>3, <1>4, GetKeepsPolledIInv

LEMMA CommandKeepsPolledIInv == ASSUME PolledIInv, NEW b, SetSwitchState(b) PROVE PolledIInv'
<1> DEFINE v == Line(job)
<1> DEFINE answer == FritzAnswer(b, v)
<1>1. /\ IsCommand(job) /\ job.stage = "ask" /\ Answered(answer)
      /\ \/ answer = v /\ reality' = [reality EXCEPT !["switch"] = v]
         \/ answer # v /\ reality' = reality
         \/ b \in {"silent", "garbles"} /\ answer # v /\ reality' = [reality EXCEPT !["switch"] = v]
      /\ UNCHANGED <<polled, jobs, sid, session, shown, reading, readingSet>>
      BY DEF SetSwitchState, Line, FritzAnswer, Unknown, Failed
<1>2. job # Idle /\ job \in TakenJobs(polled) /\ job.port = "switch" /\ "switch" \in polled
      BY <1>1 DEF PolledIInv, PolledTypes, TakenJobs, Idle, Job, IsCommand
<1>3. v \in {0, 1} /\ answer \in {v, Unknown, Failed}
      BY DEF Line, FritzAnswer
<1> HIDE DEF v, answer
<1>4. CASE answer = Failed
  <2>1. \/ reality' = reality
        \/ IsCommand(job) /\ \E w \in {0, 1} : reality' = [reality EXCEPT !["switch"] = w]
        BY <1>1, <1>3
  <2>2. sid' \in BOOLEAN /\ session' \in BOOLEAN
        BY <1>1 DEF PolledIInv, PolledTypes
  <2>3. /\ Overruled /\ job' = Idle /\ job.stage # "store"
        /\ failing' = [failing EXCEPT ![job.port] = TRUE]
        BY <1>1, <1>4 DEF Answered, GiveUp
  <2> QED BY <1>1, <1>2, <2>1, <2>2, <2>3, EndKeepsPolledIInv
<1>5. CASE answer # Failed
  <2>1. /\ job' = [job EXCEPT !.stage = "store", !.answer = answer] /\ failing' = failing
        /\ IF answer = Unknown THEN Overruled ELSE wanted' = wanted
        BY <1>1, <1>5 DEF Answered
  <2>2. job' \in TakenJobs(polled) /\ ~AtWork(job') /\ AtWork(job)
        BY <1>1, <1>2, <1>3, <1>5, <2>1 DEF TakenJobs, Readings, IsCommand, AtWork
  <2>3. /\ reality' \in [polled -> {0, 1, Beyond}]
        /\ \A p \in polled : reality'[p] \in Readings(p)
        /\ wanted' \in {0, 1, NoLine}
        BY <1>1, <1>2, <1>3, <2>1 DEF PolledIInv, PolledTypes, Readings, Overruled
  <2>4. PolledTypes'
        BY <1>1, <2>1, <2>2, <2>3 DEF PolledIInv, PolledTypes
  <2>5. ASSUME wanted' # NoLine PROVE Obeying'
    <3>1. wanted' = wanted /\ (answer = Unknown => Has(jobs))
          BY <1>1, <2>1, <2>5, Waits DEF PolledIInv, Overruled
    <3>2. ASSUME ~Has(jobs) PROVE reality'["switch"] = wanted
      <4>1. v = wanted
            BY <2>2, <2>5, <3>1, <3>2 DEF PolledIInv, Obeying, v
      <4>2. answer = v
            BY <1>3, <1>5, <3>1, <3>2
      <4>3. reality' = [reality EXCEPT !["switch"] = v] /\ reality \in [polled -> {0, 1, Beyond}]
            BY <1>1, <4>2 DEF PolledIInv, PolledTypes
      <4> QED BY <1>2, <4>1, <4>3
    <3> QED BY <1>1, <1>2, <2>2, <2>5, <3>1, <3>2 DEF PolledIInv, Obeying
  <2>6. Obeying'
        BY <2>5 DEF Obeying
  <2> QED BY <2>4, <2>6 DEF PolledIInv
<1> QED BY <1>4, <1>5

LEMMA StoreKeepsPolledIInv == PolledIInv /\ StoreReading => PolledIInv'
<1> SUFFICES ASSUME PolledIInv, StoreReading PROVE PolledIInv'
    OBVIOUS
<1> USE DEF PolledIInv
<1>1. /\ job.stage = "store" /\ job' = Idle
      /\ reading' = [reading EXCEPT ![job.port] = job.answer]
      /\ readingSet' = [readingSet EXCEPT ![job.port] = TRUE]
      /\ UNCHANGED <<polled, jobs, sid, session, shown, failing, reality, wanted>>
      BY DEF StoreReading
<1>2. job \in TakenJobs(polled) /\ job.port \in polled
      BY <1>1 DEF PolledTypes, TakenJobs, Idle, Job
<1>3. job.answer \in Readings(job.port) \cup {Unknown} /\ job.answer \in {Unknown, 0, 1, Beyond}
      BY <1>1, <1>2 DEF TakenJobs
<1>4. /\ reading' \in [polled -> {Unknown, 0, 1, Beyond}] /\ readingSet' \in [polled -> BOOLEAN]
      /\ \A p \in polled : reading'[p] \in Readings(p) \cup {Unknown}
      BY <1>1, <1>2, <1>3 DEF PolledTypes
<1>5. PolledTypes'
      BY <1>1, <1>4 DEF PolledTypes
<1>6. ~AtWork(job) /\ ~AtWork(job')
      BY <1>1 DEF AtWork, IsCommand, Idle, Job
<1>7. Obeying'
      BY <1>1, <1>6 DEF Obeying
<1> QED BY <1>5, <1>7

-----------------------------------------------------------------------------
(* Polled ports: the world, and the whole *)

LEMMA WorldKeepsPolledIInv == ASSUME PolledIInv, NEW p, RealityChanges(p) PROVE PolledIInv'
<1> USE DEF PolledIInv
<1>1. /\ p \in polled
      /\ wanted' = IF p = "switch" /\ ~CommandWaits THEN NoLine ELSE wanted
      /\ UNCHANGED <<polled, jobs, job, sid, session, shown, failing, reading, readingSet>>
      BY DEF RealityChanges
<1>2. PICK v \in Readings(p) : reality' = [reality EXCEPT ![p] = v]
      BY DEF RealityChanges
<1>3. /\ reality' \in [polled -> {0, 1, Beyond}]
      /\ \A q \in polled : reality'[q] \in Readings(q)
      /\ wanted' \in {0, 1, NoLine}
      BY <1>1, <1>2 DEF PolledTypes, Readings
<1>4. PolledTypes'
      BY <1>1, <1>3 DEF PolledTypes
<1>5. ASSUME wanted' # NoLine PROVE Obeying'
  <2>1. wanted' = wanted /\ "switch" \in polled /\ (p = "switch" => Has(jobs) \/ AtWork(job))
        BY <1>1, <1>5, Waits DEF Obeying
  <2>2. p # "switch" => reality'["switch"] = reality["switch"]
        BY <1>2, <2>1 DEF PolledTypes
  <2> QED BY <1>1, <1>5, <2>1, <2>2 DEF Obeying
<1>6. Obeying'
      BY <1>5 DEF Obeying
<1> QED BY <1>4, <1>6

LEMMA StepPolledIInv == PolledIInv /\ [PolledNext]_polledVars => PolledIInv'
<1> SUFFICES ASSUME PolledIInv, [PolledNext]_polledVars PROVE PolledIInv'
    OBVIOUS
<1>1. CASE UNCHANGED polledVars
      BY <1>1 DEF PolledIInv, PolledTypes, Obeying, polledVars
<1>2. CASE SwitchWork \/ PowerWork \/ EnergyWork \/ TemperatureWork \/ SolarWork \/ DayEnergyWork
      BY <1>2, WorkKeepsPolledIInv DEF SwitchWork, PowerWork, EnergyWork, TemperatureWork, SolarWork, DayEnergyWork
<1>3. CASE PollThread
  <2>1. ASSUME NEW b \in Outcomes, Ask(b) PROVE PolledIInv'
        BY <2>1, LoginKeepsPolledIInv, GetsKeepPolledIInv, CommandKeepsPolledIInv DEF Ask
  <2> QED BY <1>3, <2>1, TakeKeepsPolledIInv, StoreKeepsPolledIInv DEF PollThread
<1>4. CASE \E v \in {0, 1} : Switch(v)
      BY <1>4, SwitchKeepsPolledIInv
<1>5. CASE \E p \in polled : RealityChanges(p)
      BY <1>5, WorldKeepsPolledIInv
<1>6. CASE SessionEnds
      BY <1>6 DEF SessionEnds, PolledIInv, PolledTypes, Obeying
<1> QED BY <1>1, <1>2, <1>3, <1>4, <1>5, <1>6 DEF PolledNext

\* For any ports: once no command waits the socket is as the last command has
\* set it, unless that failed or a button was pressed (setLine, doWork,
\* setSwitchState, checkLogin).
THEOREM PolledTheorem == PolledSpec => []PolledInv
<1>1. PolledInit => PolledIInv
      BY InitPolledIInv
<1>2. PolledIInv /\ [PolledNext]_polledVars => PolledIInv'
      BY StepPolledIInv
<1>3. PolledIInv => PolledInv
      BY PolledIInvImplies
<1> QED BY <1>1, <1>2, <1>3, PTL DEF PolledSpec

-----------------------------------------------------------------------------
(* Gauges, and all together *)

LEMMA InitGaugeTypes == GaugeInit => GaugeTypeOK
BY GaugeAssumption DEF GaugeInit, GaugeTypeOK, Published, LongAgo, NoData

LEMMA StepGaugeTypes == GaugeTypeOK /\ [GaugeNext]_gaugeVars => GaugeTypeOK'
<1> SUFFICES ASSUME GaugeTypeOK, [GaugeNext]_gaugeVars PROVE GaugeTypeOK'
    OBVIOUS
<1>1. CASE UNCHANGED gaugeVars
      BY <1>1 DEF gaugeVars, GaugeTypeOK
<1>2. CASE RefreshData
      BY <1>2 DEF RefreshData, Extract, GaugeTypeOK
<1>3. CASE WaitForData
      BY <1>3 DEF WaitForData, GaugeTypeOK
<1>4. CASE ProcessData
  <2>1. CASE rawValue = Text
        BY <1>4, <2>1 DEF ProcessData, GaugeTypeOK, Published
  <2>2. CASE rawValue # Text
    <3>1. rawValue \in -1 .. GaugeMax + 1
          BY <1>4, <2>2 DEF ProcessData, GaugeTypeOK, Published
    <3>2. Corrected(rawValue) \in 0 .. GaugeMax
          BY <3>1, GaugeAssumption DEF Corrected
    <3> QED BY <1>4, <2>2, <3>2 DEF ProcessData, GaugeTypeOK, Published, LongAgo
  <2> QED BY <2>1, <2>2
<1>5. CASE GaugeTick
      BY <1>5 DEF GaugeTick, GaugeTypeOK, LongAgo
<1> QED BY <1>1, <1>2, <1>3, <1>4, <1>5 DEF GaugeNext, GaugeDoWork

DevicesIInv == MqttInv /\ PolledIInv /\ GaugeTypeOK

\* For any ports of all three: no reconnection loses the request for the
\* subscriptions, a socket is as the last command has set it, and the variables
\* keep their types.
THEOREM DevicesTheorem == DevicesSpec => []DevicesInv
<1>1. DevicesInit => DevicesIInv
      BY InitMqttInv, InitPolledIInv, InitGaugeTypes DEF DevicesInit, DevicesIInv
<1>2. DevicesIInv /\ [DevicesNext]_<<which, mqttVars, polledVars, gaugeVars>> => DevicesIInv'
  <2> SUFFICES ASSUME DevicesIInv, [DevicesNext]_<<which, mqttVars, polledVars, gaugeVars>>
               PROVE  DevicesIInv'
      OBVIOUS
  <2>1. [MqttNext]_mqttVars /\ [PolledNext]_polledVars /\ [GaugeNext]_gaugeVars
        BY DEF DevicesNext
  <2> QED BY <2>1, StepMqttInv, StepPolledIInv, StepGaugeTypes DEF DevicesIInv
<1>3. DevicesIInv => DevicesInv
      BY PolledIInvImplies DEF DevicesIInv, DevicesInv
<1> QED BY <1>1, <1>2, <1>3, PTL DEF DevicesSpec
=============================================================================
