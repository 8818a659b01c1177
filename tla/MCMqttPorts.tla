----------------------------- MODULE MCMqttPorts -----------------------------
(* Instances of MqttPorts for TLC. *)
EXTENDS MqttPorts

Mqtt(class, queries, writes, timeout, first, odd) ==
  [class |-> class, queries |-> queries, writes |-> writes, timeout |-> timeout, initial |-> first,
   odd |-> odd]

\* Devices of each class, for what is particular to it: the Digital port is
\* commanded and queried, the power port's timeout races with what is done
\* without the mutex, a value of a Dial port may not compile or be out of
\* range.  A Generic port and a switch each query their device, or are commanded
\* and have an initial value.
MCMqttConfigs ==
  {Mqtt("digital", TRUE, TRUE, FALSE, None, 0), Mqtt("dial", FALSE, TRUE, FALSE, None, Junk),
   Mqtt("generic", TRUE, FALSE, FALSE, 1, 0), Mqtt("generic", FALSE, TRUE, TRUE, 1, Junk),
   Mqtt("switch", TRUE, FALSE, FALSE, None, 0), Mqtt("switch", FALSE, TRUE, FALSE, 1, 0),
   Mqtt("power", TRUE, FALSE, TRUE, None, 0), Mqtt("select", FALSE, TRUE, FALSE, None, Junk),
   Mqtt("dial", FALSE, FALSE, FALSE, None, TooBig)}

\* a Digital port with a timeout
Expiring == {Mqtt("digital", TRUE, TRUE, TRUE, None, Junk)}
=============================================================================
