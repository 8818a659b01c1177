------------------------ MODULE MCChangePropagation ------------------------
(***************************************************************************)
(* Four ports in cycles: port 4 may fail to be saved, and for changes by   *)
(* the user port 1 has port 5 as a handler, which refuses to be set.  In   *)
(* the instance with an Assignment port it is port 2, which assigns 3.     *)
(***************************************************************************)
EXTENDS ChangePropagation

MCInt == <<<<2, 3>>, <<3, 1>>, <<2, 4>>, <<4, 1>>, <<>>>>
MCUser == <<<<2, 4, 5>>, <<1, 3>>, <<2, 2>>, <<3, 1>>, <<>>>>

NoTargets == [p \in DigitalPorts |-> <<>>]
MCTargets == [p \in DigitalPorts |-> <<[port |-> 3, value |-> High]>>]
=============================================================================
