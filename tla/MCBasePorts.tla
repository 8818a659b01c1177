----------------------------- MODULE MCBasePorts -----------------------------
(***************************************************************************)
(* Instances of what all ports have in common, and of the port that starts *)
(* processes, for TLC in one specification: a behaviour is one of          *)
(* ChangePropagation, PortValue, PersistentConfig or ExecPort, the others  *)
(* stay at their initial states.                                           *)
(***************************************************************************)
EXTENDS MCChangePropagation, PortValue, PersistentConfig, ExecPort

Port(kind, refresh, period, persistent) ==
  [kind |-> kind, refresh |-> refresh, period |-> period, readonly |-> FALSE,
   persistent |-> persistent, step |-> 2, pull |-> 0]

\* The persistent analog port sends no messages, which would only multiply its
\* states.
MCConfigs ==
  {Port("digital", "auto", 0, TRUE), Port("analog", "auto", 0, FALSE), Port("analog", "off", 0, TRUE),
   Port("select", "periodic", 3, TRUE), Port("dial", "auto", 0, TRUE), Port("custom", "periodic", 3, FALSE),
   [Port("digital", "off", 0, TRUE) EXCEPT !.readonly = TRUE],
   [Port("digital", "auto", 0, TRUE) EXCEPT !.pull = 1]}

\* every port starts with 0
AllZero == [p \in Ports |-> 0]

-----------------------------------------------------------------------------
VARIABLE which   \* the module a behaviour is about

BaseInit ==
  /\ which \in {"cascade", "value", "persist", "exec"}
  /\ CascadeInit /\ PortInit /\ PersistInit /\ Init
  /\ which # "value" => conf = CHOOSE c \in Configs : TRUE

BaseNext ==
  /\ \/ which = "cascade" /\ CascadeNext /\ UNCHANGED <<portVars, persistVars, vars>>
     \/ which = "value" /\ PortNext /\ UNCHANGED <<cascadeVars, persistVars, vars>>
     \/ which = "persist" /\ PersistNext /\ UNCHANGED <<cascadeVars, portVars, vars>>
     \/ which = "exec" /\ Next /\ UNCHANGED <<cascadeVars, portVars, persistVars>>
  /\ UNCHANGED which

BaseFairness ==
  /\ WF_cascadeVars(which = "cascade" /\ CascadeStep)
  /\ WF_portVars(which = "value" /\ life = "running" /\ PortDoWork)
  /\ WF_portVars(which = "value" /\ life = "running" /\ PortTick)
  /\ WF_vars(which = "exec" /\ DoWork)
  /\ WF_vars(which = "exec" /\ (WaiterCheck \/ WaiterWait \/ WaiterAfter \/ WaiterCleanup))
  /\ WF_vars(which = "exec" /\ WaiterRead /\ reading \notin With("running"))
  /\ \A p \in Processes : WF_vars(which = "exec" /\ EndOf(p))

BaseSpec ==
  /\ BaseInit
  /\ [][BaseNext]_<<which, cascadeVars, portVars, persistVars, vars>>
  /\ BaseFairness

-----------------------------------------------------------------------------
\* The variables have their types; a cascade leaves the handlers of what it has
\* changed High; and expressions see the value of a port.
BaseInv ==
  /\ CascadeTypeOK /\ PortTypeOK /\ PersistTypeOK /\ TypeOK
  /\ HandlersAreHigh
  /\ ExpressionsSeeValue
=============================================================================
