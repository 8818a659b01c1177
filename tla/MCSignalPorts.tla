---------------------------- MODULE MCSignalPorts ----------------------------
(***************************************************************************)
(* Instances of SignalPorts for TLC: a Logic port on a and b with a led,   *)
(* a Trigger port behind it that toggles a lamp and counts; a pulse that   *)
(* the Logic port enables; a pulse that resets the port that enables it.   *)
(***************************************************************************)
EXTENDS SignalPorts

MCDigital == {"a", "b", "led", "dark", "logic", "pulse", "trigger"}

NoLogic == [function |-> "OR", n |-> 1, negate |-> FALSE, inputs |-> {}, outputs |-> {}, inverse |-> {}]
NoPulse == [period |-> 2, on |-> 0, negate |-> FALSE, disabled |-> Unknown, enable |-> {}, outputs |-> {}, inverse |-> {}]
NoTrigger == [edge |-> "rising", change |-> "toggle", counts |-> FALSE, inputs |-> {}, outputs |-> {}, inverse |-> {}]
NoCounter == [min |-> 0, max |-> 2, increment |-> 1, period |-> 0, base |-> "time", underflow |-> {}, overflow |-> {}]

\* a Trigger port counts what a Logic port shows
Chain(function, n, negate, edge, change, touched) ==
  [logic |-> [NoLogic EXCEPT !.function = function, !.n = n, !.negate = negate,
                             !.inputs = {"a", "b"}, !.outputs = {"led"}, !.inverse = {"dark"}],
   pulse |-> NoPulse,
   trigger |-> [NoTrigger EXCEPT !.edge = edge, !.change = change, !.inputs = {"logic", "a"},
                                 !.outputs = {"led"}, !.counts = TRUE],
   counter |-> [NoCounter EXCEPT !.overflow = {"dark"}],
   order |-> <<"trigger", "logic">>,
   touched |-> touched]

\* a pulse runs while a Logic port or the port itself is High
Blinker(on, negate, disabled) ==
  [logic |-> [NoLogic EXCEPT !.inputs = {"a"}, !.outputs = {"b"}],
   pulse |-> [NoPulse EXCEPT !.on = on, !.negate = negate, !.disabled = disabled, !.enable = {"logic"},
                             !.outputs = {"led"}, !.inverse = {"dark"}],
   trigger |-> NoTrigger,
   counter |-> NoCounter,
   order |-> <<"pulse", "logic">>,
   touched |-> {"a", "pulse"}]

Periodic(base, min, max, increment) ==
  [logic |-> NoLogic, pulse |-> NoPulse,
   trigger |-> [NoTrigger EXCEPT !.inputs = {"led"}, !.change = "high", !.outputs = {"a"}, !.inverse = {"b"}],
   counter |-> [NoCounter EXCEPT !.min = min, !.max = max, !.increment = increment, !.period = 1,
                                 !.base = base, !.overflow = {"led"}, !.underflow = {"dark"}],
   order |-> <<"counter", "trigger">>,
   touched |-> {"trigger"}]

MCSignalConfigs ==
  {Chain("OR", 1, FALSE, "rising", "toggle", {"a", "trigger"}), Chain("EXACTLY", 1, TRUE, "both", "low", {"b", "dark"}),
   Blinker(1, FALSE, Low), Blinker(1, TRUE, Unknown), Blinker(0, FALSE, High),
   Periodic("time", 1, 3, 2), Periodic("frames", 0, 2, -1), Periodic("time", 0, 1, 3)}

\* Pulse3 of the example: Output4 enables it and is reset by it
OneShot ==
  {[logic |-> NoLogic, trigger |-> NoTrigger, counter |-> NoCounter,
    pulse |-> [NoPulse EXCEPT !.on = 1, !.enable = {"led"}, !.outputs = {"led", "pulse"}],
    order |-> <<"pulse">>, touched |-> {"led"}]}
=============================================================================
