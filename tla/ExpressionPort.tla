---------------------------- MODULE ExpressionPort ----------------------------
(***************************************************************************)
(* An Expression port with one output port: it applies its expression in   *)
(* every iteration of the main loop while it is High, for a limited number *)
(* of iterations if there is a limit, and sets a deactivation value when   *)
(* it becomes Low.                                                         *)
(*                                                                         *)
(* The expression is an example with fractions: it adds the values of two  *)
(* ports, less one half.  Numbers are counted in halves.                   *)
(***************************************************************************)
EXTENDS Integers

CONSTANT
  ExprConfigs   \* see ExprType

VARIABLES
  expr,         \* the configuration
  exprLine,
  iterations,   \* left until the port disables itself
  inputs,       \* the values of the ports x, y and the required port r
  output,       \* the output port
  applications,      \* history: applications since the port was switched on
  deactivated   \* history: the deactivation value has been set since then

exprVars == <<expr, exprLine, iterations, inputs, output, applications, deactivated>>

Kinds == {"digital", "analog", "dial", "select", "custom"}
\* no number: the value of a port in an error state, and of a setting that is not there
NoNumber == -2
Halves == -1 .. 5

ExprType ==
  [kind : Kinds,                             \* of the output port
   limit : 0 .. 2,                           \* Iterations, 0: no limit
   fallback : Halves \cup {NoNumber},
   deactivation : Halves \cup {NoNumber},
   required : SUBSET {"r"},                  \* RequiredPorts
   validated : SUBSET {"x", "y"},            \* variables marked with "._"
   throws : BOOLEAN]                         \* those who are told of a change may throw

ASSUME ExprAssumption == ExprConfigs \subseteq ExprType

\* bounds of the model: the range of an analog and of a dial output, the
\* positions of a select output, and the values of the inputs
Full == 3
DialRange == 1 .. 2
LastPosition == 1
InputValues == [x |-> {NoNumber, 0, 3}, y |-> {NoNumber, 0, 3}, r |-> {NoNumber, 0}]
\* bound: how far the iterations are counted below zero
IterationsFloor == -1

ExprTypeOK ==
  /\ expr \in ExprType
  /\ exprLine \in {0, 1}
  /\ iterations \in IterationsFloor .. 2
  /\ \A p \in {"x", "y", "r"} : inputs[p] \in InputValues[p]
  /\ output \in [value : -1 .. 5, error : BOOLEAN]
  /\ applications \in 0 .. 3
  /\ deactivated \in BOOLEAN

ExprInit ==
  /\ expr \in ExprConfigs
  /\ exprLine \in {0, 1}
  /\ iterations = expr.limit
  /\ inputs = [p \in {"x", "y", "r"} |-> 0]
  /\ output = [value |-> 1, error |-> FALSE]
  /\ applications = 0
  /\ deactivated = FALSE

-----------------------------------------------------------------------------
(* Values *)

\* static_cast to an integer type
Truncated(halves) == IF halves < 0 THEN -((-halves) \div 2) ELSE halves \div 2
ClampedTo(limit, v) == IF v < 0 THEN 0 ELSE IF v > limit THEN limit ELSE v

\* What setOutputPorts makes of an output port: an error of the port is cleared
\* by a value it accepts; one it refuses is an exception that is caught.
After(out, v) ==
  LET Becomes(value) == [value |-> value, error |-> FALSE]
      position == Truncated(v)
  IN  IF v = NoNumber THEN [out EXCEPT !.error = TRUE]
      ELSE CASE expr.kind = "digital" -> Becomes(IF v = 0 THEN 0 ELSE 1)
             [] expr.kind = "analog" -> Becomes(ClampedTo(Full, Truncated(Full * v)))
             [] expr.kind = "dial" -> IF position \in DialRange THEN Becomes(position) ELSE out
             [] expr.kind = "select" -> IF position <= LastPosition THEN Becomes(position) ELSE out
             [] OTHER -> Becomes(v)

InError(p) == inputs[p] = NoNumber

\* expression.value(): a variable without a number gives no number
Evaluated == IF InError("x") \/ InError("y") THEN NoNumber ELSE inputs["x"] + inputs["y"] - 1

\* the checks of apply: every required port, and one of those to be validated
MayEvaluate ==
  /\ \A p \in expr.required : ~InError(p)
  /\ expr.validated = {} \/ \E p \in expr.validated : ~InError(p)

\* mutant of Result: the required ports are not looked at when none is to be validated
ResultUnchecked ==
  IF expr.validated = {} \/ MayEvaluate THEN Evaluated ELSE expr.fallback

Result == IF MayEvaluate THEN Evaluated ELSE expr.fallback

-----------------------------------------------------------------------------
(* setLine, called with another line than the port has *)

ActivateExpression ==
  /\ exprLine = 0
  /\ exprLine' = 1
  /\ iterations' = expr.limit
  /\ applications' = 0
  /\ deactivated' = FALSE
  /\ UNCHANGED <<expr, inputs, output>>

\* the port becomes Low while its output port is out
BecomeLow(out) ==
  /\ exprLine' = 0
  /\ output' = IF expr.deactivation = NoNumber THEN out ELSE After(out, expr.deactivation)
  /\ deactivated' = (expr.deactivation # NoNumber)

DeactivateExpression ==
  /\ exprLine = 1
  /\ BecomeLow(output)
  /\ UNCHANGED <<expr, iterations, inputs, applications>>

\* setLine of the base class throws after it has changed the line: the
\* iterations are not counted anew, the deactivation value is not set.
SwitchBroken ==
  /\ expr.throws
  /\ iterations > IterationsFloor
  /\ exprLine' = 1 - exprLine
  /\ applications' = IF exprLine = 0 THEN 0 ELSE applications
  /\ deactivated' = FALSE
  /\ UNCHANGED <<expr, iterations, inputs, output>>

-----------------------------------------------------------------------------
(* doWork, which only does something while the port is High *)

LastIteration == expr.limit > 0 /\ iterations <= 1

Count ==
  /\ iterations' = IF expr.limit > 0 THEN iterations - 1 ELSE iterations
  /\ applications' = IF expr.limit > 0 THEN applications + 1 ELSE applications

ApplyExpression ==
  /\ exprLine = 1
  /\ ~LastIteration
  /\ output' = After(output, Result)
  /\ Count
  /\ UNCHANGED <<expr, exprLine, inputs, deactivated>>

\* The deactivation value replaces the last result at once.
ApplyLast ==
  /\ exprLine = 1
  /\ LastIteration
  /\ BecomeLow(After(output, Result))
  /\ Count
  /\ UNCHANGED <<expr, inputs>>

\* The port becomes Low, but those who are told throw.
ApplyLastBroken ==
  /\ expr.throws
  /\ exprLine = 1
  /\ LastIteration
  /\ exprLine' = 0
  /\ output' = After(output, Result)
  /\ Count
  /\ UNCHANGED <<expr, inputs, deactivated>>

ExprDoWork == ApplyExpression \/ ApplyLast \/ ApplyLastBroken

-----------------------------------------------------------------------------
InputChanges ==
  /\ \E p \in {"x", "y", "r"} : \E v \in InputValues[p] : inputs' = [inputs EXCEPT ![p] = v]
  /\ UNCHANGED <<expr, exprLine, iterations, output, applications, deactivated>>

ExprNext ==
  \/ ActivateExpression
  \/ DeactivateExpression
  \/ SwitchBroken
  \/ ExprDoWork
  \/ InputChanges

\* the main loop comes back to the port
ExprFairness == WF_exprVars(ExprDoWork)
ExprSpec == ExprInit /\ [][ExprNext]_exprVars /\ ExprFairness

-----------------------------------------------------------------------------
(* Properties *)

\* While the port is Low its output shows the deactivation value, whatever has
\* switched it off (setLine, doWork), unless an exception cut the change short.
DeactivationShown ==
  deactivated /\ exprLine = 0 => output = After(output, expr.deactivation)

\* The expression is never applications more often than Iterations says, in whatever
\* order the port is switched (setLine, doWork).
LimitKept == expr.limit > 0 => applications <= expr.limit

\* A port with Iterations becomes Low again and again: no order of changes and
\* exceptions makes it forget to count (setLine, doWork).
ExpressionEnds == expr.limit > 0 => []<>(exprLine = 0)

\* Once nothing changes any more, an active expression shows the value of its
\* inputs if all have one, and the fallback or an error if a required port or
\* all that are validated have none (apply, setOutputPorts).
Shown ==
  /\ (\A p \in DOMAIN inputs : ~InError(p)) => output = After(output, inputs["x"] + inputs["y"] - 1)
  /\ (\E p \in expr.required : InError(p)) => output = After(output, expr.fallback)
  /\ (expr.validated # {} /\ \A p \in expr.validated : InError(p)) => output = After(output, expr.fallback)

FollowsInputs ==
  \/ []<><<InputChanges \/ ActivateExpression \/ DeactivateExpression \/ SwitchBroken>>_exprVars
  \/ <>[](exprLine = 1 => Shown)

\* An expression runs as often as it should, on the values of its ports.
ExpressionRuns == ExpressionEnds /\ FollowsInputs
=============================================================================
