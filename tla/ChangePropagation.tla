-------------------------- MODULE ChangePropagation --------------------------
(***************************************************************************)
(* The change handlers of ports: a port whose state changes sets the Line  *)
(* of the ports named by OnChangeInt or OnChangeUser to High, and these    *)
(* set their handlers in turn, by nested calls of setLine.                 *)
(*                                                                         *)
(* A frame of the stack is a call of setLine in progress.  Handlers are    *)
(* digital ports; a port of another type starts cascades in the same way.  *)
(***************************************************************************)
EXTENDS Integers, Sequences, FiniteSets

CONSTANTS
  DigitalPorts,
  OnChangeInt,    \* the handlers of each port for internal changes
  OnChangeUser,   \* and for changes by the user
  Refusing,       \* ports whose setLine always throws, like that of a LogicPort
  Unsavable,      \* persistent ports: writing the file may throw
  Assignments,    \* Assignment ports
  Targets,        \* and what they assign to other ports
  MaxDepth        \* bound of the stack

ASSUME PortsAssumption == IsFiniteSet(DigitalPorts)
ASSUME HandlersAssumption ==
  /\ OnChangeInt \in [DigitalPorts -> Seq(DigitalPorts)]
  /\ OnChangeUser \in [DigitalPorts -> Seq(DigitalPorts)]

VARIABLES
  lineOf,    \* of each port, or its error
  stack,     \* calls of setLine in progress, the innermost last
  pending,   \* the call that is being made, if any
  source,    \* the changeSource that all calls of a cascade pass on
  changed,   \* the ports whose change this cascade has handled
  thrown     \* an exception has ended the cascade

cascadeVars == <<lineOf, stack, pending, source, changed, thrown>>

Low == 0
High == 1
Error == 2
Lines == {Low, High}

Settings == [port : DigitalPorts, value : Lines]
Frames == [port : DigitalPorts, value : Lines, next : Nat \ {0}]

CascadeTypeOK ==
  /\ lineOf \in [DigitalPorts -> Lines \cup {Error}]
  /\ stack \in Seq(Frames)
  /\ pending \in SUBSET Settings
  /\ source \in {"int", "user"}
  /\ changed \in SUBSET DigitalPorts
  /\ thrown \in BOOLEAN

-----------------------------------------------------------------------------
(* Helpers *)

Handlers(p) == IF source = "int" THEN OnChangeInt[p] ELSE OnChangeUser[p]

Top == stack[Len(stack)]
Below == SubSeq(stack, 1, Len(stack) - 1)

\* An Assignment port sets its own line by calls of its own setLine, and
\* does nothing else while its line is Low.
AssignmentCalls(p, v) ==
  IF v = High
  THEN <<[port |-> p, value |-> High]>> \o Targets[p] \o <<[port |-> p, value |-> Low]>>
  ELSE <<[port |-> p, value |-> Low]>>

\* the calls of setLine that a call makes
Calls(f) ==
  IF f.port \in Assignments
  THEN AssignmentCalls(f.port, f.value)
  ELSE [i \in 1 .. Len(Handlers(f.port)) |-> [port |-> Handlers(f.port)[i], value |-> High]]

CascadeInit ==
  /\ lineOf = [p \in DigitalPorts |-> Low]
  /\ stack = <<>>
  /\ pending = {}
  /\ source = "int"
  /\ changed = {}
  /\ thrown = FALSE

-----------------------------------------------------------------------------
(* setLine, called by a port's doWork, by the user or by another setLine *)

\* the callers of a cascade
StartCascade(c, s) ==
  /\ stack = <<>>
  /\ pending = {}
  /\ pending' = {c}
  /\ source' = s
  /\ changed' = {}
  /\ thrown' = FALSE
  /\ UNCHANGED <<lineOf, stack>>

\* an exception leaves all calls in progress
Throw ==
  /\ pending' = {}
  /\ stack' = <<>>
  /\ thrown' = TRUE
  /\ UNCHANGED source

\* the call continues with the calls of its own
Push(c) ==
  /\ Len(stack) < MaxDepth
  /\ stack' = Append(stack, [port |-> c.port, value |-> c.value, next |-> 1])
  /\ pending' = {}
  /\ UNCHANGED <<source, thrown>>

Refuse(c) ==
  /\ c.port \in Refusing
  /\ Throw
  /\ UNCHANGED <<lineOf, changed>>

\* mutant of KeepLine: the handlers are called as well
KeepLineNotify(c) ==
  /\ c.port \notin Refusing \cup Assignments
  /\ lineOf[c.port] = c.value
  /\ Push(c)
  /\ UNCHANGED <<lineOf, changed>>

KeepLine(c) ==
  /\ c.port \notin Refusing \cup Assignments
  /\ lineOf[c.port] = c.value
  /\ pending' = {}
  /\ UNCHANGED <<lineOf, stack, source, changed, thrown>>

\* The line changes, or its error is cleared.  Saving may fail, before any
\* handler has been called.
ChangeLine(c) ==
  /\ c.port \notin Refusing \cup Assignments
  /\ lineOf[c.port] # c.value
  /\ lineOf' = [lineOf EXCEPT ![c.port] = c.value]
  /\ changed' = changed \cup {c.port}
  /\ \/ Push(c)
     \/ c.port \in Unsavable /\ Throw

Assign(c) ==
  /\ c.port \in Assignments \ Refusing
  /\ Push(c)
  /\ UNCHANGED <<lineOf, changed>>

\* mutant of CallHandler: does not go on to the next one
CallHandlerAgain ==
  /\ stack # <<>>
  /\ pending = {}
  /\ Top.next <= Len(Calls(Top))
  /\ pending' = {Calls(Top)[Top.next]}
  /\ UNCHANGED <<lineOf, stack, source, changed, thrown>>

\* handleStateChange calls the next handler
CallHandler ==
  /\ stack # <<>>
  /\ pending = {}
  /\ Top.next <= Len(Calls(Top))
  /\ pending' = {Calls(Top)[Top.next]}
  /\ stack' = [stack EXCEPT ![Len(stack)].next = @ + 1]
  /\ UNCHANGED <<lineOf, source, changed, thrown>>

Return ==
  /\ stack # <<>>
  /\ pending = {}
  /\ Top.next > Len(Calls(Top))
  /\ stack' = Below
  /\ UNCHANGED <<lineOf, pending, source, changed, thrown>>

\* setError, by the doWork of the port
FailPort(p) ==
  /\ stack = <<>>
  /\ pending = {}
  /\ lineOf[p] # Error
  /\ lineOf' = [lineOf EXCEPT ![p] = Error]
  /\ changed' = {}
  /\ UNCHANGED <<stack, pending, source, thrown>>

CascadeStep ==
  \/ \E c \in pending : Refuse(c) \/ KeepLine(c) \/ ChangeLine(c) \/ Assign(c)
  \/ CallHandler
  \/ Return

CascadeNext ==
  \/ \E c \in Settings, s \in {"int", "user"} : StartCascade(c, s)
  \/ \E p \in DigitalPorts : FailPort(p)
  \/ CascadeStep

\* the calls are ordinary calls of one thread
CascadeSpec == CascadeInit /\ [][CascadeNext]_cascadeVars /\ WF_cascadeVars(CascadeStep)

-----------------------------------------------------------------------------
(* Properties *)

\* Cycles of handlers do not let the calls nest without bound: the stack is
\* never deeper than the number of ports and one (handleStateChange relies on
\* setLine to return early; the first call may be for Low, and its port may be
\* called again for High).
DepthInv == Len(stack) <= Cardinality(DigitalPorts) + 1

\* When a cascade has returned normally, the handlers of every port it has
\* changed are High, also those that were in an error state and those that
\* are handlers of several ports or of themselves (Port::handleStateChange).
HandlersAreHigh ==
  stack = <<>> /\ pending = {} /\ ~thrown =>
    \A p \in changed : \A i \in 1 .. Len(Handlers(p)) : lineOf[Handlers(p)[i]] = High

\* What is left of a cascade, the most significant first: ports that are not
\* High, calls in progress, calls the innermost one has yet to make, and the
\* call that is being made.
Remaining ==
  <<Cardinality({p \in DigitalPorts : lineOf[p] # High}),
    Len(stack),
    IF stack # <<>> /\ Top.next <= Len(Calls(Top)) THEN Len(Calls(Top)) + 1 - Top.next ELSE 0,
    Cardinality(pending)>>

\* Whatever a cascade does next, less is left of it: a call either changes a
\* port that nothing in the cascade sets back, or makes one call less
\* (handleStateChange; without Assignment ports).
Descends ==
  \E j \in 1 .. 4 :
    Remaining'[j] < Remaining[j] /\ \A i \in 1 .. j - 1 : Remaining'[i] = Remaining[i]

AlwaysDescends == [][stack # <<>> => Descends]_cascadeVars

\* Every call of setLine returns or throws, whatever the handlers are: the
\* main thread is never caught in a cycle (Port::handleStateChange).
CascadeEnds == AlwaysDescends /\ (stack # <<>> ~> stack = <<>> /\ pending = {})
=============================================================================
