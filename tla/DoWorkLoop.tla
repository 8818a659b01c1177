----------------------------- MODULE DoWorkLoop -----------------------------
(***************************************************************************)
(* The main loop of openhatd: OPDI::doWork schedules the doWork methods of *)
(* the ports, AbstractOpenHAT::doWork guards it against exceptions, the    *)
(* accept loop of LinuxOpenHAT::setupTCP calls it and sleeps between the   *)
(* calls, and OPDI::shutdown / shutdownInternal end the process.           *)
(*                                                                         *)
(* Time is relative: wait[p] is the scheduled start of port p minus the    *)
(* current time (negative when the port is overdue), so that no clock      *)
(* grows without bound.                                                    *)
(***************************************************************************)
EXTENDS Integers

CONSTANTS
  N,          \* number of registered ports
  Priority,   \* Port::priority, the milliseconds between two runs of a port
  MaxCost,    \* bound: the longest time one doWork method of a port takes
  MayThrow,   \* ports whose doWork may throw a Poco::Exception
  MayFail,    \* ports whose doWork may throw another exception or fail
  MaxLate,    \* bound: an overdue port is not counted further than this
  SinceCap    \* bound: the age of a port's last run is counted up to this

Ports == 1 .. N

ASSUME NAssumption == N \in Nat \ {0}
ASSUME PriorityAssumption == Priority \in [Ports -> 0 .. 255]
ASSUME CostAssumption == MaxCost \in Nat
ASSUME PortKindAssumption == MayThrow \subseteq Ports /\ MayFail \subseteq Ports
ASSUME BoundAssumption ==
  /\ MaxLate \in Nat
  /\ SinceCap \in Nat
  /\ \A p \in Ports : Priority[p] + MaxLate <= SinceCap

VARIABLES
  phase,     \* where the main thread is
  built,     \* portSchedules is not empty
  wait,      \* scheduled start of each port, relative to now
  pos,       \* position of each port in portSchedules
  todo,      \* ports this iteration has not looked at yet
  spent,     \* time the current iteration has taken so far
  sleepMs,   \* *sleepTimeMs
  aborted,   \* the last iteration ended with a Poco::Exception
  since,     \* time since the last run of each port ended
  shutdownRequested,
  result,    \* what the loop hands to main, "running" before that
  closed     \* ports whose shutdown method has been called

vars == <<phase, built, wait, pos, todo, spent, sleepMs, aborted, since,
          shutdownRequested, result, closed>>

schedule == <<built, wait, pos, since>>

TypeOK ==
  /\ phase \in {"call", "ports", "sleep", "closing", "exited"}
  /\ built \in BOOLEAN
  /\ wait \in [Ports -> Int]
  /\ pos \in [Ports -> Ports]
  /\ todo \subseteq Ports
  /\ spent \in Nat
  /\ sleepMs \in 0 .. 255
  /\ aborted \in BOOLEAN
  /\ since \in [Ports -> Nat]
  /\ shutdownRequested \in BOOLEAN
  /\ result \in {"running", "shutdown", "error"}
  /\ closed \subseteq Ports

-----------------------------------------------------------------------------
(* Helpers *)

AtLeast(x, floor) == IF x < floor THEN floor ELSE x
AtMost(x, cap) == IF x > cap THEN cap ELSE x

\* d milliseconds pass for every scheduled start and for every age
Later(w, d) == [p \in Ports |-> AtLeast(w[p] - d, -MaxLate)]
Older(s, d) == [p \in Ports |-> AtMost(s[p] + d, SinceCap)]

\* The outcomes of sorting the (time, port) pairs; ports scheduled for the
\* same time are ordered by address, which the model leaves open.
Sorted(w) ==
  {f \in [Ports -> Ports] :
     /\ \A p, q \in Ports : w[p] < w[q] => f[p] < f[q]
     /\ \A p, q \in Ports : f[p] = f[q] => p = q}

\* mutant of IsNext: the iteration ends one port too early
IsNextOfAllButLast(p) ==
  p \in todo /\ pos[p] < N /\ \A q \in todo : pos[p] <= pos[q]

\* the port at the iterator of the loop over portSchedules
IsNext(p) == p \in todo /\ \A q \in todo : pos[p] <= pos[q]

Due(p) == wait[p] <= 0

\* the cast to uint8_t
U8(x) == x % 256

-----------------------------------------------------------------------------
Init ==
  /\ phase = "call"
  /\ built = FALSE
  /\ wait = [p \in Ports |-> 0]
  /\ pos = [p \in Ports |-> p]
  /\ todo = {}
  /\ spent = 0
  /\ sleepMs = 0
  /\ aborted = FALSE
  /\ since = [p \in Ports |-> SinceCap]
  /\ shutdownRequested = FALSE
  /\ result = "running"
  /\ closed = {}

\* mutant of BeginIteration: the request to shut down is not looked at
BeginIterationUnchecked ==
  /\ phase = "call"
  /\ phase' = "ports"
  /\ todo' = Ports
  /\ spent' = 0
  /\ sleepMs' = 0
  /\ built' = TRUE
  /\ \/ built /\ UNCHANGED <<wait, pos>>
     \/ ~built /\ wait' = Priority /\ pos' \in Sorted(wait')
  /\ UNCHANGED <<aborted, since, shutdownRequested, result, closed>>

\* OPDI::doWork is entered; the first call distributes the ports randomly
\* over their period.
BeginIteration ==
  /\ phase = "call"
  /\ ~shutdownRequested
  /\ phase' = "ports"
  /\ todo' = Ports
  /\ spent' = 0
  /\ sleepMs' = 0
  /\ built' = TRUE
  /\ \/ /\ built
        /\ UNCHANGED <<wait, pos>>
     \/ /\ ~built
        /\ \E offset \in [Ports -> UNION {0 .. Priority[p] : p \in Ports}] :
             /\ \A p \in Ports : offset[p] <= Priority[p]
             /\ wait' = offset
             /\ pos' \in Sorted(offset)
  /\ UNCHANGED <<aborted, since, shutdownRequested, result, closed>>

\* the loop passes a port whose time has not come
SkipPort(p) ==
  /\ phase = "ports"
  /\ IsNext(p)
  /\ ~Due(p)
  /\ todo' = todo \ {p}
  /\ UNCHANGED <<phase, schedule, spent, sleepMs, aborted, shutdownRequested,
                 result, closed>>

\* A port works and is rescheduled: next is its new scheduled start, relative
\* to the end of its work, as a function of the time the work has taken.
Work(p, next) ==
  /\ phase = "ports"
  /\ IsNext(p)
  /\ Due(p)
  /\ \E cost \in 0 .. MaxCost :
       /\ wait' = [Later(wait, cost) EXCEPT ![p] = next[cost]]
       /\ since' = [Older(since, cost) EXCEPT ![p] = 0]
       /\ spent' = spent + cost
  /\ todo' = todo \ {p}
  /\ UNCHANGED <<phase, built, pos, sleepMs, aborted, shutdownRequested,
                 result, closed>>

\* mutant of RunPort: rescheduled relative to the start of the work
RunPortFromStart(p) == Work(p, [cost \in 0 .. MaxCost |-> Priority[p] - cost])

\* mutant of RunPort: rescheduled relative to the planned start
RunPortFromPlan(p) == Work(p, [cost \in 0 .. MaxCost |-> wait[p] - cost + Priority[p]])

\* a due port works for some time and is rescheduled relative to the end of
\* its work
RunPort(p) == Work(p, [cost \in 0 .. MaxCost |-> Priority[p]])

\* A Poco::Exception leaves OPDI::doWork at once: nothing is rescheduled or
\* sorted, sleepTimeMs keeps the 0 it was given at the start, and
\* AbstractOpenHAT::doWork reports OPDI_STATUS_OK.
PortThrows(p) ==
  /\ phase = "ports"
  /\ p \in MayThrow
  /\ IsNext(p)
  /\ Due(p)
  /\ \E cost \in 0 .. MaxCost :
       /\ wait' = Later(wait, cost)
       /\ since' = Older(since, cost)
       /\ spent' = spent + cost
  /\ phase' = "sleep"
  /\ aborted' = TRUE
  /\ todo' = {}
  /\ UNCHANGED <<built, pos, sleepMs, shutdownRequested, result, closed>>

\* Any other exception becomes OPDI_DEVICE_ERROR; a port may also return an
\* error. Either one is returned by setupTCP and ends the process.
PortFails(p) ==
  /\ phase = "ports"
  /\ p \in MayFail
  /\ IsNext(p)
  /\ Due(p)
  /\ phase' = "exited"
  /\ result' = "error"
  /\ todo' = {}
  /\ UNCHANGED <<schedule, spent, sleepMs, aborted, shutdownRequested, closed>>

\* mutant of EndIteration: the schedule table is not sorted again
EndIterationUnsorted ==
  /\ phase = "ports"
  /\ todo = {}
  /\ phase' = "sleep"
  /\ aborted' = FALSE
  /\ \E first \in Ports : pos[first] = 1 /\ sleepMs' = U8(wait[first])
  /\ UNCHANGED <<schedule, todo, spent, shutdownRequested, result, closed>>

\* all ports have been looked at: sort, suggest the time to sleep
EndIteration ==
  /\ phase = "ports"
  /\ todo = {}
  /\ phase' = "sleep"
  /\ aborted' = FALSE
  /\ pos' \in Sorted(wait)
  /\ \E first \in Ports :
       /\ \A q \in Ports : wait[first] <= wait[q]
       /\ sleepMs' = U8(wait[first])
  /\ UNCHANGED <<built, wait, todo, spent, since, shutdownRequested, result,
                 closed>>

\* nanosleep of the suggested time, at least one millisecond
Sleep ==
  /\ phase = "sleep"
  /\ LET d == AtLeast(sleepMs, 1) IN
       /\ wait' = Later(wait, d)
       /\ since' = Older(since, d)
  /\ phase' = "call"
  /\ UNCHANGED <<built, pos, todo, spent, sleepMs, aborted, shutdownRequested,
                 result, closed>>

\* A signal interrupts nanosleep: the handler calls OPDI::shutdown, the loop
\* does the same and returns OPDI_SHUTDOWN directly.
SleepInterrupted ==
  /\ phase = "sleep"
  /\ phase' = "exited"
  /\ shutdownRequested' = TRUE
  /\ result' = "shutdown"
  /\ UNCHANGED <<schedule, todo, spent, sleepMs, aborted, closed>>

\* OPDI::shutdown, called by a port or by a signal handler that runs outside of
\* nanosleep or in another thread of the process: it only sets the flag
RequestShutdown ==
  /\ phase \in {"call", "ports", "sleep"}
  /\ ~shutdownRequested
  /\ shutdownRequested' = TRUE
  /\ UNCHANGED <<phase, schedule, todo, spent, sleepMs, aborted, result, closed>>

\* OPDI::doWork is entered after a request: shutdownInternal
BeginShutdown ==
  /\ phase = "call"
  /\ shutdownRequested
  /\ phase' = "closing"
  /\ todo' = Ports
  /\ sleepMs' = 0
  /\ UNCHANGED <<schedule, spent, aborted, shutdownRequested, result, closed>>

\* one round of the loop over the ports, in the order of registration; an
\* error of the port's shutdown method is ignored
ClosePort(p) ==
  /\ phase = "closing"
  /\ p \in todo
  /\ \A q \in todo : p <= q
  /\ todo' = todo \ {p}
  /\ closed' = closed \cup {p}
  /\ UNCHANGED <<phase, schedule, spent, sleepMs, aborted, shutdownRequested,
                 result>>

EndShutdown ==
  /\ phase = "closing"
  /\ todo = {}
  /\ phase' = "exited"
  /\ result' = "shutdown"
  /\ UNCHANGED <<schedule, todo, spent, sleepMs, aborted, shutdownRequested,
                 closed>>

\* the steps of the main thread
MainThread ==
  \/ BeginIteration
  \/ \E p \in Ports :
       SkipPort(p) \/ RunPort(p) \/ PortThrows(p) \/ PortFails(p) \/ ClosePort(p)
  \/ EndIteration
  \/ Sleep
  \/ BeginShutdown
  \/ EndShutdown

Next == MainThread \/ SleepInterrupted \/ RequestShutdown

Spec == Init /\ [][Next]_vars

\* The operating system keeps running the process.
FairSpec == Spec /\ WF_vars(MainThread)

\* Exceptions are transient: a port that gets to run again and again does
\* not throw every time.
TransientSpec ==
  FairSpec /\ \A p \in Ports : SF_vars(RunPort(p))

-----------------------------------------------------------------------------
(* Properties *)

\* A port is never started earlier than its period after its last run ended:
\* OPDI::doWork reschedules it relative to the end of its work.  concepts.md
\* promises that a duration is "guaranteed not to be shorter than specified".
SpacingInv ==
  \A p \in Ports : Due(p) => since[p] >= Priority[p]

\* When OPDI::doWork has looked at all ports without an exception, a port can
\* only be late by what the other ports of this very iteration have taken.
LatenessInv ==
  phase = "sleep" /\ ~aborted => \A p \in Ports : -wait[p] <= spent

\* If no port has become overdue meanwhile, the suggested sleep time reaches
\* exactly to the next scheduled start.
SleepInv ==
  phase = "sleep" /\ ~aborted /\ (\A p \in Ports : wait[p] >= 0) =>
    /\ \A p \in Ports : sleepMs <= wait[p]
    /\ \E p \in Ports : sleepMs = wait[p]

\* concepts.md: after a signal the server loops through all ports to give them
\* a chance to clean up and persist before it exits.
ShutdownClosesPorts ==
  result = "shutdown" => closed = Ports

\* Every port works again and again as long as the process runs.
EveryPortServed ==
  \A p \in Ports : []<>(since[p] = 0 \/ phase = "exited")

\* OPDI::shutdown only sets a flag; the loop notices it and ends the process.
ShutdownEnds ==
  shutdownRequested ~> phase = "exited"
=============================================================================
