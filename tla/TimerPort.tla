----------------------------- MODULE TimerPort -----------------------------
(***************************************************************************)
(* The timer port: schedules put notifications into a queue ordered by     *)
(* time; doWork takes one that is due, puts the next occurrence and the    *)
(* deactivation of its schedule into the queue and sets the output ports.  *)
(*                                                                         *)
(* Times are relative to the present: an entry of the queue is due when    *)
(* its "in" is 0 or less.  The output ports are set by nobody else and are *)
(* never in an error state.                                                *)
(***************************************************************************)
EXTENDS Integers, Sequences, SequencesExt, FiniteSetsExt

CONSTANTS
  Schedules,          \* the sequence of schedules, records of
                      \*   type, action, limit (MaxOccurrences), duration,
                      \*   every (interval), at (time of day), offset
  Outputs,            \* number of output ports, in the order they are set
  Refusing,           \* schedules whose calculation may throw an exception,
                      \*   as that of a periodic one at the end of the year
  PropagateSwitchOff, \* setting
  Day,                \* length of a day
  Tolerance,          \* longest time between calls of doWork (5 s)
  MaxLate,            \* bound: doWork is called at least this often
  MaxAhead,           \* bound: dates are at most this far in the future
  MaxJumps,           \* bound: corrections of the clock, changes of a date
  MaxQueue            \* bound: the master does not connect with more pending

S == DOMAIN Schedules
Types == {"once", "interval", "periodic", "astronomical", "login", "logout",
          "manual"}

ASSUME ScheduleAssumption ==
  Schedules \in Seq([type : Types, action : {"high", "low", "toggle"},
                     limit : Int, duration : Nat, every : Nat \ {0},
                     at : 0 .. Day - 1, offset : Int])

ASSUME TimerAssumption ==
  /\ Outputs \in Nat \ {0} /\ Refusing \subseteq S
  /\ PropagateSwitchOff \in BOOLEAN /\ Day \in Nat \ {0}
  /\ MaxLate \in Nat \ {0} /\ Tolerance \in Nat /\ MaxLate <= Tolerance
  /\ MaxAhead \in Nat /\ MaxJumps \in Nat /\ MaxQueue \in Nat

VARIABLES
  line,        \* of the timer: 1 is enabled
  queue,       \* pending notifications, by time
  occurrences, \* of each schedule, counted up to its limit
  date,        \* how far the date of a once or manual schedule is ahead
  clock,       \* time of day
  sinceWork,   \* time since lastWorkTimestamp, within Tolerance + 1
  yearEnd,     \* the calculations of Refusing throw
  connected, masterLoggedIn,
  outputs,     \* lines of the output ports
  jumps,       \* how often the clock or a date has been changed
  forgotten    \* a deactivation has been cleared, outputs not set since

\* What only time or a call from elsewhere changes.
around == <<line, date, clock, yearEnd, connected, jumps>>

vars == <<line, queue, occurrences, date, clock, sinceWork, yearEnd, connected,
          masterLoggedIn, outputs, jumps, forgotten>>

\* Bound: further in the past makes no difference, even to a correction.
MinAhead == -(Tolerance + 2)

Dated == {s \in S : Schedules[s].type \in {"once", "manual"}}

Notification == [schedule : S, deactivate : BOOLEAN, in : Int]

TypeOK ==
  /\ line \in {0, 1}
  /\ queue \in Seq(Notification)
  /\ \A i, j \in DOMAIN queue : i <= j => queue[i].in <= queue[j].in
  /\ occurrences \in [S -> Nat]
  /\ date \in [Dated -> MinAhead .. MaxAhead]
  /\ clock \in 0 .. Day - 1
  /\ sinceWork \in -(Tolerance + 1) .. Tolerance + 1
  /\ yearEnd \in BOOLEAN /\ connected \in BOOLEAN /\ masterLoggedIn \in BOOLEAN
  /\ outputs \in [1 .. Outputs -> {0, 1}]
  /\ jumps \in 0 .. MaxJumps
  /\ forgotten \in BOOLEAN

-----------------------------------------------------------------------------
(* Schedules and the queue. *)

Clamp(low, high, n) == IF n < low THEN low ELSE IF n > high THEN high ELSE n

\* calculateNextOccurrence: the time until then, at most 0 if there is none.
\* The astronomical event that has not passed yet is taken before the offset
\* is added.
TimeToNext(s) ==
  LET schedule == Schedules[s]
      toEvent == 1 + ((schedule.at - clock - 1) % Day)
  IN CASE schedule.type = "interval" -> schedule.every
       [] schedule.type = "periodic" -> toEvent
       [] schedule.type = "astronomical" -> toEvent + schedule.offset
       [] schedule.type \in {"once", "manual"} -> date[s]
       [] OTHER -> 0

\* enqueueNotification: after the entries of the same time.
Insert(q, entry) ==
  LET before == {i \in DOMAIN q : q[i].in <= entry.in}
  IN InsertAt(q, Cardinality(before) + 1, entry)

\* mutant of AddNotification: a schedule that is in the queue is not added
AddNotificationOnce(q, s, deactivate, in) ==
  IF in > 0 /\ \A i \in DOMAIN q : q[i].schedule # s
  THEN Insert(q, [schedule |-> s, deactivate |-> deactivate, in |-> in])
  ELSE q

\* addNotification: the past is ignored.
AddNotification(q, s, deactivate, in) ==
  IF in > 0
  THEN Insert(q, [schedule |-> s, deactivate |-> deactivate, in |-> in])
  ELSE q

Refused == IF yearEnd THEN Refusing ELSE {}

\* The activations of the schedules up to the last one, added in their order.
Scheduled(times, last) ==
  LET added[s \in 0 .. Len(Schedules)] ==
        IF s = 0 THEN <<>> ELSE AddNotification(added[s - 1], s, FALSE, times[s])
  IN added[last]

\* recalculateSchedules: the queue is cleared first; an exception keeps the
\* schedules that follow out of it.
Recalculated ==
  Scheduled([s \in S |-> TimeToNext(s)],
            IF Refused = {} THEN Len(Schedules) ELSE Min(Refused) - 1)

Deactivations(q) == {i \in DOMAIN q : q[i].deactivate}

Toggle == -1

\* setOutputs: a toggle takes the line of the first port for all of them.
SetOutputs(value) ==
  outputs' = [o \in 1 .. Outputs |->
                IF value = Toggle THEN 1 - outputs[1] ELSE value]

\* mutant of OutputLine: the deactivation is not looked at
OutputLineOfActivation(entry) ==
  CASE Schedules[entry.schedule].action = "high" -> 1
    [] Schedules[entry.schedule].action = "low" -> 0
    [] OTHER -> Toggle

\* The value a notification asks for.
OutputLine(entry) ==
  CASE Schedules[entry.schedule].action = "high" ->
         IF entry.deactivate THEN 0 ELSE 1
    [] Schedules[entry.schedule].action = "low" ->
         IF entry.deactivate THEN 1 ELSE 0
    [] OTHER -> Toggle

-----------------------------------------------------------------------------
(* doWork *)

Due(q) == q # <<>> /\ Head(q).in <= 0

\* The first schedule for the change of the connection.
Events ==
  {s \in S : Schedules[s].type = (IF connected THEN "login" ELSE "logout")}

\* mutant of Repeats: no limit is taken for a limit
RepeatsWithinLimit(s, count) ==
  Schedules[s].type # "once" /\ count < Schedules[s].limit

\* The schedule may trigger again.
Repeats(s, count) ==
  /\ Schedules[s].type # "once"
  /\ Schedules[s].limit < 0 \/ count < Schedules[s].limit

\* One notification is processed with q as the rest of the queue.
Process(q, entry) ==
  LET s == entry.schedule
      count == occurrences[s] + 1
      again == ~entry.deactivate /\ Repeats(s, count)
      refused == again /\ s \in Refused
      q1 == IF again THEN AddNotification(q, s, FALSE, TimeToNext(s)) ELSE q
      q2 == IF entry.deactivate THEN q1
            ELSE AddNotification(q1, s, TRUE, Schedules[s].duration)
  IN /\ occurrences' =
          [occurrences EXCEPT ![s] = Clamp(0, Max({Schedules[s].limit, 0}),
                                           count)]
     /\ queue' = IF refused THEN q ELSE q2
     /\ IF refused THEN UNCHANGED <<outputs, forgotten>>
        ELSE SetOutputs(OutputLine(entry)) /\ forgotten' = FALSE

\* A disabled timer only notices the connection.
WorkDisabled ==
  /\ line = 0
  /\ masterLoggedIn' = connected
  /\ UNCHANGED <<around, queue, occurrences, sinceWork, outputs, forgotten>>

ClockCorrected == sinceWork > Tolerance \/ sinceWork < -Tolerance

\* The clock stays corrected as long as a calculation throws.
Stuck == ClockCorrected /\ Refused # {}

\* The recalculation throws: the exception leaves doWork.
WorkRefused ==
  /\ line = 1
  /\ Stuck
  /\ masterLoggedIn' = connected
  /\ queue' = Recalculated
  /\ forgotten' = (forgotten \/ Deactivations(queue) # {})
  /\ UNCHANGED <<around, occurrences, sinceWork, outputs>>

\* A change of the connection comes before what is due in the queue.
WorkEvent ==
  /\ line = 1
  /\ ~Stuck
  /\ connected # masterLoggedIn /\ Events # {}
  /\ Process(IF ClockCorrected THEN Recalculated ELSE queue,
             [schedule |-> Min(Events), deactivate |-> FALSE, in |-> 0])
  /\ masterLoggedIn' = connected
  /\ sinceWork' = 0
  /\ UNCHANGED around

\* No event: a corrected clock has nothing due after the recalculation.
WorkQueue ==
  /\ line = 1
  /\ ~Stuck
  /\ connected = masterLoggedIn \/ Events = {}
  /\ LET q == IF ClockCorrected THEN Recalculated ELSE queue
     IN IF Due(q) THEN Process(Tail(q), Head(q))
        ELSE /\ queue' = q
             /\ forgotten' = (forgotten \/ (ClockCorrected
                                              /\ Deactivations(queue) # {}))
             /\ UNCHANGED <<occurrences, outputs>>
  /\ masterLoggedIn' = connected
  /\ sinceWork' = 0
  /\ UNCHANGED around

DoWork == WorkDisabled \/ WorkRefused \/ WorkEvent \/ WorkQueue

-----------------------------------------------------------------------------
(* Calls from elsewhere and the passage of time. *)

\* setLine
Disable ==
  /\ line = 1
  /\ line' = 0
  /\ queue' = <<>>
  /\ IF PropagateSwitchOff
     THEN SetOutputs(0) /\ forgotten' = FALSE
     ELSE /\ forgotten' = (forgotten \/ Deactivations(queue) # {})
          /\ UNCHANGED outputs
  /\ UNCHANGED <<yearEnd, occurrences, date, clock, sinceWork, connected,
                 masterLoggedIn, jumps>>

\* mutant of Enable: the schedules are not calculated again
EnableOnly ==
  /\ line = 0
  /\ line' = 1
  /\ UNCHANGED <<yearEnd, queue, occurrences, date, clock, sinceWork, connected,
                 masterLoggedIn, outputs, jumps, forgotten>>

Enable ==
  /\ line = 0
  /\ line' = 1
  /\ queue' = Recalculated
  /\ forgotten' = (forgotten \/ Deactivations(queue) # {})
  /\ UNCHANGED <<yearEnd, occurrences, date, clock, sinceWork, connected,
                 masterLoggedIn, outputs, jumps>>

\* ManualSchedulePort::setPosition: the user changes a date, enabled or not.
SetDate ==
  /\ jumps < MaxJumps
  /\ \E s \in Dated, d \in {-1} \cup 1 .. MaxAhead :
       /\ Schedules[s].type = "manual"
       /\ d # date[s]
       /\ date' = [date EXCEPT ![s] = d]
  /\ UNCHANGED <<yearEnd, line, occurrences, clock, sinceWork, connected,
                 masterLoggedIn, outputs>>
  /\ queue' = Recalculated'
  /\ forgotten' = (forgotten \/ Deactivations(queue) # {})
  /\ jumps' = jumps + 1

\* The master connects or disconnects.
Connect ==
  /\ Len(queue) <= MaxQueue
  /\ connected' = ~connected
  /\ UNCHANGED <<yearEnd, line, queue, occurrences, date, clock, sinceWork,
                 masterLoggedIn, outputs, jumps, forgotten>>

\* The clock of the system moves by n; time is what has passed of it.  The
\* entries of the queue wait for a time, on a clock that is never corrected.
Shift(n, time) ==
  /\ clock' = (clock + n) % Day
  /\ queue' = [i \in DOMAIN queue |->
                [queue[i] EXCEPT !.in = Max({MinAhead, @ - time})]]
  /\ date' = [s \in Dated |-> Clamp(MinAhead, MaxAhead, date[s] - n)]
  /\ sinceWork' = Clamp(-(Tolerance + 1), Tolerance + 1, sinceWork + n)
  /\ UNCHANGED <<yearEnd, line, occurrences, connected, masterLoggedIn,
                 outputs, forgotten>>

\* Time passes; the main loop is quick enough for what is due.
Tick ==
  /\ line = 1 /\ ~Stuck =>
       sinceWork < MaxLate /\ \A i \in DOMAIN queue : queue[i].in > -MaxLate
  /\ Shift(1, 1)
  /\ UNCHANGED jumps

\* The clock is corrected, by more than the tolerance or within it.
Correct ==
  /\ jumps < MaxJumps
  /\ \E n \in {-(Tolerance + 1), -1, 1, Tolerance + 1} :
       /\ \A s \in Dated : date[s] - n <= MaxAhead
       /\ Shift(n, 0)
  /\ jumps' = jumps + 1

\* The last month of the year begins or ends.
TurnOfYear ==
  /\ jumps < MaxJumps
  /\ yearEnd' = ~yearEnd
  /\ jumps' = jumps + 1
  /\ UNCHANGED <<line, queue, occurrences, date, clock, sinceWork, connected,
                 masterLoggedIn, outputs, forgotten>>

\* The port has been prepared, with every calculation done; a once or manual
\* date is ahead or past.
Init ==
  /\ line \in {0, 1}
  /\ yearEnd = FALSE
  /\ date \in [Dated -> {-1} \cup 1 .. MaxAhead]
  /\ clock \in 0 .. Day - 1
  /\ queue = IF line = 1 THEN Recalculated ELSE <<>>
  /\ occurrences = [s \in S |-> 0]
  /\ sinceWork = 0
  /\ connected = FALSE /\ masterLoggedIn = FALSE
  /\ outputs = [o \in 1 .. Outputs |-> 0]
  /\ jumps = 0
  /\ forgotten = FALSE

Next ==
  \/ DoWork
  \/ Disable \/ Enable \/ SetDate \/ Connect
  \/ Tick \/ Correct \/ TurnOfYear

Spec == Init /\ [][Next]_vars

\* The main loop calls doWork again and again, and time passes.
FairSpec == Spec /\ WF_vars(DoWork) /\ WF_vars(Tick)

-----------------------------------------------------------------------------
(* Properties. *)

Pending(s) ==
  {i \in DOMAIN queue : queue[i].schedule = s /\ ~queue[i].deactivate}

\* Schedules without a limit that always have a next occurrence.  (Before an
\* event with a negative offset, the event of the same day is found again
\* and lies in the past with its offset.)
Recurring ==
  {s \in S : /\ Schedules[s].limit < 0
             /\ \/ Schedules[s].type \in {"interval", "periodic"}
                \/ /\ Schedules[s].type = "astronomical"
                   /\ Schedules[s].offset >= 0}

\* An enabled timer never has two pending activations of a schedule, which
\* would double its rate from then on, and never loses the one of a
\* recurring schedule that comes before those whose calculation may throw,
\* whatever recalculates, enables or disables it.
PendingInv ==
  line = 1 =>
    /\ \A s \in S : Cardinality(Pending(s)) <= 1
    /\ \A s \in Recurring : Pending(s) # {} \/ \E r \in Refusing : r <= s

\* An output that a schedule with a duration has set to High has a pending
\* deactivation, unless it has been cleared: of overlapping activations the
\* last one still ends.
NeverStuckHigh ==
  line = 1 /\ ~forgotten /\ (\E o \in DOMAIN outputs : outputs[o] = 1)
    => Deactivations(queue) # {}

\* The schedule is activated from the queue.
Activate(s) ==
  /\ WorkQueue
  /\ Due(queue) /\ Head(queue).schedule = s /\ ~Head(queue).deactivate
  /\ ~ClockCorrected

\* As long as the timer stays enabled and its recalculation is not refused,
\* every recurring schedule before those triggers again and again, whatever
\* else is in the queue and however often the master connects.
Recurs ==
  <>[](line = 1 /\ ~Stuck) =>
    \A s \in Recurring :
      []<><<Activate(s)>>_vars \/ \E r \in Refusing : r <= s

\* An output that is High becomes Low again, unless the deactivation has
\* been cleared or the timer is disabled.
SwitchedOff ==
  \A o \in 1 .. Outputs :
    outputs[o] = 1 ~> outputs[o] = 0 \/ forgotten \/ line = 0

\* What a comment promises of an enabled timer, "the output ports will be
\* set to Low when the deactivation time has passed" (TimerPort.h:36):
\* the deactivation stays pending.
DeactivationStays ==
  line = 1 /\ (\E o \in DOMAIN outputs : outputs[o] = 1)
    => Deactivations(queue) # {}
=============================================================================
