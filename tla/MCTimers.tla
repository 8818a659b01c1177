------------------------------ MODULE MCTimers ------------------------------
(***************************************************************************)
(* Instances of TimerPort and PeriodicSchedule for TLC, in one             *)
(* specification: a behaviour is one of either, the other stays at an      *)
(* initial state.                                                          *)
(*                                                                         *)
(* The timer: an interval that triggers again before its deactivation, a   *)
(* date set by the user, a login and a daily schedule.  The calendar: a    *)
(* year of three months, the second of which is shorter than the others    *)
(* and leaps, and every pattern of a few allowed values.                   *)
(***************************************************************************)
EXTENDS TimerPort, PeriodicSchedule

Schedule(type, duration) ==
  [type |-> type, action |-> "high", limit |-> -1, duration |-> duration,
   every |-> 2, at |-> 1, offset |-> 0]

MCSchedules ==
  <<Schedule("interval", 3), [Schedule("manual", 1) EXCEPT !.limit = 2],
    Schedule("login", 1), Schedule("periodic", 1)>>

MCMonthDays == [leap \in BOOLEAN |-> IF leap THEN <<4, 3, 4>> ELSE <<4, 2, 4>>]

MCPatterns ==
  {p \in Pattern :
     /\ 0 \in p.minute
     /\ 1 \in p.second
     /\ Cardinality(p.day) <= 2
     /\ 0 \in p.hour
     /\ Cardinality(p.month) <= 2
     /\ p.weekday # {0}}

-----------------------------------------------------------------------------
VARIABLE which   \* what a behaviour is about

TimersInit ==
  /\ which \in {"timer", "schedule"}
  /\ Init
  /\ which # "timer" => line = 0 /\ clock = 0 /\ \A s \in Dated : date[s] = -1
  /\ pattern \in IF which = "schedule" THEN Patterns ELSE {CHOOSE p \in Patterns : TRUE}
  /\ now \in IF which = "schedule" THEN {t \in DateTimes({FirstYear}) : Exists(t)}
             ELSE {CHOOSE t \in DateTimes({FirstYear}) : Exists(t)}
  /\ next = NextOccurrence(pattern, now)

\* a chain of triggers ends with a date that is not found or beyond the bound
ChainEnds == which = "schedule" /\ (next.kind = "found" => next.time.year > YearMax) /\ UNCHANGED scheduleVars

TimersNext ==
  /\ \/ which = "timer" /\ Next /\ UNCHANGED scheduleVars
     \/ which = "schedule" /\ (ScheduleNext \/ ChainEnds) /\ UNCHANGED vars
  /\ UNCHANGED which

TimersFairness == WF_vars(which = "timer" /\ DoWork) /\ WF_vars(which = "timer" /\ Tick)
TimersSpec == TimersInit /\ [][TimersNext]_<<which, vars, scheduleVars>> /\ TimersFairness

\* The variables have their types, and every schedule its one activation.
TimersInv == TypeOK /\ ScheduleTypeOK /\ PendingInv

\* Every schedule goes on: a recurring one triggers again and again, and the
\* search for a date does not end for the number of its iterations.
GoesOn == Recurs /\ []NeverGivesUp
=============================================================================
