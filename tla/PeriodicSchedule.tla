-------------------------- MODULE PeriodicSchedule --------------------------
(***************************************************************************)
(* The PERIODIC branch of TimerPort::calculateNextOccurrence: the next     *)
(* moment that fits a pattern of allowed seconds, minutes, hours, days,    *)
(* months and weekdays, on a calendar whose sizes are constants.           *)
(*                                                                         *)
(* A chain of triggers is modelled: a trigger that is noticed at the       *)
(* moment itself or a second later, and the calculation of the next one.   *)
(***************************************************************************)
EXTENDS Integers, Sequences, FiniteSetsExt

CONSTANTS
  SecondMax, MinuteMax, HourMax, \* last values, from 0
  MonthMax,                      \* last month, from 1
  MonthDays,                     \* days of each month, by whether it leaps
  WeekLength,                    \* days of a week
  MaxIter,                       \* days that are tried until the weekday fits
  FirstYear,                     \* the year a chain of triggers starts in
  YearMax,                       \* bound: no trigger after this year
  Patterns                       \* schedules to look at

Units == <<"second", "minute", "hour", "day", "month", "year">>

DaysOfMonth(year, month) == MonthDays[year % 2 = 0][month]

Shortest == Min({DaysOfMonth(y, m) : y \in 1 .. 2, m \in 1 .. MonthMax})
Longest == Max({DaysOfMonth(y, m) : y \in 1 .. 2, m \in 1 .. MonthMax})

Pattern ==
  [second : (SUBSET (0 .. SecondMax)) \ {{}},
   minute : (SUBSET (0 .. MinuteMax)) \ {{}},
   hour : (SUBSET (0 .. HourMax)) \ {{}},
   day : (SUBSET (1 .. Longest)) \ {{}},
   month : (SUBSET (1 .. MonthMax)) \ {{}},
   weekday : (SUBSET (0 .. WeekLength - 1)) \ {{}}]

ASSUME PatternAssumption == Patterns \subseteq Pattern /\ Patterns # {}

ASSUME CalendarAssumption ==
  /\ SecondMax \in Nat /\ MinuteMax \in Nat /\ HourMax \in Nat
  /\ MonthMax \in Nat \ {0} /\ WeekLength \in Nat \ {0}
  /\ MonthDays \in [BOOLEAN -> [1 .. MonthMax -> Nat \ {0}]]
  /\ MaxIter \in Nat /\ FirstYear \in Nat /\ YearMax \in Nat

\* Every combination of values in range, days that do not exist included.
DateTimes(years) ==
  [second : 0 .. SecondMax, minute : 0 .. MinuteMax, hour : 0 .. HourMax,
   day : 1 .. Longest, month : 1 .. MonthMax, year : years]

Exists(t) == t.day <= DaysOfMonth(t.year, t.month)

Moments == {t \in DateTimes(Nat) : Exists(t)}

DayNumber(t) ==
  t.day
    + MapThenSumSet(LAMBDA m : DaysOfMonth(t.year, m), 1 .. t.month - 1)
    + MapThenSumSet(LAMBDA y : MapThenSumSet(LAMBDA m : DaysOfMonth(y, m),
                                             1 .. MonthMax),
                    1 .. t.year - 1)

Weekday(t) == DayNumber(t) % WeekLength

-----------------------------------------------------------------------------
(* The algorithm. *)

\* correctValues: a component beyond its last value is carried upwards.
Carry(t) ==
  LET minute == IF t.second > SecondMax
                THEN [t EXCEPT !.second = 0, !.minute = @ + 1] ELSE t
      hour == IF minute.minute > MinuteMax
              THEN [minute EXCEPT !.minute = 0, !.hour = @ + 1] ELSE minute
      day == IF hour.hour > HourMax
             THEN [hour EXCEPT !.hour = 0, !.day = @ + 1] ELSE hour
      month == IF day.day > DaysOfMonth(day.year, day.month)
               THEN [day EXCEPT !.day = 1, !.month = @ + 1] ELSE day
  IN IF month.month > MonthMax
     THEN [month EXCEPT !.month = 1, !.year = @ + 1] ELSE month

\* A day is only found below the number of days of the month.
Limit(unit, t) ==
  CASE unit = "second" -> SecondMax + 1
    [] unit = "minute" -> MinuteMax + 1
    [] unit = "hour" -> HourMax + 1
    [] unit = "day" -> DaysOfMonth(t.year, t.month)
    [] unit = "month" -> MonthMax + 1

NextPossibleValue(allowed, current, limit) ==
  LET later == {i \in allowed : current <= i /\ i < limit}
  IN IF later # {}
     THEN [value |-> Min(later), rollover |-> FALSE,
           changed |-> Min(later) # current]
     ELSE [value |-> Min(allowed), rollover |-> TRUE, changed |-> FALSE]

\* The first k components start again with their first possible value.
FirstPossibleValues(p, t, k) ==
  [u \in DOMAIN t |->
     IF \E i \in 1 .. k : Units[i] = u THEN Min(p[u]) ELSE t[u]]

\* mutant of Advance: a change does not reset the lower components
AdvanceWithoutReset(p, t, k) ==
  LET unit == Units[k]
      next == NextPossibleValue(p[unit], t[unit], Limit(unit, t))
      chosen == [t EXCEPT ![unit] = next.value]
  IN IF next.rollover
     THEN FirstPossibleValues(
            p, Carry([chosen EXCEPT ![Units[k + 1]] = @ + 1]), k - 1)
     ELSE chosen

\* Takes the k-th component of t to its next possible value.
Advance(p, t, k) ==
  LET unit == Units[k]
      next == NextPossibleValue(p[unit], t[unit], Limit(unit, t))
      chosen == [t EXCEPT ![unit] = next.value]
      carried == IF next.rollover
                 THEN Carry([chosen EXCEPT ![Units[k + 1]] = @ + 1])
                 ELSE chosen
  IN IF next.rollover \/ next.changed
     THEN FirstPossibleValues(p, carried, k - 1)
     ELSE carried

\* The day's rollover asks for the days of the month after the last one,
\* which the library refuses with an exception, as it does for a date that
\* does not exist.
BeyondYear(p, t) ==
  /\ t.month = MonthMax
  /\ NextPossibleValue(p.day, t.day, Limit("day", t)).rollover

None == [kind |-> "none"]
NoDate == [kind |-> "refused"]
Found(t) == [kind |-> "found", time |-> t]

\* The date that an iteration arrives at, and where the next one begins.
DateFrom(p, t) == Advance(p, Advance(p, t, 4), 5)

AfterDate(p, date) == FirstPossibleValues(p, Carry([date EXCEPT !.day = @ + 1]), 3)

\* The loop over dates, with a number of iterations left.
SearchDate(p) ==
  LET search[left \in 0 .. MaxIter] ==
        [t \in Moments |->
           LET date == DateFrom(p, t)
           IN IF left = 0 THEN None
              ELSE IF BeyondYear(p, t) \/ ~Exists(date) THEN NoDate
              ELSE IF Weekday(date) \in p.weekday THEN Found(date)
              ELSE search[left - 1][AfterDate(p, date)]]
  IN search

NextOccurrence(p, now) ==
  LET start == Carry([now EXCEPT !.second = @ + 1])
      clock == Advance(p, Advance(p, Advance(p, start, 1), 2), 3)
  IN SearchDate(p)[MaxIter][clock]

-----------------------------------------------------------------------------
VARIABLES
  pattern, \* the schedule
  now,     \* when its next occurrence has been calculated
  next     \* what has been calculated

scheduleVars == <<pattern, now, next>>

ScheduleInit ==
  /\ pattern \in Patterns
  /\ now \in {t \in DateTimes({FirstYear}) : Exists(t)}
  /\ next = NextOccurrence(pattern, now)

\* doWork has dequeued the notification, late seconds after its time.
Trigger(late) ==
  /\ next.kind = "found"
  /\ next.time.year <= YearMax
  /\ now' = IF late THEN Carry([next.time EXCEPT !.second = @ + 1])
            ELSE next.time
  /\ next' = NextOccurrence(pattern, now')
  /\ UNCHANGED pattern

ScheduleNext == \E late \in BOOLEAN : Trigger(late)

ScheduleSpec == ScheduleInit /\ [][ScheduleNext]_scheduleVars

-----------------------------------------------------------------------------
(* What a calculation promises. *)

\* t is later than u: the highest component in which they differ is greater.
After(t, u) ==
  \E k \in 1 .. 6 :
    /\ t[Units[k]] > u[Units[k]]
    /\ \A i \in k + 1 .. 6 : t[Units[i]] = u[Units[i]]

Matches(p, t) ==
  /\ Exists(t)
  /\ Weekday(t) \in p.weekday
  /\ \A u \in (DOMAIN p) \ {"weekday"} : t[u] \in p[u]

\* The moments that fit the pattern, without those of a month's last day.
Fitting(p, years) ==
  {t \in [second : p.second, minute : p.minute, hour : p.hour,
          day : p.day, month : p.month, year : years] :
     Matches(p, t) /\ t.day < DaysOfMonth(t.year, t.month)}

\* The state has moments of the calendar, and nothing but the three kinds
\* of results: a found moment exists on the calendar.
ScheduleTypeOK ==
  /\ pattern \in Patterns
  /\ now \in Moments
  /\ next \in {None, NoDate} \/ (next.kind = "found" /\ next.time \in Moments)

\* Every month has the first of the allowed days.
InEveryMonth == Min(pattern.day) <= Shortest

\* The first allowed month has the allowed days that are ever found.
InFirstMonth ==
  \A d \in pattern.day, y \in 1 .. 2 :
    d < Longest => d <= DaysOfMonth(y, Min(pattern.month))

\* TimerPort.h: a periodic schedule "executes at matching points in time
\* specified by a pattern", if the pattern has a day that every month has.
ExecutesAtMatchingPoints ==
  next.kind = "found" /\ InEveryMonth => Matches(pattern, next.time)

\* The calculated moment fits the pattern in every component and lies in the
\* future, over every rollover of a component into the next, if every month
\* has the first of the allowed days and the first allowed month all of them.
FoundFits ==
  next.kind = "found" /\ InEveryMonth /\ InFirstMonth =>
    Matches(pattern, next.time) /\ After(next.time, now)

\* No moment that fits the pattern lies between now and the calculated one,
\* unless it is on the last day of a month: resetting the lower components
\* on a rollover or a change loses nothing, and neither does the search for
\* the weekday, if the first allowed month has the allowed days.
NoneSkipped ==
  next.kind = "found" /\ InFirstMonth =>
    \A t \in Fitting(pattern, now.year .. next.time.year) :
      ~(After(t, now) /\ After(next.time, t))

\* A date is only refused for a pattern without a day below the last one of
\* every month, or when a day has to be rolled over from the last month.
FailsOnlyAtTheEnd ==
  next.kind = "refused" /\ InFirstMonth =>
    \/ Min(pattern.day) >= Shortest
    \/ now.month = MonthMax
    \/ MonthMax \in pattern.month

\* Some date fits before the iterations are used up.
NeverGivesUp == next.kind # "none"

\* The calculation finds the first moment of the pattern.
FindsTheFirst == FoundFits /\ NoneSkipped /\ FailsOnlyAtTheEnd
=============================================================================
