------------------------------- MODULE TestPort -------------------------------
(***************************************************************************)
(* A Test port: it compares the properties of other ports with what is     *)
(* expected, in intervals that are counted in time or in iterations of the *)
(* main loop, and may end the program.                                     *)
(***************************************************************************)
EXTENDS Integers

CONSTANT
  TestConfigs   \* see TestType

VARIABLES
  test,         \* the configuration
  testLine,
  testFrame,    \* currentFrame
  age,          \* since lastExecution, Never if that is 0
  matches,      \* the ports are as the test cases expect them to be
  result,       \* of the program, as far as the port decides it
  waited,       \* history: time or iterations since doWork saw the port Low, or tested
  tested        \* history: the tests have run in the last step

testVars == <<test, testLine, testFrame, age, matches, result, waited, tested>>

TestType ==
  [base : {"time", "frames"}, interval : 1 .. 2, warnOnFailure : BOOLEAN, exitAfterTest : BOOLEAN]

ASSUME TestAssumption == TestConfigs \subseteq TestType

Never == -1
\* bound: longer times and later iterations are not told apart
AgeMax == 3
Older(a) == IF a = Never \/ a = AgeMax THEN a ELSE a + 1

TestTypeOK ==
  /\ test \in TestType
  /\ testLine \in {0, 1}
  /\ testFrame \in 0 .. AgeMax
  /\ age \in Never .. AgeMax
  /\ matches \in BOOLEAN
  /\ result \in {"runs", "failed", "shutdown"}
  /\ waited \in 0 .. AgeMax
  /\ tested \in BOOLEAN

TestInit ==
  /\ test \in TestConfigs
  /\ testLine = 1
  /\ testFrame = 0
  /\ age = Never
  /\ matches = TRUE
  /\ result = "runs"
  /\ waited = 0
  /\ tested = FALSE

-----------------------------------------------------------------------------
(* doWork *)

\* now - interval > lastExecution: the difference of the first iterations wraps
\* around, the clock is always far ahead of the interval.
Wraps == test.base = "frames" /\ testFrame' < test.interval
ExecutionDue(a) ==
  \/ Wraps
  \/ a = Never /\ (test.base = "frames" => testFrame' > test.interval)
  \/ a > test.interval

\* switched off: starts over when the port is switched on again
ForgetExecution ==
  /\ testLine = 0
  /\ age' = Never
  /\ waited' = 0
  /\ tested' = FALSE
  /\ UNCHANGED result

NotDue(a, w) ==
  /\ testLine = 1
  /\ ~ExecutionDue(a)
  /\ age' = a
  /\ waited' = w
  /\ tested' = FALSE
  /\ UNCHANGED result

\* mutant of FirstExecution: tests as soon as the port is High
FirstExecutionTests(a, w) ==
  /\ testLine = 1
  /\ ExecutionDue(a)
  /\ a = Never
  /\ age' = 0
  /\ waited' = w
  /\ tested' = TRUE
  /\ UNCHANGED result

\* the first iteration only starts the interval
FirstExecution(a, w) ==
  /\ testLine = 1
  /\ ExecutionDue(a)
  /\ a = Never
  /\ age' = 0
  /\ waited' = w
  /\ tested' = FALSE
  /\ UNCHANGED result

RunTests(a) ==
  /\ testLine = 1
  /\ ExecutionDue(a)
  /\ a # Never
  /\ age' = 0
  /\ waited' = 0
  /\ tested' = TRUE
  /\ result' = IF ~matches /\ ~test.warnOnFailure THEN "failed"
               ELSE IF test.exitAfterTest THEN "shutdown" ELSE result

\* a and w are the age and the waiting at the time of the call
TestWork(a, w) == ForgetExecution \/ NotDue(a, w) \/ FirstExecution(a, w) \/ RunTests(a)

TimedDoWork ==
  /\ result = "runs"
  /\ test.base = "time"
  /\ testFrame' = testFrame
  /\ TestWork(age, waited)
  /\ UNCHANGED <<test, testLine, matches>>

\* The iteration is counted before the ports are called.
FrameDoWork ==
  /\ result = "runs"
  /\ test.base = "frames"
  /\ testFrame' = Older(testFrame)
  /\ TestWork(Older(age), Older(waited))
  /\ UNCHANGED <<test, testLine, matches>>

-----------------------------------------------------------------------------
SwitchTest ==
  /\ result = "runs"
  /\ testLine' = 1 - testLine
  /\ tested' = FALSE
  /\ UNCHANGED <<test, testFrame, age, matches, result, waited>>

PortsChange ==
  /\ result = "runs"
  /\ matches' = ~matches
  /\ tested' = FALSE
  /\ UNCHANGED <<test, testLine, testFrame, age, result, waited>>

TestTick ==
  /\ result = "runs"
  /\ test.base = "time"
  /\ age' = Older(age)
  /\ waited' = Older(waited)
  /\ tested' = FALSE
  /\ UNCHANGED <<test, testLine, testFrame, matches, result>>

\* the program has ended and is started again
TestRestart ==
  /\ result # "runs"
  /\ testLine' = 1
  /\ testFrame' = 0
  /\ age' = Never
  /\ result' = "runs"
  /\ waited' = 0
  /\ tested' = FALSE
  /\ UNCHANGED <<test, matches>>

TestNext == TimedDoWork \/ FrameDoWork \/ SwitchTest \/ PortsChange \/ TestTick \/ TestRestart

\* the main loop comes back to the port, and time goes on
TestFairness == WF_testVars(TimedDoWork) /\ WF_testVars(FrameDoWork) /\ WF_testVars(TestTick)
TestSpec == TestInit /\ [][TestNext]_testVars /\ TestFairness

-----------------------------------------------------------------------------
(* Properties *)

\* Tests wait for the interval, in time, from the moment on doWork saw the port
\* Low or has tested, however the port is switched (doWork).
TestsWait == [][test.base = "time" /\ tested' => waited > test.interval]_testVars

\* A port that stays High tests again and again, unless it has ended the
\* program, with intervals of both kinds (doWork).
KeepsTesting == []<>(testLine = 0) \/ []<>(result # "runs") \/ []<>tested
=============================================================================
