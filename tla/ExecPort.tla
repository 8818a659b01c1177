------------------------------ MODULE ExecPort ------------------------------
(***************************************************************************)
(* The Exec port: the main thread starts a process when the line goes High *)
(* and kills it when it runs for too long; a waiter thread copies the      *)
(* output of the process and notices that it has ended.  The two threads   *)
(* share processPID and hasTerminated without a lock.                      *)
(*                                                                         *)
(* This is the build for Linux.  Process ids are given in order and never  *)
(* used twice, so processHandle always is the last one given.              *)
(***************************************************************************)
EXTENDS Integers

CONSTANTS
  MaxStarts,   \* bound: processes that can be started
  KillTime,    \* setting, in ticks, 0 for never
  AgeCap,      \* bound: ages are counted up to this
  ExitCodesFit \* every exit code is in the range of the ExitCodePort

Processes == 1 .. MaxStarts

ASSUME StartAssumption == MaxStarts \in Nat \ {0}
ASSUME KillAssumption == KillTime \in Nat /\ AgeCap \in Nat /\ KillTime < AgeCap
ASSUME ExitAssumption == ExitCodesFit \in BOOLEAN

VARIABLES
  main,            \* where the main thread is in doWork, "idle" outside
  waiter,          \* where the waiter thread is, "idle" if it does not run
  reading,         \* the process whose output the waiter copies
  line,            \* the port's line is High
  startRequested,
  hasTerminated,
  processPID,      \* 0 if no process is known
  processHandle,   \* 0 before the first start
  exitError,       \* the ExitCodePort is in an error state
  startAge,        \* time since lastStartTime was set
  process,         \* the operating system's view of each process
  killed           \* the port has killed a process

mainVars == <<main, line, startRequested, exitError, startAge>>
waiterVars == <<waiter, reading>>
vars == <<mainVars, waiterVars, hasTerminated, processPID, processHandle, process, killed>>

TypeOK ==
  /\ main \in {"idle", "process", "launched"}
  /\ waiter \in {"idle", "check", "wait", "read", "after", "cleanup"}
  /\ reading \in 0 .. MaxStarts
  /\ line \in BOOLEAN
  /\ startRequested \in BOOLEAN
  /\ hasTerminated \in BOOLEAN
  /\ processPID \in 0 .. MaxStarts
  /\ processHandle \in 0 .. MaxStarts
  /\ exitError \in BOOLEAN
  /\ startAge \in 0 .. AgeCap
  /\ process \in [Processes -> {"unborn", "running", "zombie", "reaped"}]
  /\ killed \in BOOLEAN

Init ==
  /\ main = "idle"
  /\ waiter = "idle"
  /\ reading = 0
  /\ line = FALSE
  /\ startRequested = FALSE
  /\ hasTerminated = FALSE
  /\ processPID = 0
  /\ processHandle = 0
  /\ exitError = FALSE
  /\ startAge = AgeCap
  /\ process = [p \in Processes |-> "unborn"]
  /\ killed = FALSE

-----------------------------------------------------------------------------
(* Helpers *)

With(state) == {p \in Processes : process[p] = state}

\* Poco::Process::isRunning: also true for a defunct process
IsRunning(p) == p \in With("running") \cup With("zombie")

\* setLine(0): refused while the handle's process is there
LineLow(pid) == line' = (line /\ pid # 0 /\ IsRunning(processHandle))

Older(age) == IF age < AgeCap THEN age + 1 ELSE age

-----------------------------------------------------------------------------
(* The main thread *)

\* setLine, called for the master or by another port
SetLine ==
  /\ main = "idle"
  /\ \/ /\ line' = TRUE
        /\ startRequested' = (startRequested \/ ~line)
     \/ /\ LineLow(processPID)
        /\ UNCHANGED startRequested
  /\ UNCHANGED <<main, exitError, startAge, waiterVars, hasTerminated,
                 processPID, processHandle, process, killed>>

\* doWork starts: the waiter may have seen the end of the process.  An exit
\* code the ExitCodePort does not accept leaves doWork with an exception.
NoticeEnd ==
  /\ main = "idle"
  /\ hasTerminated' = FALSE
  /\ \/ /\ hasTerminated
        /\ processPID' = 0
        /\ \/ /\ main' = "process"
              /\ LineLow(0)
              /\ exitError' = FALSE
           \/ /\ ~ExitCodesFit
              /\ main' = "idle"
              /\ UNCHANGED <<line, exitError>>
     \/ /\ ~hasTerminated
        /\ main' = "process"
        /\ UNCHANGED <<processPID, line, exitError>>
  /\ UNCHANGED <<startRequested, startAge, waiterVars, processHandle,
                 process, killed>>

Overdue == KillTime > 0 /\ startAge > KillTime

\* A process that has ended meanwhile cannot be killed: that exception leaves
\* doWork as the other end of a process does.
LetRun ==
  /\ main = "process"
  /\ processPID # 0
  /\ ~IsRunning(processPID) \/ ~Overdue
  /\ main' = "idle"
  /\ UNCHANGED <<line, startRequested, exitError, startAge, waiterVars,
                 hasTerminated, processPID, processHandle, process, killed>>

Kill ==
  /\ main = "process"
  /\ processPID # 0
  /\ IsRunning(processPID)
  /\ Overdue
  /\ process' = [process EXCEPT ![processPID] = "zombie"]
  /\ processPID' = 0
  /\ killed' = TRUE
  /\ exitError' = TRUE
  /\ LineLow(0)
  /\ main' = "idle"
  /\ UNCHANGED <<startRequested, startAge, waiterVars, hasTerminated,
                 processHandle>>

\* no process and nothing to start
StayIdle ==
  /\ main = "process"
  /\ processPID = 0
  /\ ~startRequested
  /\ main' = "idle"
  /\ UNCHANGED <<line, startRequested, exitError, startAge, waiterVars,
                 hasTerminated, processPID, processHandle, process, killed>>

\* the program does not exist or cannot be launched
FailToLaunch ==
  /\ main = "process"
  /\ processPID = 0
  /\ startRequested
  /\ startRequested' = FALSE
  /\ exitError' = TRUE
  /\ LineLow(0)
  /\ main' = "idle"
  /\ UNCHANGED <<startAge, waiterVars, hasTerminated, processPID,
                 processHandle, process, killed>>

\* Bound: the last process that can be started has not been started.
Launch ==
  /\ main = "process"
  /\ processPID = 0
  /\ startRequested
  /\ processHandle < MaxStarts
  /\ startRequested' = FALSE
  /\ processHandle' = processHandle + 1
  /\ processPID' = processHandle'
  /\ process' = [process EXCEPT ![processHandle'] = "running"]
  /\ main' = "launched"
  /\ UNCHANGED <<line, exitError, startAge, waiterVars, hasTerminated, killed>>

\* Poco::Thread::start throws if the thread still runs; the exception is
\* handled like one of the launch.
StartWaiter ==
  /\ main = "launched"
  /\ main' = "idle"
  /\ \/ /\ waiter = "idle"
        /\ waiter' = "check"
        /\ startAge' = 0
        /\ UNCHANGED <<line, exitError>>
     \/ /\ waiter # "idle"
        /\ exitError' = TRUE
        /\ LineLow(processPID)
        /\ UNCHANGED <<waiter, startAge>>
  /\ UNCHANGED <<startRequested, reading, hasTerminated, processPID,
                 processHandle, process, killed>>

-----------------------------------------------------------------------------
(* The waiter thread *)

\* the loop's condition, processPID > 0
WaiterCheck ==
  /\ waiter = "check"
  /\ waiter' = IF processPID > 0 THEN "wait" ELSE "after"
  /\ UNCHANGED <<mainVars, reading, hasTerminated, processPID, processHandle, process, killed>>

\* mutant of WaiterWait: Poco's isRunning, which is true for defunct processes
WaiterPoll ==
  /\ waiter = "wait"
  /\ waiter' = IF IsRunning(processPID) THEN "read" ELSE "after"
  /\ reading' = processHandle
  /\ UNCHANGED <<mainVars, hasTerminated, processPID, processHandle,
                 process, killed>>

\* mutant of WaiterWait: the result of waitpid is not looked at
WaiterGuess ==
  /\ waiter = "wait"
  /\ waiter' \in {"read", "after"}
  /\ reading' = processHandle
  /\ UNCHANGED <<mainVars, hasTerminated, processPID, processHandle,
                 process, killed>>

\* waitpid(processPID, ..., WNOHANG): the process is read again and may be 0
\* by now, which stands for any child
WaiterWait ==
  /\ waiter = "wait"
  /\ LET candidates == IF processPID = 0 THEN Processes ELSE {processPID}
         zombies == candidates \cap With("zombie")
         running == candidates \cap With("running")
     IN \/ /\ \E z \in zombies : process' = [process EXCEPT ![z] = "reaped"]
           /\ waiter' = "after"
           /\ UNCHANGED reading
        \/ /\ zombies = {}
           /\ running # {}
           /\ waiter' = "read"
           /\ reading' = processHandle
           /\ UNCHANGED process
        \/ /\ zombies = {}
           /\ running = {}
           /\ waiter' = "after"
           /\ UNCHANGED <<reading, process>>
  /\ UNCHANGED <<mainVars, hasTerminated, processPID, processHandle, killed>>

\* copyToString returns when the process has closed its output, at its end or
\* before
WaiterRead ==
  /\ waiter = "read"
  /\ waiter' = "check"
  /\ UNCHANGED <<mainVars, reading, hasTerminated, processPID, processHandle, process, killed>>

\* the process has ended, or the port has killed it
WaiterAfter ==
  /\ waiter = "after"
  /\ waiter' = "cleanup"
  /\ hasTerminated' = (hasTerminated \/ processPID > 0)
  /\ UNCHANGED <<mainVars, reading, processPID, processHandle, process, killed>>

\* the streams are closed and the thread ends
WaiterCleanup ==
  /\ waiter = "cleanup"
  /\ waiter' = "idle"
  /\ UNCHANGED <<mainVars, reading, hasTerminated, processPID, processHandle, process, killed>>

-----------------------------------------------------------------------------
(* The operating system *)

EndOf(p) ==
  /\ process[p] = "running"
  /\ process' = [process EXCEPT ![p] = "zombie"]
  /\ UNCHANGED <<mainVars, waiterVars, hasTerminated, processPID,
                 processHandle, killed>>

Tick ==
  /\ startAge' = Older(startAge)
  /\ UNCHANGED <<main, line, startRequested, exitError, waiterVars,
                 hasTerminated, processPID, processHandle, process, killed>>

DoWork ==
  NoticeEnd \/ LetRun \/ Kill \/ StayIdle \/ FailToLaunch \/ Launch \/ StartWaiter

Waiter ==
  WaiterCheck \/ WaiterWait \/ WaiterRead \/ WaiterAfter \/ WaiterCleanup

Next == SetLine \/ DoWork \/ Waiter \/ (\E p \in Processes : EndOf(p)) \/ Tick

Spec == Init /\ [][Next]_vars

\* Both threads run; the waiter is only held up by a process that runs, and
\* programs end by themselves.
FairSpec ==
  /\ Spec
  /\ WF_vars(DoWork)
  /\ WF_vars(WaiterCheck \/ WaiterWait \/ WaiterAfter \/ WaiterCleanup)
  /\ WF_vars(WaiterRead /\ reading \notin With("running"))
  /\ \A p \in Processes : WF_vars(EndOf(p))

-----------------------------------------------------------------------------
(* Properties *)

\* Two instances of the program never run at the same time, as long as KillTime
\* has not cut one short: a start waits until the waiter has seen the end of the
\* process before.
OneProcess == ~killed => \A p, q \in With("running") : p = q

\* What the waiter reports has happened, as long as KillTime has not interfered:
\* with hasTerminated set the process has ended, and its exit code has been
\* fetched.
EndIsReal == hasTerminated /\ ~killed => processPID \in With("reaped")

\* The waiter thread ends once the process has.
WaiterEnds == waiter = "check" ~> waiter = "idle"
=============================================================================
