# TLA+ models of OpenHAT

OpenHAT is a home automation server, `openhatd`. It runs *ports* (digital
lines, dials, selections, streams, and composite ones such as timers, windows
or processes) in one loop, persists their state and presents them to a master
over the OPDI protocol. Plugins connect ports to devices on the network. This
directory holds TLA+ modules of its core and of its ports, TLC configurations
that model-check them on small instances, and proofs that TLAPS checks for every
value of the constants.

Every definition is translated from the C++ code; `PROJECT.json` (`map`) names
the lines it stands for. Where a comment, a `readme.txt` or a page of the
documentation promises something the code does not do, the model follows the
code; the disagreements are listed under [Findings](#findings).

Paths below are relative to `src/openhatd/` unless they begin with `src/` or
`docs/`.

## The system

### Components and their state

| Component | State | Operations |
|---|---|---|
| **Main loop** `src/OPDI.cpp`, `src/AbstractOpenHAT.cpp`, `src/LinuxOpenHAT.cpp` | `portSchedules` (time, port), `shutdownRequested`, suggested sleep time | `doWork`, the accept loop of `setupTCP`, `shutdown`, `shutdownInternal`, the signal handler |
| **Port base classes** `src/OPDI_Ports.cpp`, `src/AbstractOpenHAT.cpp` | value, mode, error, the value expressions see, refresh flag and time, OnChange lists | `setLine`, `setValue`, `setPosition`, `setMode`, `setResolution`, `setReference`, `setError`, `doWork`, `handleStateChange`, the commands of a master, preparation at start |
| **Persistent configuration** `src/AbstractOpenHAT.cpp` | property map in memory, its file, time of the last save | `persist`, `savePersistentConfig`, `getConfigForState`, start |
| **Signal ports** (Logic, Pulse, Trigger, Counter) `src/Ports.cpp` | own line, pulse state and its time, remembered inputs, counter and its time | `doWork`, `setLine`, `doIncrement` |
| **Select ports** (Selector, SceneSelect, ErrorDetector) `src/Ports.cpp` | line, `positionSet` | `doWork`, `setLine`, `setPosition`, applying a scene file |
| **Fader, File, Aggregator, InfluxDB, Test, Assignment** `src/Ports.cpp` | progress and resolved values; reload flag; collected values and errors; data set and thread; counters | `doWork`, `setLine`; File has a watcher, InfluxDB a thread |
| **ExpressionPort** `src/ExpressionPort.cpp` | iterations left, deactivation and fallback value | `setLine`, `doWork`, `setOutputPorts`; evaluation by an external library |
| **TimerPort** `src/TimerPort.cpp` | schedules with their occurrences, a queue of notifications ordered by time, connection status | `doWork`, `setLine`, `recalculateSchedules`, `calculateNextOccurrence`, `ManualSchedulePort::setPosition` |
| **ExecPort** `src/ExecPort.cpp` | line, pending start, process id, termination flag, start time; a waiter thread | `setLine`, `doWork`, `run` of the waiter, the operating system |
| **WindowPlugin** `plugins/WindowPlugin` | current and target state, two timers, selected position, lines of the motor, error and status ports | `doWork` (state machine of one of two control modes, then the target policy), `setPosition`, `setCurrentState` |
| **MQTTPlugin** `plugins/MQTTPlugin` | a queue of notifications, the connection, and for every port a mailbox (`value`, `valueSet`, `lastReceiveTime`, `lastQueryTime`) | work thread, callbacks of the client library (`handle_payload`), `doWork` and setters of six classes of device ports and the Event port |
| **FritzBoxPlugin**, **FroniusPlugin** | a queue of requests, session ID, for every port an answer and its flag | worker thread with login, `doWork` of five kinds of FritzBox ports and of the Fronius ports, `setLine` of the switch |
| **WeatherPlugin** | for every gauge the text that was published last, time of the last valid one | a thread that fetches, `doWork` and `extract` of the gauge |
| **Session** `src/LinuxOpenHAT.cpp`, `src/OPDI.cpp` | connected master, idle timeout, buffers | handshake, send and receive with a timeout; the protocol itself is a submodule |
| **ArducomPlugin, WebServerPlugin, rpi plugins, Logger and SerialStreaming port, Windows build** | see [Not modelled](#not-modelled) | |

### How they interact

* The **main thread** calls the `doWork` of every port that is due. A port calls
  the setters of others directly, and reads them directly; a port in an error
  state *throws* when it is read, and the exception leaves the reader in the
  middle of its work.
* A port whose state changes sets the ports of its **OnChange lists** to High by
  nested calls, which may come back to it. What is changed by the user and what
  is changed internally have separate lists.
* `OPDI::shutdown` only sets a flag, which the loop looks at when
  `OPDI::doWork` is entered. A signal calls it too, but what happens next depends
  on where the signal arrives.
* Setters persist the state of persistent ports, which may write the file.
* The master's messages are handled by the same thread, between two calls of
  `doWork`. Masters learn of changes by refresh messages, one a second at most.
* **Threads**: the waiter of ExecPort shares `processPID` and `hasTerminated` with
  the main thread without a lock; the watcher of a File port sets a flag; the
  InfluxDB port lends its data to a thread. Those of the plugins leave values in
  a *mailbox* of the port, which its `doWork` empties, and take orders from a
  queue. Some classes use a mutex for the mailbox, some only for a part of it.

### What is hard

* **Scheduling**: a table sorted by time, rescheduling relative to the end of
  work, an exception in the middle of an iteration, a cast to a byte.
* **Cascades of changes** through cyclic lists, cut short by exceptions.
* **State machines under a long sequence of commands**: a window in every one
  of its 14 states may get a new target, lose a sensor, be forced or reset; a
  fader, a pulse, an expression with a limit are switched at any moment.
* **Ports that are connected to each other**: Selector ports set the port that
  sets them; a Trigger port watches the Logic port that it changes.
* **Two threads without a lock** around a process that may end at any time, a
  file that another program writes, an event.
* **Reports that cross commands** on their way between a port and its device,
  connections that break and take queues with them, devices that fall silent.
* **Crashes** in the middle of writing the persistent file; a throttle that skips
  saves.
* **A queue cleared by recalculations** while notifications are pending;
  clock corrections; calculations that throw.
* **Calendar arithmetic**: rollover over units of different and varying size.

The list with its lines is `hazards` in `PROJECT.json`, each with the properties
that cover it or the reason why none does yet.

## The modules

| Module | Models | Extends / instantiates |
|---|---|---|
| `DoWorkLoop` | main loop, exceptions, signals and shutdown | |
| `ChangePropagation` | the machine of nested `setLine` calls: OnChange lists, Assignment port | |
| `PortValue` | a port of one of five base types: setters, errors, refreshes, restarts | |
| `PersistentConfig` | persisting, saving, crashing and restarting, for all ports together | |
| `SignalPorts` | Logic, Pulse, Trigger and Counter ports that share lines | |
| `SelectPorts` | Selector, SceneSelect and ErrorDetector ports around one selection | |
| `FaderPort`, `FilePort`, `AggregatorPort`, `InfluxDBPort`, `TestPort`, `ExpressionPort` | one port each, with its threads and what is around it | |
| `TimerPort` | queue of notifications, calls from elsewhere, time | |
| `PeriodicSchedule` | the calculation of the next periodic occurrence | |
| `ExecPort` | Exec port with its waiter thread and the processes | |
| `WindowPort` | what both control modes of a window share | |
| `WindowHBridge` | H-bridge mode | `WindowPort` |
| `WindowRelay` | serial relay mode | `WindowPort`, instantiates `RelayDrive` |
| `RelayDrive` | *abstract*: what serial relay mode promises about its two relays | |
| `MqttPorts` | a device port of each class of the MQTT plugin, its threads, the network, the device | |
| `EventPort` | the Event port of the MQTT plugin and its two threads | |
| `PolledPorts` | FritzBox and Fronius plugin: worker, session, ports, devices | |
| `WeatherPorts` | a gauge of the Weather plugin | |
| `DoWorkLoopProofs`, `ChangePropagationProofs` | theorems about these two | the module, `TLAPS`; the second one `NaturalRecursion` |
| `BasePortsProofs` | theorems about `PortValue`, `PersistentConfig`, `ExecPort`, and all of `MCBasePorts` | `MCBasePorts`, `ChangePropagationProofs` |
| `WindowsProofs` | theorems about both control modes of a window | `MCWindows` |
| `StandardPortsProofs` | theorems about the standard ports | `MCStandardPorts`, `NaturalRecursion` |
| `TimersProofs` | theorems about `TimerPort` and `PeriodicSchedule` | `MCTimers`, `NaturalRecursion` |
| `DevicesProofs` | theorems about the ports of the plugins | `MCDevices` |
| `NaturalRecursion` | lemmas on natural numbers: least elements, induction, functions defined by recursion | |
| `MC…` | values for the constants of instances | the modules |

`MCBasePorts`, `MCStandardPorts`, `MCTimers`, `MCWindows` and `MCDevices` bring
several specifications into one: a variable `which`, set once, says which of them a
behaviour is about; the variables of the others keep an initial state. Their
composed properties (`BaseInv`, `StandardInv`, `DevicesInv`, …) are conjunctions
of the named properties of the modules.

Definitions described as "mutant of X" are X with a plausible bug. Nothing uses
them but the check that each property notices one: `mutants` in `PROJECT.json`.

### DoWorkLoop

One step of the model is one round of a loop of the code or one call between
them. `phase` is where the main thread is: before a call of `OPDI::doWork`
(`call`), in its loop over the table (`ports`), between the call and the next
one (`sleep`), in `shutdownInternal` (`closing`), or at the end (`exited`).
`pos` is the order of the table, `wait[p]` the scheduled start of `p` *relative
to now*, so that no clock grows.

`BeginIteration` distributes the ports over their periods on the first call;
`SkipPort`, `RunPort`, `PortThrows` and `PortFails` are one round of the loop:
the port is not due, works and is rescheduled, throws a Poco exception (which
leaves the iteration without sorting), or fails in a way that ends the process.
`EndIteration` sorts and suggests the time to sleep, with its cast to `uint8_t`.
`Sleep`, `SleepInterrupted`, `RequestShutdown`, `BeginShutdown`, `ClosePort` and
`EndShutdown` are the rest of a process' life. Ports scheduled for the same time
are sorted by their address: the model leaves their order open (`Sorted`).

### ChangePropagation

A frame of `stack` is a call of `setLine` in progress, with the next handler
it will call; `pending` is the call about to be made, `source` the
`changeSource` that is passed on. `StartCascade` is a change from outside, by
the user or internally. A call (`CallStep`) returns early if nothing changes,
throws if the port refuses or can not be saved, and otherwise changes the line
and has its handlers called, one after the other. An exception clears the
stack: `thrown`. An Assignment port calls itself before its line has changed.

### PortValue

The state of the port is a record of mode, value, resolution and reference; only
the fields of its kind are used. `ChangeInternally` is one of the setters,
`ChangeByUser` the command of a master, with the checks and the alignment that
come before the setter. `valueAsDouble` is what expressions see, and is set by
some functions and not by others. `refreshRequired` and `sinceRefresh` decide in
`PortDoWork` whether a message is attempted; `doWork` ignores whether it was sent
(`canSend`, a failing connection), so that it may get lost. `news` is history: what
has changed is still to be told (`due`), or the message for it was lost.

`saved` is the port's entry of the persistent configuration in memory, `stored` the
one in the file. A setter that persists may also save (`Persisted`), if no port has
done so within ten seconds; what others persist saves the file for all of them
(`SaveForAnother`). When the process is `Killed`, which also stands for the exits
with an error, the file is as the last save has left it, or cut short with any of
the port's lines missing (`Cut`). `ShutDown` is a requested shutdown, after which
the file is saved. `PortStart` reads the file: it is what `getConfigForState`, the
configuration of each type and its preparation make of it. An input with pullup or
pulldown is written but not accepted (`Refused`): the start fails until somebody
edits the file (`EditFile`).

### PersistentConfig

`Change` is a setter of a port with `persist`: the entry in memory, then
`savePersistentConfig`, unless it is throttled or the shutdown has begun.
Poco's `save` truncates the file and writes the entries through a buffered stream:
between `Change`/`LeaveLoop` and `FinishSave`/`FinishLastSave` they reach the disk
one by one (`Write`), in any order. `Crash` and `Start` are the environment; `phase`
tells a crash in the middle of a save (`cut`) from another one. `Start` restores
from the file as `getConfigForState` does. `past` collects the states all ports
have had at one moment; a mixture that a start has found in a cut file is one of
them from then on.

### WindowPort, WindowHBridge, WindowRelay, RelayDrive

One call of `doWork` is two steps, `Machine` and `Policy`. Nothing but the clock
runs between them (`stage`). `Machine` is one action per state of the code's
`switch`; `Policy` is the code behind it (`ObeyForce`, `Reset`,
`FollowNewPosition`, `FollowPosition`, `RemainInError`). `Enter`, `TargetAfter`
and `Become` are `setCurrentState`, with the status port, the error ports and
`PositionAfterOpen/Close`. The sensors that signal are an input of the step
that reads them and may change at any time; a sensor in an error state (`broken`)
throws at the place of the code that reads it first, after the effects that
come before.

Opening and closing are the same code twice; the model has one action with a
parameter `g`, the goal. Timers are ages that are counted up to `AgeCap`.

`RelayDrive` has three actions for two relays: they are disconnected (and the
direction relay released), connected in some direction after more than `Delay`
at rest, or time passes while they are disconnected.

### ExecPort

The main thread's `doWork` is cut where the waiter can notice: the look at
`hasTerminated` (`NoticeEnd`), the process (`LetRun`, `Kill`, `StayIdle`,
`FailToLaunch`, `Launch`), and the start of the thread (`StartWaiter`). The
waiter is cut at each access to a shared variable: `processPID > 0`,
`waitpid(processPID, …)`, which reads it again and may find 0 ("any child"),
the blocking copy of the output, and the final assignment of `hasTerminated`.
Processes are `unborn`, `running`, `zombie` or `reaped`; `killed` remembers that
`KillTime` has cut one short.

### TimerPort and PeriodicSchedule

The queue is a sequence of records `[schedule, deactivate, in]`, ordered by
the time `in` from now. One call of `doWork` is one of `WorkDisabled`,
`WorkRefused` (the recalculation after a clock correction throws), `WorkEvent` (the
connection has changed, which takes the place of what is due) and `WorkQueue`.
`Process` is the second half of `doWork`: the next occurrence, the deactivation,
the outputs. `Recalculated` is `recalculateSchedules`; an exception keeps the
schedules that follow out of the queue. `Disable`, `Enable`, `SetDate` and
`Connect` come from elsewhere; `Tick` and `Correct` move the clock. The queue
(Poco) waits on a clock of its own, which a correction does not move, so that an
entry may come early or late by what is within the tolerance;
`TurnOfYear` lets the calculations of the schedules in `Refusing` throw, as
those of periodic schedules do in December. `forgotten` remembers that a pending
deactivation has been cleared and the outputs have not been set since.

`PeriodicSchedule` is the pure calculation: `Advance` takes a component to its
next possible value and carries (`Carry`, `correctValues`), `SearchDate` is the
loop over dates, as a recursive function. It runs on a calendar whose sizes are
constants, with `BeyondYear` and `Exists` for what the library refuses. Its
behaviours are chains of triggers, each noticed at its time or a second late.

### SignalPorts, SelectPorts

The main loop calls the `doWork` of the ports in some `order`; between two calls
other lines change, errors come and go and time passes. `SignalPorts` holds one
port of each type; which lines they share is the configuration `signal`. An
input in an error state that `Logic` reads may count as anything, as its line is
not initialised. `fired`, `rested` and `overwritten` are history. `SelectPorts`
applies the settings of a scene one after the other (`ApplyAll`, a recursive
function): a setting may be for a lamp, for a Selector port or for the SceneSelect
port itself. A list that would let a port set the Logic port is left out
(`SettablePorts`), as `LogicPort::setLine` throws.

### FaderPort, FilePort, AggregatorPort, InfluxDBPort, TestPort, ExpressionPort

* `FaderPort`: `SwitchOn` resolves Left and Right, `FaderDoWork` sets the output
  to its place between them or ends the fade, `SwitchOff` prepares an action
  for the next `doWork`. The level of the output is an integer interpolation.
* `FilePort`: `FileDoWork` is cut between reading and deleting the file. The
  other process truncates the file and writes it in a second step; the watcher
  (`FileChangedEvent`) asks for a reload.
* `AggregatorPort`: `FirstWork` takes the persistent history over, `QueryValue` and
  `QueryError` are a query, with everything that is calculated; the statistics are
  operators on sequences, divided as the code divides (`Width` bits where
  unsigned numbers wrap), and `InRange` is what the code compares: the integral
  before its fraction is cut off. A last value that stands in for one that can not be
  read is checked like another one, and counts as a second error if an
  unchanged value is not plausible.
* `InfluxDBPort`: `Log` collects and starts the thread, `PostThread` is one step of
  it: post, or fall back on the file.
* `TestPort`: intervals in time and in iterations, the latter with unsigned
  subtraction; a failed test may end the program.
* `ExpressionPort`: an example expression in halves, so that rounding and range
  corrections of each type of output show. Required ports, validated
  variables, fallback and deactivation value, and iterations.

### MqttPorts, EventPort

`client` and `queue` are the work thread: it connects, subscribes, and sends
queries. With `Established` the connection is up for all threads; the client library
calls `connected()` some time later, which clears the queue (`ClearQueue`) and then
adds the request to subscribe (`RequestSubscription`), and the work thread goes on
before, between and after these. `subscription` is what the present connection has
come to: no attempt (`none`), one that was accepted (`made`), or one of which the
plugin does not notice that it has failed (`failed`): `subscribe()` logs and drops
exceptions, skips without a connection, and `on_failure` is empty. `Receive` is
`handle_payload`, `ReceiveRest` its second half in the classes that do not hold the
mutex for all of it (switch and power); `ReceiveThrows` is the expression of a Dial
port that does not compile, which throws in the library's thread. `MqttDoWork` takes
the mailbox, looks at the timeout and asks for a query; `UserSets` sends a command,
which may meet the client just being deleted (`PublishCaught`). The network loses
commands with the connection and delivers reports again (QoS 1); the device answers,
and acts by itself, also when nobody is subscribed. `EventPort` cuts
`handle_payload` around the value and `doWork` at every output.

### PolledPorts, WeatherPorts

`jobs` is the queue, `job` what the worker does and its stage: the check of the
login, the login itself, the request, the parsing, the storing. The box may be
silent, unparsable, refuse the login, or end the session between any two of these; a
command whose answer is missing or unparsable may have been carried out.
`WeatherPorts` is the mailbox of one gauge: `RefreshData` overwrites it,
`ProcessData` parses, scales and corrects.

## What the runs show

All runs are exhaustive on their instance.

| Run | Instance and bounds | Shows |
|---|---|---|
| `loop_safety` | 3 ports with priorities 0, 2, 3, work of 0–2 ms, one may throw, one may fail; overdue counted to 8, ages to 12 | `SpacingInv`: a duration is never shorter than specified. `LatenessInv`: lateness does not add up over iterations. `SleepInv`: the sleep reaches exactly to the next start if nothing is overdue. `EveryPortServed`, `ShutdownEnds` |
| `loop_signal` | 2 ports | *violation*: a signal that interrupts the sleep ends the process without closing a port |
| `base_ports` | 5 ports in cycles, one refuses, one can not be saved; 8 ports of the base types with all refresh modes, one of them an input with pullup; 2 persistent ports, throttle 2, crashes; 3 processes with KillTime 1 | `DepthInv`, `CascadeEnds`: cascades neither nest nor run without end, each step leaves less of them (`AlwaysDescends`). `BaseInv`: handlers are High afterwards, expressions see the value. `MastersInformed`: every change leads to a message, which may be lost, and periodic messages go on. `StateSurvives`: a start finds a port as it was, after a requested shutdown or unless the throttle has held something back or a save was cut short. `SavedAtShutdown`. `RestoresOneMoment`: a start does not mix the states of different moments; after a save that was cut, each port has its state at that time or the configured one. `OneProcess`, `EndIsReal`, `WaiterEnds` |
| `assignment_recursion` | the same cycles with an Assignment port | *violation*: the port calls itself until the bound of the stack |
| `standard_ports` | 8 networks of signal ports, 2 sets of scenes, 7 faders, 3 files, 4 aggregators, 5 expressions, 2 logged ports, 4 tests, 2 outputs of events | `StandardInv` (outputs follow the Logic port, a selected scene is applied, an aggregator shows what it has collected, expressions keep to their limit and leave the deactivation value, data of a post stay intact, events reach all outputs), `EdgesCounted`, `ComesToRest`, `PulseFollows`, `SelectionsSettle`, `FadeRuns`, `ContentCounts`, `ExpressionsRun`, `IntervalsKept` |
| `pulse_oneshot` | the one-shot pulse of `testconfigs/test_pulse.ini` | *violation*: the first pulse has no length |
| `timers` | an interval that triggers again before its deactivation, a date set by the user, a login, a daily schedule whose calculation may throw; and every pattern of a family on a year of 3 months, from every moment of the first year | `TimersInv` (with `PendingInv`: every schedule has its one activation pending), `NeverStuckHigh`, `GoesOn` (`Recurs`: recurring schedules trigger again and again; `NeverGivesUp`: the iterations suffice), `SwitchedOff`; `FindsTheFirst`: the occurrence found fits the pattern (`FoundFits`), none is skipped (`NoneSkipped`), and a date is refused only where the calendar ends (`FailsOnlyAtTheEnd`) |
| `timer_forgotten` | the same schedules | *violation*: a pending deactivation is cleared |
| `schedule_month` | the same calendar and patterns | *violation*: a schedule for a month shorter than others is executed in the month after it |
| `windows` | a window of each control mode: both sensors, both may fail, EnableDelay 2, MotorDelay 1, a forced side, reset with a target, one automatic position | H-bridge: `DriveInv`: lines, flag and state agree. `MotorRestsInv`: no drive after arrival, in error or while waiting. `ReportsInv`; `CommandsObeyed` (`TargetReached`, `OffStops`); `ForcedNeverReversed`. Relays: `DriveSafely`: `WindowRelay` implements `RelayDrive`. `RelayTargetReached` |
| `devices` | 9 devices of the 6 classes of MQTT ports, queried or commanded; each of the 6 kinds of polled ports; a gauge with and without Expiry | `DevicesInv`: every connection has its subscriptions attempted (`SubscriptionKept`), a socket is as the last command has set it (`OrdersObeyed`). `DevicesShown`: ports come to show what their devices do, a queried MQTT port unless its subscription has failed. `CommandsEnd`: a report is never answered with a command for ever. `SilencesNoticed` |
| `mqtt_expired` | a Digital port with a timeout | *violation*: it shows an error though its device answers |

### Why the bounds are enough

* *Loop.* The code compares times and never looks at their size, except for the
  cast to a byte. Three ports give a "real time" port (priority 0), one that is
  overtaken and one that waits; work of up to 2 ms against periods of 2 and 3
  makes ports overdue. `MaxLate` and `SinceCap` saturate at values past every
  comparison: the assumption `BoundAssumption` says how they must relate, and
  the proofs hold for all of them. What the cast does to a start 255 ms away
  is not in this run but in the proof of `SleepsExactly`.
* *Cascades.* Four ports in two interlocked cycles, with a port that is its
  own handler and one named twice, and a fifth that refuses. `MaxDepth` 8 is
  above the depth that `DepthInv` allows; the proof holds for any lists.
* *Values.* Ticks are 500 ms; `Gap` is the second between two messages and
  `RefreshCap` one past the longest period. `MaxDial` 3 with a step of 2 has
  values on and off the grid; `Resolutions` two widths, `Inputs` 0–4 values in
  and out of range.
* *Persistence.* Two ports with two values are the least for a mixed file, in
  which one entry has reached the disk and the other has not; the
  age of a save saturates one past the throttle.
* *Exec.* Three processes let a start meet the end of the one before, with a
  third waiting in the case that the second is lost; ages saturate one past
  `KillTime`.
* *Signals.* Two inputs distinguish the six functions; counters wrap with
  increments within and beyond their range, in time and in iterations.
* *Scenes.* Three positions, of which two have a Selector port; one set of
  scenes sets a lamp, the other one sets Selector ports and the selection.
* *Fader.* Five levels; durations of 0, 2 and 3 units. `elapsed` stops one past
  the duration.
* *File.* Times are compared with a delay of 1 and an expiry of 2 at most:
  `ReloadCap` 3.
* *Aggregator.* Windows of 2 and 3 values of three; 1, 2 or no errors allowed, and
  `MissCap` 3. In one configuration an unchanged value is not plausible.
* *Expression.* Values in halves from −½ to 2½ reach both ends of every range and
  the halves at which rounding happens. A limit of 1 and 2 iterations.
* *InfluxDB, Test, Event.* Counters are compared with intervals of 1 and 2 and
  saturate past them; with two logged ports one may fail, and with two payloads and
  two outputs an event may come between the outputs.
* *Timer.* `MaxLate` 1 means the main loop comes within a unit of what is due;
  `Tolerance` (5 s in the code) is at least that. One disturbance of the clock, a
  date or the year (`MaxJumps`) at every moment of the behaviour; more of them
  repeat the same recalculation. The queue is not bounded by itself, but the
  master connects only while at most `MaxQueue` entries are pending, as each
  connection adds one.
* *Schedule.* 2 seconds, minutes and hours, a week of 2 days and months of 4, 3
  or 4 days (4 in every other year) keep every rollover, a month's varying length
  and the loop for the weekday; patterns fix some units to keep their number
  small. An iteration goes to the next *possible* day, so the code's limit of
  100 is far beyond what a weekday takes to come round; `MaxIter` 12, a year of
  days, is as far beyond a week of two days. `FirstYear` 2 to `YearMax` 3 covers a
  year of each kind.
* *Window.* Ages are compared with a delay by `>`, so one more than the longest
  delay saturates them (`AgeCap` 3). Positions, sensors and states are complete.
* *MQTT.* The queue of the code has no bound. `QueueCap` 1 holds one notification
  of an earlier connection or one query, and one more while `connected()` is not
  through (`QueueLimit`), so that the request to subscribe comes behind one; what
  else would be queued is left out. `CommandCap` 1 and `ReportCap` 1 hold a command
  and the report that crosses it; each may be lost. The Digital, a Generic, a switch
  and the power port query their devices, the first two under the mutex, the others
  partly without. Binary values suffice, as the code only compares them; `TooBig` and
  `Junk` are what it refuses.
* *Polled.* `MaxCommands` 2: a command overtakes a report that overtakes
  another; `MaxGets` 1 request per port waits, in the code one is added in every
  interval, and all of them do the same.
* *Weather.* Expiry 1 and `LongAgo` 3, values of −1 to 2 for a range of 0 to 1.

`CHECK_DEADLOCK FALSE` is used for `DoWorkLoop` only, where the program may end.

### Fairness, and why the code justifies it

* `DoWorkLoop`: weak fairness of the main thread's steps: the operating system
  keeps running the process and no `doWork` blocks. `EveryPortServed` also needs
  strong fairness of `RunPort`: exceptions are transient. It is needed:
  a port that throws at each of its turns starves all ports behind it.
* All ports: weak fairness of their `doWork`, which is what `EveryPortServed`
  says of the loop, and of the clock. `ChangePropagation`: weak fairness of a
  step of a call, which is plain execution.
* `WindowPort`: liveness is claimed provided that the sensor ports can be read
  in the end (`SensorsWork`), a premise of the properties and not of the
  specification.
* `ExecPort`: weak fairness of both threads; the waiter's blocking copy ends when
  the process has (`WaiterRead /\ reading \notin …`); programs end.
* `SelectPorts`: strong fairness of reading a scene file, which may fail now and
  then. `FilePort`: the watcher delivers its events.
* `InfluxDBPort`: the thread goes on; its requests have timeouts.
* `TimerPort`: `Recurs` has the premise that the timer stays enabled and its
  recalculation is not refused.
* `MqttPorts`: the work thread runs, and the client library comes to call
  `connected()`; a connection attempt may fail every time, so nothing is claimed of
  a connection, and an attempt to subscribe may fail too. While there is one the
  client library delivers again and again (strong fairness of `ReceiveOnce`, QoS 1)
  and the device answers (strong fairness of `DeviceAnswers`). Most liveness
  properties have the premise that disturbances end: written as `[]<><<Disturb>>_v
  \/ …`.
* `PolledPorts`: the worker goes on (requests have timeouts); the main loop comes
  to a port both when its interval is over and when it is not.
* `WeatherPorts`: two refreshes are at least a second apart and the main loop comes
  to the gauge in between, hence strong fairness of `ProcessData`.
* `PersistentConfig`, `PeriodicSchedule`, `AggregatorPort`, `EventPort`: safety
  only, no fairness.

## What is proved

TLAPS checks each of these for every value of the constants that satisfies the
named assumptions; the runs show most of the same formulas on an instance.

| Theorem | States | Argument |
|---|---|---|
| `DoWorkLoopProofs!TypeCorrect` | `Spec => []TypeOK` | inductive as it stands; `Sorted` yields positions, `U8` a byte |
| `DoWorkLoopProofs!Spacing` | `Spec => []SpacingInv` | `SpacingInv` only speaks of due ports and is not inductive. `Rested`: the age of the last run and the time to the next start together always reach the period, and no port has run before the table is built. It survives saturation because of `BoundAssumption` |
| `DoWorkLoopProofs!Lateness` | `Spec => []LatenessInv` | `Visited`: *within* an iteration the ports already looked at are late by at most the time spent; at its end these are all ports |
| `DoWorkLoopProofs!SleepsExactly` | `Spec => []SleepInv` | `Near`: no start is planned further ahead than a period, and a period fits into a byte |
| `ChangePropagationProofs!TypeTheorem` | no Assignment port: `CascadeSpec => []CascadeTypeOK` | inductive as it stands |
| `ChangePropagationProofs!DepthTheorem` | no Assignment port: `CascadeSpec => []DepthInv` | but for the first, every call in progress is one for High (`Nested`) of a port that was not High before and is now (`StaysHigh`), so that no port has two of them (`Once`): there are at most as many as ports, and the first |
| `ChangePropagationProofs!HandlersTheorem` | no Assignment port: `CascadeSpec => []HandlersAreHigh` | `Called`: the handlers a call has been through are High, as nothing in a cascade sets a line to Low but its first call; `Finished`: so are those of the ports whose call has returned |
| `ChangePropagationProofs!DescentTheorem` | no Assignment port: `CascadeSpec => AlwaysDescends`, and the order has no infinite descent | `Remaining` compares what is left of a cascade: ports that are not High, calls in progress, calls the innermost one has yet to make, the call being made. A change makes a port High for good (`Nested`) and may then nest as deep as it likes, a return ends a call, and every other step makes a call less. With weak fairness this is why a cascade ends |
| `BasePortsProofs!ExpressionsTheorem` | `PortSpec => []ExpressionsSeeValue` | part of the invariant `IInv` below |
| `BasePortsProofs!SurvivesTheorem` | `PortSpec => StateSurvives` | `Kept`: the persistent configuration has the state of a port that is in no error state, or a state that a start has turned into it; it has nothing only while the port is as it starts. The start reads the file, hence `ShutSaved`: after a requested shutdown the file has what memory had; `Single`: neither has more than one state |
| `WindowsProofs!RelaySafe` | `WindowsSpec => DriveSafely` | refinement, step by step. `Rested`: while the window waits before enabling, the motor rests at least as long as the delay timer has run, and the relay is only on in states that drive |
| `WindowsProofs!NeverSwitchedHot` | `WindowsSpec => Relay!Drive!NoHotSwitch` | from `RelaySafe`: no abstract step changes the direction of a connected relay |
| `WindowsProofs!RelaysAgree` | `WindowsSpec => []Relay!RelayInv` | the other half of `Rested`: `Aligned`, a moving window is driven in its direction |
| `WindowsProofs!BridgeDrives` | `Spec => []DriveInv` | inductive as it stands; one lemma for each way the motor is kept, switched off, or turned |
| `WindowsProofs!MotorRests` | `EnableDelay > 0`: `Spec => []MotorRestsInv` | `Quiet` adds the state before an error that a timeout has found; the end of `AwaitDisable` needs `DriveInv` and `MotorDelay <= EnableDelay` |
| `WindowsProofs!BridgeReports` | `Spec => []ReportsInv` | every step of the state machine is `Enter` or `Stay` (`EnterReports`), every other one is looked at |
| `WindowsProofs!NeverReversed` | `WindowsSpec => ForcedNeverReversed /\ Relay!ForcedNeverReversed` | the property looks at one step of the state machine, but rests on what a call of `doWork` before it has left. `ForcedTarget`: whenever the machine runs next while a side is forced, the target is that side, also after a call that a sensor has ended with an exception. Every action of the machine `Obeys` its target, whatever the sensors say |
| `BasePortsProofs!ExecTypeCorrect` | `Spec => []TypeOK` | inductive as it stands |
| `BasePortsProofs!OneAtATime` | `Spec => []OneProcess` | `Alive` (only the known process is alive) and `Agreed` (what each thread may conclude from its place about the other), unless `KillTime` has killed one |
| `BasePortsProofs!ReportsAreReal` | `Spec => []EndIsReal` | from the same invariant: `hasTerminated` is set from `after`, which is only reached when `waitpid` has fetched the process |
| `BasePortsProofs!StoreTypeCorrect` | `PersistSpec => []PersistTypeOK` | inductive as it stands |
| `BasePortsProofs!ShutdownSaves` | `PersistSpec => []SavedAtShutdown` | `Current`: the configuration in memory always restores to the present state; `Handed`: a stopped process that was asked to has written it, as a save only finishes when every entry is on the disk |
| `BasePortsProofs!OneMoment` | `PersistSpec => []RestoresOneMoment` | `Remembered`: outside of a save the file restores a state of one moment, and so does an empty one. `Partial`: in the middle of a save, and after it was cut, each entry is the one in memory or missing, whatever order they are written in; with `Current` this is the exception the property names |
| `BasePortsProofs!BaseTheorem` | no Assignment port: `BaseSpec => []BaseInv` | the invariants of cascades, values, persistence and processes together: the specifications share no variables, a step is one of one of them. With it the types of all four hold |
| `DevicesProofs!MqttTheorem` | `MqttSpec => []MqttInv` | inductive: a connection comes up with `connected()` ahead of it, whatever is left in the queue; only that clears the queue, and it then adds the request, for which there is room (`QueueLimit`); nothing but the attempt takes it out again |
| `DevicesProofs!PolledTheorem` | `PolledSpec => []PolledInv` | `Obeying`: while there is a wanted state, the last command queued, or the one at work if none is, is the command for it, and without either the socket is in it |
| `DevicesProofs!DevicesTheorem` | `DevicesSpec => []DevicesInv` | the three plugins share no variables: the invariants of each, and the types of the gauge |
| `TimersProofs!TimersInvariantHolds` | `TimersSpec => []TimersInv` | `PendingInv` speaks of an enabled timer, and is not inductive. `QueueOK`: the queue is always typed, ordered by time, has at most one activation per schedule and none of an event (`Single`, `Quiet`); it is kept by `Insert`, the recalculation (one schedule after the other, `OneByOne`) and the processing of an entry, which takes an activation out before it puts the next one in. `Complete`: while the timer is enabled each recurring schedule has an activation, unless one that may be refused comes before it |
| `TimersProofs!NeverStuckHighHolds` | `HighForAWhile` (all schedules set High for a while): `TimersSpec => []NeverStuckHigh` | `SwitchedOffLater`, which does not depend on the timer being enabled: an activation sets the outputs High and queues its deactivation in the same step, and a deactivation is only taken out of the queue to set them Low, or cleared, which `forgotten` notes |
| `TimersProofs!FindsTheFirstHolds` | `TimersSpec => []FindsTheFirst` | see below |
| `StandardPortsProofs!StandardInvariantHolds` | `StandardSpec => []StandardInv` | every port has an invariant of its own, and a step is one of one port. Outputs of the Logic port follow it unless something else has set them (`SignalInv`); the settings of a scene are applied one after the other, in any number (`SelectInv`, induction over their number); an aggregator has no more values than its history and, once it has one, no more misses than it allows; an expression that has used up its iterations is at its deactivation value; data in a post are those it began with; an event which is not disturbed has been written to the outputs up to the one in turn (`Handled`) |
| `StandardPortsProofs!EdgesCountedHolds` | `StandardSpec => EdgesCounted` | `EdgeInv`: a disabled Trigger port remembers nothing, and an input it remembers as Low has been Low since it fired; for the overflow ports, `IncrementFits`: with an increment up to the size of the range, a counter that has become smaller has overflowed |
| `StandardPortsProofs!FadesOneWayHolds` | `StandardSpec => FadesOneWay` | `FadeShown`: the level the fade has shown last is that of an earlier moment of the same fade. The interpolation is monotone in time, as integer division preserves order |
| `StandardPortsProofs!TestsWaitHolds` | `StandardSpec => TestsWait` | `Waits`: the time since the last test or since the port was seen Low is what the port compares, whatever switched it |

**The calendar** (`FindsTheFirst`). `calculateNextOccurrence` takes one unit
after the other to its next possible value, each with a rollover into the next
one, and repeats this for day and month until the weekday fits. The proof
compares moments as lists of six numbers in lexicographic order (`Above`).
`Step(p, t, u)` says that `u` comes after `t` and that nothing which fits `p`
lies between. Each unit has its lemma
(`AdvanceSecond` to `AdvanceMonth`): taking it to its next possible value and
resetting what is below is a `Step`, and so is the carry, on any calendar.
Steps compose (`StepsCompose`), so that the cascade is one, and so does the
variant for the search, which leaves out dates with the wrong weekday
(`WideStep`). The search is a recursive function; its lemma (`SearchFor`) is an
induction over the iterations left, in the set form of `NaturalRecursion!Induction`.
For the third conjunct, `NotAtTheEnd` says when a rollover never asks for more than
the year has. `InEveryMonth` and `InFirstMonth` are part of the property: for
patterns without them the code does something else ([Findings](#findings)).

**What the invariants needed, and what the proofs corrected.** TLC had accepted the
model on its instances; the proofs, for all configurations, did not, where it had
left something out:

* *Signal ports.* Outputs of a Trigger port may be outputs of the Logic port,
  which the history `overwritten` did not know. Inverse outputs are written last and
  prevail over outputs, and a port in both lists is toggled twice. A counter with a
  negative range starts at its maximum. An output of the Trigger port may be
  its own input; its edge has not rested then. An increment between one and two
  ranges overflows upwards, hence `IncrementFits`.
* *Fader.* The action of switching off that is still pending is the first write of
  the next fade, and may go against its direction; that write is exempt. With Left
  above Right, or Invert, the direction is the other one.
* *Calendar.* The rollover of the month keeps a day that the first allowed month may
  lack; the lemma about it could not be proved, a larger family of patterns showed
  the counterexample (`schedule_month`), and `InFirstMonth` names the case.
* *Windows.* A call that throws leaves the policy out: what keeps a forced window
  from turning is not the policy of the same call but the target.

**Only model-checked** is liveness, as fairness is out of the prover's reach:
`EveryPortServed`, `ShutdownEnds`, `CascadeEnds` (but for its `AlwaysDescends`),
`MastersInformed`, `WaiterEnds`, `ComesToRest`, `PulseFollows`,
`SelectionsSettle`, `FadeEnds` and `OffActionEnds` of `FadeRuns`,
`ContentCounts`, `ExpressionsRun`, `KeepsLogging` and `KeepsTesting` of
`IntervalsKept`, `GoesOn`, `SwitchedOff`, `CommandsObeyed`,
`RelayTargetReached`, `DevicesShown`, `CommandsEnd`, `SilencesNoticed`. One part
of `GoesOn` is not liveness: `NeverGivesUp`, that a weekday comes round within
the iterations, is a fact about particular calendars and holds for the code's limit
of 100 as for the run's 12, but not for all values of the constants. All other
invariants and action properties that a passing run checks are theorems, those of
the base ports about instances without Assignment ports (with one, `DepthInv`
fails: see `assignment_recursion`).

## Findings

Disagreements between the code and its documentation or comments that a run
shows:

1. `loop_signal`: a signal during `nanosleep` makes `setupTCP` return directly
   (`src/LinuxOpenHAT.cpp:386`); `shutdownInternal` is not called and no port is
   closed, against the documentation's promise that all ports get a chance to
   clean up.
2. `assignment_recursion`: `AssignmentPort::setLine` calls `this->setLine(1)`,
   which is virtual, before the line has changed (`src/Ports.cpp:2739`): it calls
   itself until the stack is exhausted.
3. `pulse_oneshot`: `pulseState` is invalid at first and counts as High
   (`src/Ports.cpp:222`), so that the first pulse of a port that is enabled by a
   line it resets ends at once instead of after its High time.
4. `timer_forgotten`: a recalculation clears the queue with the pending
   deactivations in it (`src/TimerPort.cpp:810`); the output stays High.
5. `mqtt_expired`: `handle_payload` of a Digital port does not note the time
   (`plugins/MQTTPlugin/MQTTPlugin.cpp:597`), so that with a timeout the port goes
   into the error state although payloads arrive.
6. `schedule_month`: when no allowed month is left in this year, the first one of
   the next year is taken with the day that was found before, and
   `correctValues` carries a day that this month lacks into the month after it
   (`src/TimerPort.cpp:557`): days 1 and 30 of February, calculated in March, yield
   the first of March.

Others were seen while modelling and have no run of their own:

* *Loop.* A start already overdue at the end of an iteration is cast to a byte
  and gives a long sleep (`src/OPDI.cpp:373`). A port that always throws starves
  those behind it (`src/AbstractOpenHAT.cpp:1410`). `currentFrame` is never
  initialised and is incremented before the first `doWork`
  (`src/AbstractOpenHAT.cpp:1397`), so that what ports do "in the first
  iteration" does not happen.
* *Port values.* `setResolution` in output mode without clamping is not
  persisted; `valueAsDouble` of an analog port keeps the old resolution, and
  `setMode` to output an old value out of range (for that `ExpressionsSeeValue`
  leaves analog ports out). "Input with pullup" is written but not accepted at
  the next start (`src/AbstractOpenHAT.cpp:1570`). Readonly is not enforced for
  the resolution and reference of analog ports (`:1968`–`:2014`, against
  `docs/configuration.md:258`). A dial is only aligned to its step by the user. A
  periodic refresh takes a second longer than `RefreshTime`. A refresh message that
  can not be sent is not sent again (`src/OPDI_Ports.cpp:81`): masters learn of the
  change with the next one.
* *Signal ports.* The outputs of a Logic port that were in error when its line
  changed are never set afterwards, and its inverse outputs not at start. A
  counter whose wrap is refused still sets its overflow ports, and an exception of
  `doIncrement` leaves the `doWork` of the Trigger port. Periods of a counter
  last one unit longer.
* *Select ports.* `Line = High` in the configuration of a Selector port uses a
  port that is not resolved yet. A SceneSelect port notes a selection before it
  checks the position, and forgets one that a scene has made.
* *Fader.* The end of a fade does not write the right value; an exception at the
  end leaves the end switches unset; a fader switched on again before `doWork`
  performs the action of switching off.
* *File.* The locks are temporaries (`src/Ports.cpp:1204`, `:1334`). What the port
  itself writes is read back; a value in an error state empties the file; the
  reload time is noted even if nothing could be read.
* *Aggregator.* A last value that stands in for one that can not be read counts as
  a second error where `MinDelta` and `MaxDelta` exclude an unchanged value
  (`src/Ports.cpp:1789`). The mean divides by an unsigned number (`src/Ports.cpp:1572`), so
  that a negative sum gives a huge mean. Each access resets the count of errors.
* *Expression.* The deactivation value replaces the last result at once when the
  iterations end. An exception of `setLine` skips the rest of switching.
* *InfluxDB, Test.* The line of an InfluxDB port is ignored, against the comment
  in `src/Ports.h`; a list of values ends with a comma if the last port is in
  error. In iterations a Test port tests at the second one whatever its interval,
  as the difference wraps around (`src/Ports.cpp:2549`).
* *Exec.* A short pulse starts a process although the line is Low again
  (`src/ExecPort.cpp:158`). If the thread of the process before is still
  running, a launched process is not watched (`:232`). An exit code out of range
  leaves `doWork` with an exception (`:135`). The start time of the process
  before may be used to kill the next one (`:234`). A killed process stays
  defunct until the waiter fetches it (`:149`).
* *Persistence.* The save at an *error* exit is throttled and the last change of
  a running process is never saved if nothing changes again
  (`src/AbstractOpenHAT.cpp:1540`). A crash while writing loses the entries that
  have not reached the disk (`:1542`), and their ports start in the configured
  state beside others that continue.
* *Timer.* Deactivations count as occurrences (`src/TimerPort.cpp:732`). A
  negative AstroOffset stops an astronomical schedule until something
  recalculates (`:598`). A toggle is decided by the first output (`:667`). A
  refused recalculation repeats at every `doWork`. The last day of a month is
  never found, as its limit is exclusive (`:114`). A schedule for a day that a
  month does not have triggers on another day (`:545`). In December the rollover
  of the day throws (`:544`). The premises
  `InEveryMonth` and `InFirstMonth` and the cases of `FailsOnlyAtTheEnd` name
  these exceptions.
* *Window.* Without EnableDelay a movement that ends at its sensor does not stop
  the motor (`WindowPlugin.cpp:679`, `:735`), and the error state is entered with
  the opposite movement just started (`:561`). The enable line stays on in the
  error state. The two lines of a bridge overlap for a moment (`:331`). The
  position selected before an error replaces the target of a reset (`:525`). A
  new position does not leave the error state by itself (`:1037`, `:1083`). A
  sensor fault keeps the timeout from being looked at (`:668`). The direction
  relay is set together with Enable (`:876`).
* *MQTT.* A command without a connection throws, and may end the program
  (`MQTTPlugin.cpp:1616`): `crashed`. It is lost while the client reconnects.
  Queries pile up while it does (`:606`). A subscription that fails is never noticed
  (`:581`, `:48`), and lasts as long as the connection. The check of the client and
  its use race with its deletion by the work thread (`:1091`, `:1933`). A payload
  that is no expression throws in the library's thread (`:754`). The switch and
  power classes read parts of the mailbox without the mutex. An Event port clears
  `valueSet` at the end of `doWork`: an event that arrives meanwhile is lost
  (`disturbed`).
* *FritzBox, Fronius, Weather.* A refused login is logged every time, as the
  request that tells of it resets the error count. A power above the range of its
  port throws at every `doWork`. An older value clears a later error. A command
  equal to a stale line is not sent. An empty text replaces one that a gauge has
  not processed.

## Not modelled

* The **session** with a connected master: its messages are read and written
  by a submodule that is not in the repository. What its commands do to ports is
  in `PortValue`; its loop calls the same `doWork`.
* **Configuration**, groups and device information: tables that are filled once
  at start; parsing of settings, patterns, JSON and colours; log messages and
  their suppression.
* **ArducomPlugin** (a polled microcontroller with the structure of
  `PolledPorts`), **WebServerPlugin** (JSON-RPC as a conversion), the **Raspberry Pi
  plugins** (registers), the **test plugins**, the **Windows build**.
* **Logger and SerialStreaming ports** only move text. Sunrise and sunset are
  floating point astronomy.
* Save failures of the persistent file in `PersistentConfig` (in `ChangePropagation`
  they are exceptions), as with a full disk, and entries that are cut in the middle
  of their line; modes of analog ports other than input and output; changes while
  ports are being prepared, the reuse of process ids, the lifetime of streams,
  output ports of a timer in an error state.
* exprtk, the MQTT client library and the HTTP library are outside of the
  repository; they are modelled by what the code expects of them.

## Plan

1. `DoWorkLoop` with proofs. ✔
2. `WindowPort`, `WindowHBridge`, `WindowRelay`, refinement of `RelayDrive` with
   its proof. ✔
3. `ExecPort` with proofs. ✔
4. `PersistentConfig` with proofs. ✔
5. `TimerPort`, `PeriodicSchedule`. ✔
6. `ChangePropagation` with proofs, `PortValue`. ✔
7. Standard ports with state of their own, and ExpressionPort. ✔
8. The plugins with threads: MQTT, FritzBox, Fronius, Weather. ✔
9. Proofs about `PortValue` and the devices. ✔
10. Proofs about timers, the calendar, the standard ports, and `ForcedNeverReversed`. ✔
11. Measures like that of `AlwaysDescends` for other things that must end: the search
    for a weekday on the code's calendar, a window on its way to its target.
12. `Session`: idle timeout, send and receive loops, composed with `DoWorkLoop` for
    the sleep of a connected session; ArducomPlugin.
