-------------------------- MODULE PersistentConfig --------------------------
(***************************************************************************)
(* How the state of persistent ports survives a restart: persist copies it *)
(* to the persistent configuration in memory, savePersistentConfig writes  *)
(* that to its file, but not too often, and the next start reads the file. *)
(*                                                                         *)
(* The state of a port is one value, which one entry of the file keeps.    *)
(* PropertyFileConfiguration::save (Poco) truncates the file and writes    *)
(* the entries one after the other: a crash in the middle leaves those     *)
(* that have reached the disk.                                             *)
(***************************************************************************)
EXTENDS Naturals

CONSTANTS
  Ports,      \* the persistent ports
  Values,     \* their states
  Initial,    \* the state the configuration file gives each port
  Absent,     \* the value of a property the file does not have
  Throttle,   \* 10 s, in ticks: no save follows another one sooner
  MayFail     \* a port may fail in a way that ends the main loop

ASSUME InitialAssumption == Initial \in [Ports -> Values]
ASSUME AbsentAssumption == Absent \notin Values
ASSUME ThrottleAssumption == Throttle \in Nat
ASSUME FailAssumption == MayFail \in BOOLEAN

VARIABLES
  phase,               \* of the process
  value,               \* state of each port
  persistentConfig,    \* in memory
  persistentFile,      \* on disk
  saveAge,             \* time since lastPersistentConfigSave
  shutdownRequested,
  past                 \* the states all ports have had at the same time

memory == <<value, persistentConfig, saveAge, shutdownRequested>>
persistVars == <<phase, memory, persistentFile, past>>

Stored == [Ports -> Values \cup {Absent}]

\* bound of saveAge: older saves are not told apart
ThrottleCap == Throttle + 1

PersistTypeOK ==
  /\ phase \in {"running", "saving", "exiting", "stopped", "crashed", "cut"}
  /\ value \in [Ports -> Values]
  /\ persistentConfig \in Stored
  /\ persistentFile \in Stored
  /\ saveAge \in 0 .. ThrottleCap
  /\ shutdownRequested \in BOOLEAN
  /\ past \subseteq [Ports -> Values]

-----------------------------------------------------------------------------
(* Helpers *)

NoEntries == [p \in Ports |-> Absent]

\* getConfigForState: the persistent configuration goes before the other one
Restored(stored) ==
  [p \in Ports |-> IF stored[p] = Absent THEN Initial[p] ELSE stored[p]]

\* savePersistentConfig saves now
SavesNow == shutdownRequested \/ saveAge > Throttle

PersistInit ==
  /\ phase = "running"
  /\ value = Initial
  /\ persistentConfig = NoEntries
  /\ persistentFile = NoEntries
  /\ saveAge = ThrottleCap
  /\ shutdownRequested = FALSE
  /\ past = {Initial}

-----------------------------------------------------------------------------
(* The running process *)

\* mutant of Change: only the changed port is kept for the file
ChangeForgetting(p, v) ==
  /\ phase = "running"
  /\ v # value[p]
  /\ value' = [value EXCEPT ![p] = v]
  /\ past' = past \cup {value'}
  /\ persistentConfig' = [NoEntries EXCEPT ![p] = v]
  /\ \/ /\ ~shutdownRequested /\ SavesNow
        /\ phase' = "saving"
        /\ persistentFile' = NoEntries
     \/ /\ shutdownRequested \/ ~SavesNow
        /\ UNCHANGED <<phase, persistentFile>>
  /\ UNCHANGED <<saveAge, shutdownRequested>>

\* A port's state changes and is persisted.  During a shutdown the save is
\* left to the end of the process.
Change(p, v) ==
  /\ phase = "running"
  /\ v # value[p]
  /\ value' = [value EXCEPT ![p] = v]
  /\ past' = past \cup {value'}
  /\ persistentConfig' = [persistentConfig EXCEPT ![p] = v]
  /\ \/ /\ ~shutdownRequested
        /\ SavesNow
        /\ phase' = "saving"
        /\ persistentFile' = NoEntries
     \/ /\ shutdownRequested \/ ~SavesNow
        /\ UNCHANGED <<phase, persistentFile>>
  /\ UNCHANGED <<saveAge, shutdownRequested>>

\* One entry reaches the disk.  Nothing tells in which order the system writes
\* what it has buffered.
Write(p) ==
  /\ phase \in {"saving", "exiting"}
  /\ persistentFile[p] # persistentConfig[p]
  /\ persistentFile' = [persistentFile EXCEPT ![p] = persistentConfig[p]]
  /\ UNCHANGED <<phase, memory, past>>

\* the file is complete
Finish(next) ==
  /\ persistentFile = persistentConfig
  /\ saveAge' = 0
  /\ phase' = next
  /\ UNCHANGED <<value, persistentConfig, persistentFile, shutdownRequested, past>>

FinishSave == phase = "saving" /\ Finish("running")

RequestShutdown ==
  /\ phase \in {"running", "saving"}
  /\ ~shutdownRequested
  /\ shutdownRequested' = TRUE
  /\ UNCHANGED <<phase, value, persistentConfig, persistentFile, saveAge, past>>

\* mutant of LeaveLoop: the throttle also holds at the end
LeaveLoopThrottled ==
  /\ phase = "running"
  /\ shutdownRequested \/ MayFail
  /\ IF saveAge > Throttle
     THEN phase' = "exiting" /\ persistentFile' = NoEntries
     ELSE phase' = "stopped" /\ UNCHANGED persistentFile
  /\ UNCHANGED <<memory, past>>

\* setupConnection returns, after a request or because a port has failed, and
\* startup calls savePersistentConfig
LeaveLoop ==
  /\ phase = "running"
  /\ shutdownRequested \/ MayFail
  /\ \/ /\ SavesNow
        /\ phase' = "exiting"
        /\ persistentFile' = NoEntries
     \/ /\ ~SavesNow
        /\ phase' = "stopped"
        /\ UNCHANGED persistentFile
  /\ UNCHANGED <<memory, past>>

FinishLastSave == phase = "exiting" /\ Finish("stopped")

PersistTick ==
  /\ phase = "running"
  /\ saveAge < ThrottleCap
  /\ saveAge' = saveAge + 1
  /\ UNCHANGED <<phase, value, persistentConfig, shutdownRequested,
                 persistentFile, past>>

-----------------------------------------------------------------------------
(* Its environment *)

\* the process is killed, or the power fails: maybe in the middle of a save
Crash ==
  /\ phase \in {"running", "saving", "exiting"}
  /\ phase' = IF phase = "running" THEN "crashed" ELSE "cut"
  /\ UNCHANGED <<memory, persistentFile, past>>

\* startup reads the file; what ports persist while they are configured is
\* ignored
Start ==
  /\ phase \in {"stopped", "crashed", "cut"}
  /\ phase' = "running"
  /\ persistentConfig' = persistentFile
  /\ value' = Restored(persistentFile)
  /\ past' = past \cup {value'}
  /\ saveAge' = ThrottleCap
  /\ shutdownRequested' = FALSE
  /\ UNCHANGED <<persistentFile>>

PersistNext ==
  \/ \E p \in Ports, v \in Values : Change(p, v)
  \/ \E p \in Ports : Write(p)
  \/ FinishSave \/ RequestShutdown \/ LeaveLoop \/ FinishLastSave \/ PersistTick
  \/ Crash \/ Start

PersistSpec == PersistInit /\ [][PersistNext]_persistVars

-----------------------------------------------------------------------------
(* Properties *)

\* After a shutdown that was requested the file holds the state every port
\* had, however short ago it changed and whatever crashed before: the next
\* start continues where this one ended.
SavedAtShutdown ==
  phase = "stopped" /\ shutdownRequested => Restored(persistentFile) = value

\* What the file holds is the state of all ports at one moment, whatever crashed
\* before: a restart does not mix the new state of one port with an older one of
\* another.  The exception is a save that is going on or that a crash has cut:
\* each port then has its state at that time or the configured one, and never
\* one in between.
RestoresOneMoment ==
  \/ Restored(persistentFile) \in past
  \/ /\ phase \in {"saving", "exiting", "cut"}
     /\ \A p \in Ports : Restored(persistentFile)[p] \in {value[p], Initial[p]}
=============================================================================
