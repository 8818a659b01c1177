----------------------------- MODULE InfluxDBPort -----------------------------
(***************************************************************************)
(* An InfluxDB port: the main thread collects the values of ports, another *)
(* thread posts them and falls back on a file.  The two share dbData; the  *)
(* line of the port has no effect on either.                               *)
(***************************************************************************)
EXTENDS Integers

CONSTANTS
  Logged,       \* the number of logged ports
  LogInterval,  \* intervalMs
  HasFallback   \* a FallbackFile is configured

ASSUME InfluxAssumption == LogInterval \in Nat /\ Logged \in Nat

VARIABLES
  sources,      \* the values of the logged ports
  dbData,
  postThread,
  sinceLog,     \* time since lastLogTime
  collected,    \* history: the values at the time the thread was started
  lost          \* history: the last data set has reached neither the database nor the file

influxVars == <<sources, dbData, postThread, sinceLog, collected, lost>>

Failed == 2
SourceStates == [1 .. Logged -> {0, 1, Failed}]

InfluxTypeOK ==
  /\ sources \in SourceStates
  /\ dbData \in [fields : SUBSET ((1 .. Logged) \X {0, 1}), comma : BOOLEAN]
  /\ postThread \in {"ended", "posting", "falling back"}
  /\ sinceLog \in 0 .. LogInterval + 1
  /\ collected \in SourceStates
  /\ lost \in BOOLEAN

\* The line of a data set: the ports that have a value.  A comma follows every
\* one of them but the last port of the setting; comma says that the list ends
\* with one.  (Without a field there is a dummy.)
DataOf(values) ==
  LET known == {i \in 1 .. Logged : values[i] # Failed}
  IN  [fields |-> {<<i, values[i]>> : i \in known},
       comma |-> known # {} /\ \A i \in known : \E k \in 1 .. Logged : k > i]

InfluxInit ==
  /\ sources = [i \in 1 .. Logged |-> 0]
  /\ dbData = [fields |-> {}, comma |-> FALSE]
  /\ postThread = "ended"
  /\ sinceLog = 0
  /\ collected = sources
  /\ lost = FALSE

\* doWork, if it is time and the thread has ended
Log ==
  /\ postThread = "ended"
  /\ sinceLog > LogInterval
  /\ dbData' = DataOf(sources)
  /\ sinceLog' = 0
  /\ postThread' = "posting"
  /\ collected' = sources
  /\ UNCHANGED <<sources, lost>>

\* The database accepts the data, or it does not, or does not answer in time.
Post(accepted) ==
  /\ postThread = "posting"
  /\ postThread' = IF ~accepted /\ HasFallback THEN "falling back" ELSE "ended"
  /\ lost' = (~accepted /\ ~HasFallback)
  /\ UNCHANGED <<sources, dbData, sinceLog, collected>>

\* the data set is appended to the file, if it can be written
FallBack(written) ==
  /\ postThread = "falling back"
  /\ postThread' = "ended"
  /\ lost' = ~written
  /\ UNCHANGED <<sources, dbData, sinceLog, collected>>

PostThread == \E ok \in BOOLEAN : Post(ok) \/ FallBack(ok)

SourceChanges ==
  /\ \E i \in 1 .. Logged, v \in {0, 1, Failed} : sources' = [sources EXCEPT ![i] = v]
  /\ UNCHANGED <<dbData, postThread, sinceLog, collected, lost>>

InfluxTick ==
  /\ sinceLog <= LogInterval
  /\ sinceLog' = sinceLog + 1
  /\ UNCHANGED <<sources, dbData, postThread, collected, lost>>

InfluxNext == Log \/ PostThread \/ SourceChanges \/ InfluxTick

\* the main loop comes back, a request of the thread has a timeout, time goes on
InfluxFairness == WF_influxVars(Log) /\ WF_influxVars(PostThread) /\ WF_influxVars(InfluxTick)
InfluxSpec == InfluxInit /\ [][InfluxNext]_influxVars /\ InfluxFairness

-----------------------------------------------------------------------------
(* Properties *)

\* The thread posts, and falls back on, the values of one moment: the main
\* thread does not touch the data while it runs (doWork, run).
DataIntact == postThread # "ended" => dbData = DataOf(collected)

\* Values are logged again and again, however long the database takes and
\* whatever fails (doWork, run).
KeepsLogging == []<><<Log>>_influxVars
=============================================================================
