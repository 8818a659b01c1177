------------------------------ MODULE EventPort ------------------------------
(***************************************************************************)
(* An Event port of the MQTT plugin: the client library stores the payload *)
(* of an event, the main thread lets the outputs of the port process it.   *)
(* Only the client library takes the lock, so that the two threads may     *)
(* meet anywhere.                                                          *)
(***************************************************************************)
EXTENDS Integers, Sequences

CONSTANTS
  Events,     \* the payloads: numbers
  Patterns    \* for the outputs 1 .. n, the set of payloads an output matches

VARIABLES
  eventLine,
  eventValue,     \* value
  eventSet,       \* valueSet
  eventStage,     \* of handle_payload: none, writing the value, written
  atOutput,        \* the output the main thread has come to, 0 outside of doWork
  performed,      \* for every output, the payload it has processed last
  lastEvent,      \* history: the payload that has arrived last
  disturbed       \* history: it arrived while the main thread worked, or was dropped

eventVars == <<eventLine, eventValue, eventSet, eventStage, atOutput, performed, lastEvent, disturbed>>

NoEvent == 0
\* what may be read of a value that is being written
Unreadable == -1

ASSUME EventAssumption == Patterns \in Seq(SUBSET (Events \cup {NoEvent, Unreadable}))

Outputs == DOMAIN Patterns
AllDone == Len(Patterns) + 1

EventTypeOK ==
  /\ eventLine \in {0, 1}
  /\ eventValue \in Events \cup {NoEvent}
  /\ eventSet \in BOOLEAN
  /\ eventStage \in {"none", "writing", "written"}
  /\ atOutput \in 0 .. AllDone
  /\ performed \in [Outputs -> Events \cup {NoEvent, Unreadable}]
  /\ lastEvent \in Events \cup {NoEvent}
  /\ disturbed \in BOOLEAN

EventInit ==
  /\ eventLine = 1
  /\ eventValue = NoEvent
  /\ eventSet = FALSE
  /\ eventStage = "none"
  /\ atOutput = 0
  /\ performed = [i \in Outputs |-> NoEvent]
  /\ lastEvent = NoEvent
  /\ disturbed = FALSE

-----------------------------------------------------------------------------
(* handle_payload, in the thread of the client library *)

EventArrives ==
  /\ eventStage = "none"
  /\ eventStage' = "writing"
  /\ lastEvent' \in Events
  /\ disturbed' = (atOutput # 0)
  /\ UNCHANGED <<eventLine, eventValue, eventSet, atOutput, performed>>

EventWritten ==
  /\ eventStage = "writing"
  /\ eventStage' = "written"
  /\ eventValue' = lastEvent
  /\ UNCHANGED <<eventLine, eventSet, atOutput, performed, lastEvent, disturbed>>

EventStored ==
  /\ eventStage = "written"
  /\ eventStage' = "none"
  /\ eventSet' = TRUE
  /\ UNCHANGED <<eventLine, eventValue, atOutput, performed, lastEvent, disturbed>>

HandlePayload == EventArrives \/ EventWritten \/ EventStored

-----------------------------------------------------------------------------
(* doWork, in the main thread *)

\* a port that is Low drops what has been stored
DropEvent ==
  /\ atOutput = 0
  /\ eventLine = 0
  /\ eventSet
  /\ eventSet' = FALSE
  /\ disturbed' = TRUE
  /\ UNCHANGED <<eventLine, eventValue, eventStage, atOutput, performed, lastEvent>>

BeginEvent ==
  /\ atOutput = 0
  /\ eventLine = 1
  /\ eventSet
  /\ atOutput' = 1
  /\ disturbed' = (disturbed \/ eventStage # "none")
  /\ UNCHANGED <<eventLine, eventValue, eventSet, eventStage, performed, lastEvent>>

EventRead == IF eventStage = "writing" THEN Events \cup {eventValue, Unreadable} ELSE {eventValue}

\* Every output reads the value again; one that does not match it is skipped.
ProcessEvent ==
  /\ atOutput \in Outputs
  /\ \E v \in EventRead :
       performed' = IF v \in Patterns[atOutput] THEN [performed EXCEPT ![atOutput] = v] ELSE performed
  /\ atOutput' = atOutput + 1
  /\ UNCHANGED <<eventLine, eventValue, eventSet, eventStage, lastEvent, disturbed>>

\* What has arrived in the meantime is forgotten with it.
EndEvent ==
  /\ atOutput = AllDone
  /\ atOutput' = 0
  /\ eventSet' = FALSE
  /\ UNCHANGED <<eventLine, eventValue, eventStage, performed, lastEvent, disturbed>>

EventDoWork == DropEvent \/ BeginEvent \/ ProcessEvent \/ EndEvent

\* by a master, or by an output of the port
SwitchEvents ==
  /\ eventLine' = 1 - eventLine
  /\ UNCHANGED <<eventValue, eventSet, eventStage, atOutput, performed, lastEvent, disturbed>>

EventNext == HandlePayload \/ EventDoWork \/ SwitchEvents
EventSpec == EventInit /\ [][EventNext]_eventVars

-----------------------------------------------------------------------------
(* Properties *)

\* An event is processed by every output that matches it, in spite of the
\* missing lock, unless it arrived while the main thread was at work or the
\* port was Low (handle_payload, doWork, Output::process).
EventsHandled ==
  eventStage = "none" /\ ~eventSet /\ atOutput = 0 /\ ~disturbed /\ lastEvent # NoEvent =>
    \A i \in Outputs : lastEvent \in Patterns[i] => performed[i] = lastEvent
=============================================================================
