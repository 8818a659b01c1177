----------------------------- MODULE WeatherPorts -----------------------------
(***************************************************************************)
(* A gauge of the Weather plugin.  A thread fetches what the weather       *)
(* station has published and leaves the text for the gauge, which parses,  *)
(* scales and shows it when its turn comes, and expires when nothing valid *)
(* has come for too long.                                                  *)
(***************************************************************************)
EXTENDS Integers

CONSTANTS
  Expiries,   \* the values of Expiry, 0 for never
  GaugeMax    \* the maximum of the dial; its minimum is 0

ASSUME GaugeAssumption == Expiries \subseteq Nat /\ GaugeMax \in Nat

VARIABLES
  expirySeconds,
  rawValue,        \* what is left for the gauge
  gaugePosition,
  gaugeError,
  sinceValid       \* time since lastValidTime

gaugeVars == <<expirySeconds, rawValue, gaugePosition, gaugeError, sinceValid>>

NoData == -9    \* the empty string
Text == -8      \* a text that is no number
\* what the station may publish; some of it is below or above the range of the dial
Published == {NoData, Text} \cup -1 .. GaugeMax + 1
Numbers == Published \ {NoData, Text}

\* bound of the model: longer times are not told apart
LongAgo == 3

GaugeTypeOK ==
  /\ expirySeconds \in Expiries
  /\ rawValue \in Published
  /\ gaugePosition \in 0 .. GaugeMax
  /\ gaugeError \in {"ok", "expired", "unavailable"}
  /\ sinceValid \in 0 .. LongAgo

\* a gauge starts with a value that is not available
GaugeInit ==
  /\ expirySeconds \in Expiries
  /\ rawValue = NoData
  /\ gaugePosition = 0
  /\ gaugeError = "unavailable"
  /\ sinceValid = LongAgo

-----------------------------------------------------------------------------
\* extract, called by refreshData for an element of the published data: what has
\* not been processed is overwritten
Extract(v) ==
  /\ rawValue' = v
  /\ UNCHANGED <<expirySeconds, gaugePosition, gaugeError, sinceValid>>

\* refreshData: data that is too old, that has not the expected format or can
\* not be fetched is as good as none
RefreshData == \E v \in Published : Extract(v)

\* doWork without a value: only a value that is shown expires
WaitForData ==
  /\ rawValue = NoData
  /\ gaugeError' =
       IF gaugeError = "ok" /\ expirySeconds > 0 /\ sinceValid > expirySeconds THEN "expired" ELSE gaugeError
  /\ UNCHANGED <<expirySeconds, rawValue, gaugePosition, sinceValid>>

Corrected(v) == IF v < 0 THEN 0 ELSE IF v > GaugeMax THEN GaugeMax ELSE v

\* mutant of ProcessData: every text counts as a sign of life, and what can not
\* be parsed leaves the value
ProcessDataLenient ==
  /\ rawValue # NoData
  /\ rawValue' = NoData
  /\ sinceValid' = 0
  /\ IF rawValue = Text
     THEN UNCHANGED <<gaugeError, gaugePosition>>
     ELSE gaugeError' = "ok" /\ gaugePosition' = Corrected(rawValue)
  /\ UNCHANGED expirySeconds

\* doWork with a value: it is cleared, parsed, scaled and corrected
ProcessData ==
  /\ rawValue # NoData
  /\ rawValue' = NoData
  /\ IF rawValue = Text
     THEN gaugeError' = "unavailable" /\ UNCHANGED <<gaugePosition, sinceValid>>
     ELSE gaugeError' = "ok" /\ gaugePosition' = Corrected(rawValue) /\ sinceValid' = 0
  /\ UNCHANGED expirySeconds

GaugeDoWork == WaitForData \/ ProcessData

GaugeTick ==
  /\ sinceValid < LongAgo
  /\ sinceValid' = sinceValid + 1
  /\ UNCHANGED <<expirySeconds, rawValue, gaugePosition, gaugeError>>

GaugeNext == RefreshData \/ GaugeDoWork \/ GaugeTick

\* The clock goes on and the main loop comes back to the gauge, also between two
\* refreshes, which are a second apart at least.
GaugeFairness == SF_gaugeVars(ProcessData) /\ WF_gaugeVars(WaitForData) /\ WF_gaugeVars(GaugeTick)
GaugeSpec == GaugeInit /\ [][GaugeNext]_gaugeVars /\ GaugeFairness

-----------------------------------------------------------------------------
(* Properties *)

\* With an Expiry a gauge does not go on to show its value when nothing valid is
\* published any more, whatever else is (extract, doWork).
GaugeExpires ==
  expirySeconds > 0 => []<>(rawValue \in Numbers) \/ []<>(gaugeError # "ok")

\* A gauge shows what the station keeps publishing, in spite of what it has
\* published before.
GaugeShows ==
  \A v \in Numbers :
    []<>(rawValue = v) /\ <>[](rawValue \in {v, NoData})
      => <>[](gaugePosition = Corrected(v)) /\ []<>(gaugeError = "ok")
=============================================================================
