---------------------------- MODULE AggregatorPort ----------------------------
(***************************************************************************)
(* An Aggregator port: it queries a source port in intervals, keeps the    *)
(* last values, in memory, in the persistent configuration and as the      *)
(* history of a port, and calculates statistics of them for Dial ports.    *)
(***************************************************************************)
EXTENDS Integers, Sequences, FiniteSets, SequencesExt, FiniteSetsExt

CONSTANTS
  AggregatorConfigs,   \* see AggregatorType
  SourceValues         \* values of the source port

VARIABLES
  agg,          \* the configuration
  aggLine,
  values,
  due,          \* the interval is over
  errors,
  firstRun,
  results,      \* of the calculations: a value, or none
  history,      \* of the history port
  stored,       \* values in the persistent configuration
  misses        \* queries that have failed since the last one that has not

aggVars == <<agg, aggLine, values, due, errors, firstRun, results, history, stored, misses>>

Algorithms == {"delta", "mean", "minimum", "maximum", "integrate"}
AggregatorType ==
  [total : Nat \ {0, 1}, minDelta : Int, maxDelta : Int, allowedErrors : Nat, incomplete : BOOLEAN,
   persistent : BOOLEAN, min : Int, max : Int]

ASSUME AggregatorAssumption == AggregatorConfigs \subseteq AggregatorType /\ SourceValues \subseteq Int

\* bound of misses
MissCap == 3

AggregatorTypeOK ==
  /\ agg \in AggregatorType
  /\ aggLine \in 0 .. 1
  /\ values \in Seq(SourceValues) /\ Len(values) <= agg.total
  /\ due \in BOOLEAN
  /\ errors \in 0 .. agg.allowedErrors
  /\ firstRun \in BOOLEAN
  /\ results \in [Algorithms -> SUBSET (agg.min .. agg.max)]
  /\ \A a \in Algorithms : Cardinality(results[a]) <= 1
  /\ history \in Seq(SourceValues)
  /\ stored \in Seq(SourceValues)
  /\ misses \in 0 .. MissCap

NoResults == [a \in Algorithms |-> {}]

AggregatorInit ==
  /\ agg \in AggregatorConfigs
  /\ aggLine = 1
  /\ values = <<>>
  /\ due = TRUE
  /\ errors = 0
  /\ firstRun = TRUE
  /\ results = NoResults
  /\ history = <<>>
  /\ stored = <<>>
  /\ misses = 0

-----------------------------------------------------------------------------
(* Calculations *)

\* bound: the width of the model's integers, 64 in the code
Width == 8

Sum(vs) == FoldLeft(LAMBDA a, b : a + b, 0, vs)

\* division of the code: towards zero
Quotient(a, b) == IF a < 0 THEN -((-a) \div b) ELSE a \div b

\* The sum is divided by a size, which is unsigned: so is the sum.
Mean(vs) == (Sum(vs) % 2 ^ Width) \div Len(vs)

Calculated(algorithm, vs) ==
  CASE algorithm = "delta" ->
         IF Len(vs) < agg.total THEN Quotient((Last(vs) - Head(vs)) * agg.total, Len(vs)) ELSE Last(vs) - Head(vs)
    [] algorithm = "mean" -> Mean(vs)
    [] algorithm = "minimum" -> Min(Range(vs))
    [] algorithm = "maximum" -> Max(Range(vs))
    [] algorithm = "integrate" -> Quotient(Sum(vs), agg.total)

\* The integral is compared before its fraction is cut off.
InRange(algorithm, vs) ==
  IF algorithm = "integrate" THEN Sum(vs) \in agg.min * agg.total .. agg.max * agg.total
  ELSE Calculated(algorithm, vs) \in agg.min .. agg.max

\* a result that is not available, or out of range, leaves the port as it is
Results(vs) ==
  [a \in Algorithms |->
     IF \/ Len(vs) < agg.total /\ ~agg.incomplete
        \/ ~InRange(a, vs)
     THEN results[a] ELSE {Calculated(a, vs)}]

-----------------------------------------------------------------------------
(* doWork and setLine *)

ResetValues ==
  /\ values' = <<>>
  /\ results' = NoResults
  /\ history' = <<>>
  /\ stored' = IF agg.persistent THEN <<>> ELSE stored

Collect(vs) ==
  /\ values' = vs
  /\ results' = Results(vs)
  /\ history' = vs
  /\ stored' = IF agg.persistent THEN vs ELSE stored

\* the list without its oldest value if there is no room
Shortened == IF Len(values) >= agg.total THEN Tail(values) ELSE values

Plausible(v) == values = <<>> \/ Last(values) - v \in agg.minDelta .. agg.maxDelta

Tolerates == values # <<>> /\ agg.allowedErrors > 0 /\ errors < agg.allowedErrors

\* The first doWork of an active port takes the persisted values, if they are
\* no older than an interval; an interval begins with their time.
FirstWork ==
  /\ aggLine = 1 /\ firstRun
  /\ firstRun' = FALSE
  /\ IF agg.persistent /\ stored # <<>> /\ ~due
     THEN /\ values' = stored
          /\ history' = stored
          /\ results' = Results(stored)
     ELSE UNCHANGED <<values, history, results>>
  /\ due' = (due \/ ~agg.persistent \/ stored = <<>>)
  /\ UNCHANGED <<agg, aggLine, errors, stored, misses>>

\* A value that is not plausible is accepted while errors are tolerated: what
\* is taken as fallback is not used.  The errors are forgotten with every value
\* that can be read.
QueryValue ==
  /\ aggLine = 1 /\ ~firstRun /\ due
  /\ due' = FALSE
  /\ \E v \in SourceValues :
       IF Plausible(v)
       THEN Collect(Append(Shortened, v)) /\ errors' = 0
       ELSE IF values # <<>> /\ agg.allowedErrors > 0
            THEN Collect(Append(Shortened, v)) /\ errors' = 1
            ELSE ResetValues /\ errors' = 0
  /\ misses' = 0
  /\ UNCHANGED <<agg, aggLine, firstRun>>

\* The last value stands in for one that can not be read.  If an unchanged value
\* is not plausible it counts as a second error, and is taken while that is
\* tolerated.
QueryError ==
  /\ aggLine = 1 /\ ~firstRun /\ due
  /\ due' = FALSE
  /\ IF Tolerates
     THEN LET unchanged == 0 \in agg.minDelta .. agg.maxDelta IN
          IF unchanged \/ errors + 1 < agg.allowedErrors
          THEN /\ Collect(Append(Shortened, Last(values)))
               /\ errors' = errors + (IF unchanged THEN 1 ELSE 2)
          ELSE ResetValues /\ errors' = errors + 1
     ELSE /\ IF values = <<>> THEN UNCHANGED <<values, results, history, stored>> ELSE ResetValues
          /\ errors' = errors
  /\ misses' = IF misses < MissCap THEN misses + 1 ELSE misses
  /\ UNCHANGED <<agg, aggLine, firstRun>>

IntervalOver ==
  /\ ~due
  /\ due' = TRUE
  /\ UNCHANGED <<agg, aggLine, values, errors, firstRun, results, history, stored, misses>>

Deactivate ==
  /\ aggLine = 1
  /\ aggLine' = 0
  /\ ResetValues
  /\ UNCHANGED <<agg, due, errors, firstRun, misses>>

Activate ==
  /\ aggLine = 0
  /\ aggLine' = 1
  /\ UNCHANGED <<agg, values, due, errors, firstRun, results, history, stored, misses>>

\* The process starts again; the persisted values are outdated or not.
AggregatorRestart ==
  /\ aggLine' = 1
  /\ values' = <<>> /\ history' = <<>> /\ results' = NoResults
  /\ errors' = 0
  /\ firstRun' = TRUE
  /\ due' \in BOOLEAN
  /\ misses' = 0
  /\ UNCHANGED <<agg, stored>>

AggregatorNext ==
  FirstWork \/ QueryValue \/ QueryError \/ IntervalOver \/ Deactivate \/ Activate \/ AggregatorRestart
AggregatorSpec == AggregatorInit /\ [][AggregatorNext]_aggVars

-----------------------------------------------------------------------------
(* Properties *)

\* The history port shows the values the statistics are made of, and the
\* persistent configuration has them: after every reset, switch, error and
\* restart.
HistoryAgrees ==
  /\ history = values
  /\ agg.persistent /\ values # <<>> => stored = values

\* Without values there are no results: the Dial ports are in an error state.
NoValuesNoResults == values = <<>> => results = NoResults

\* More errors in a row than are allowed, and the values are discarded.
ErrorsDiscard == misses > agg.allowedErrors => values = <<>>

\* Values, results and history belong together, after every reset, switch,
\* error and restart.
AggregatorInv == HistoryAgrees /\ NoValuesNoResults /\ ErrorsDiscard
=============================================================================
