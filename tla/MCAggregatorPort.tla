--------------------------- MODULE MCAggregatorPort ---------------------------
(* Instances of AggregatorPort for TLC. *)
EXTENDS AggregatorPort

Aggregating(total, minDelta, maxDelta, allowed, incomplete, persistent, max) ==
  [total |-> total, minDelta |-> minDelta, maxDelta |-> maxDelta, allowedErrors |-> allowed,
   incomplete |-> incomplete, persistent |-> persistent, min |-> -3, max |-> max]

MCAggregatorConfigs ==
  {Aggregating(2, -9, 9, 1, TRUE, TRUE, 1), Aggregating(2, -1, 1, 2, FALSE, TRUE, 9),
   Aggregating(3, -9, 0, 0, TRUE, FALSE, 9), Aggregating(2, 1, 2, 2, TRUE, TRUE, 0)}
MCSourceValues == -1 .. 1
=============================================================================
