---------------------------- MODULE LatencyManager ----------------------------
(***************************************************************************)
(* LatencyManager::evaluate() and the boosts AutoTuner takes from it, as   *)
(* functions of one sample s of PerfMonitor and of consecutiveOver_.       *)
(* s.gap is the smoothed ratio of latency to target in tenths, s.load the  *)
(* depth of the pool's queue, s.hit the cache hit rate in percent.         *)
(***************************************************************************)
EXTENDS Integers

CONSTANT MaxOver    \* 10: the limit of consecutiveOver_

ASSUME OverAssumption == MaxOver \in Nat

AtMost(n, max)  == IF n > max THEN max ELSE n
AtLeast(n, min) == IF n < min THEN min ELSE n

\* Mutant: consecutiveOver_ never falls.
OverSticky(over, s) == IF s.gap >= 11 THEN AtMost(over + 1, MaxOver) ELSE over

\* consecutiveOver_ after a sample: rises to its limit, falls one by one.
OverAfter(over, s) ==
    IF s.gap >= 11 THEN AtMost(over + 1, MaxOver) ELSE AtLeast(over - 1, 0)

GapUrgency(s) ==
    IF s.gap > 100 THEN 5 ELSE IF s.gap > 50 THEN 4 ELSE IF s.gap > 30 THEN 3
    ELSE IF s.gap > 20 THEN 2 ELSE IF s.gap > 15 THEN 1 ELSE 0

\* urgency_: one more if over target for three samples (only if urgent at all),
\* another one for six (even with no gap left).
Urgency(over, s) ==
    LET o == OverAfter(over, s)
        u == GapUrgency(s)
        v == IF o >= 3 /\ u > 0 THEN AtMost(u + 1, 5) ELSE u
    IN  IF o >= 6 THEN AtMost(v + 1, 5) ELSE v

Bottleneck(s) ==
    IF s.load > 10 THEN "queue" ELSE IF s.hit < 50 THEN "cache" ELSE "upstream"

threadBoost(u, s) ==
    u * (IF Bottleneck(s) = "queue" THEN 3 ELSE IF Bottleneck(s) = "upstream" THEN 2 ELSE 1)

connBoost(u, s) == u * (IF Bottleneck(s) = "queue" THEN 1 ELSE 2)

cacheRefreshBoost(u) == IF u <= 0 THEN 0 ELSE AtMost(2 + 2 * u, 12)
===============================================================================
