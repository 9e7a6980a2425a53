------------------------------- MODULE AutoTuner -------------------------------
(***************************************************************************)
(* AutoTuner::tune(): every three seconds it takes a sample of PerfMonitor *)
(* and moves the recommended number of connections and of threads, the     *)
(* refresh threshold, the fan-out flag and the two TTLs of CachingResolver.*)
(*                                                                         *)
(* A cycle first looks for idleness and for anomalies, which cut; only a   *)
(* cycle with neither, and past the cooldown of the last anomaly, goes on  *)
(* to the rules that grow and relax.  Both kinds of cycle are actions.     *)
(*                                                                         *)
(* A sample s is what one cycle reads: lat, p95 (ms), err (per mille),     *)
(* hit, util (percent), load (queue depth), trend, var, qps and gap.  The  *)
(* filters that compute lat, trend, var and gap from the past are not      *)
(* modelled: any sample may follow any other.  integral_, pidOutput and    *)
(* the two prev... members feed nothing but the log, and the probe of idle *)
(* connections needs an HttpResolver, which main() does not make.          *)
(***************************************************************************)
EXTENDS LatencyManager

CONSTANTS
    Samples,                     \* what PerfMonitor::snapshot() may yield
    MIN_CONNS, MAX_CONNS,        \* 24, 48
    MIN_THREADS, MAX_THREADS,    \* 16, 32
    InitConns, InitThreads,      \* 32, 20
    IdleCycles, QuietCycles,     \* 8, 12: cycles of low load before shrinking
    CooldownCycles,              \* 6: cycles after an anomaly
    TurboMax, TurboFull,         \* 10, 5: limits of turboCycles_, with threads at their limit
    HoldoffCycles,               \* 5: CONN_CHANGE_HOLDOFF of 15 s in cycles of 3 s
    Boot, FanOff,                \* 12, 24: samples before rules apply
    BoostAfter, CollapseAfter,   \* 30, 60
    TtlFloor, TtlStep, TtlRaise, \* 300, 60, 900: relax above, step, raise below
    NegRaise,                    \* 600: raised and stuck negative TTL
    StuckStep, StuckTtl,         \* 120, 1200
    CollapseStep, BoostBelow,    \* 300, 3600
    MaxTTL, MaxNeg,              \* 7200, 3600
    InitTtl, InitNeg,            \* 600, 300
    MaxRun, MaxSamples           \* bounds on the counters of cycles and samples

Sample == [lat : Nat, p95 : Nat, err : Nat, hit : 0..100, util : 0..100,
           load : Nat, trend : Int, var : Nat, qps : Nat, gap : Nat]

ASSUME TunerAssumption ==
    /\ Samples \subseteq Sample
    /\ {MIN_CONNS, MAX_CONNS, MIN_THREADS, MAX_THREADS, InitConns, InitThreads,
        IdleCycles, QuietCycles, CooldownCycles, TurboMax, TurboFull,
        HoldoffCycles, Boot, FanOff,
        BoostAfter, CollapseAfter, TtlFloor, TtlStep, TtlRaise, NegRaise,
        StuckStep, StuckTtl, CollapseStep, BoostBelow, MaxTTL, MaxNeg,
        InitTtl, InitNeg, MaxRun, MaxSamples} \subseteq Nat
    /\ InitConns \in MIN_CONNS..MAX_CONNS /\ InitThreads \in MIN_THREADS..MAX_THREADS
    /\ CooldownCycles > 0 /\ HoldoffCycles > 0
    /\ MaxSamples > 0
    /\ \A n \in {Boot, FanOff, BoostAfter, CollapseAfter} : n + 1 < MaxSamples
    /\ TtlStep <= TtlFloor
    /\ TtlFloor <= InitTtl /\ InitTtl <= MaxTTL
    /\ TtlFloor <= StuckTtl /\ StuckTtl <= MaxTTL
    /\ TtlRaise + TtlStep <= MaxTTL
    /\ InitNeg <= NegRaise /\ NegRaise <= MaxNeg

VARIABLES
    conns, threads,              \* connCount_, threadCount_
    refreshPct, fanOut,          \* refreshPct_, fanOut_
    minTTL, negTTL,              \* CachingResolver's minTTLSecs, negativeTTLSecs
    highLat, highErr, lowLoad,   \* consecutiveHighLat_, ...HighErr_, ...LowLoad_
    turbo, cooldown,             \* turboCycles_, anomalyCooldown_
    age,                         \* cycles since lastConnChange_, as the next one sees them
    samples,                     \* samplesCollected_
    over,                        \* consecutiveOver_ of LatencyManager
    sinceCut, sinceGrowth        \* history: cycles since the last anomaly, and since
                                 \* connections last grew

vars == <<conns, threads, refreshPct, fanOut, minTTL, negTTL, highLat, highErr,
          lowLoad, turbo, cooldown, age, samples, over, sinceCut, sinceGrowth>>

Init ==
    /\ conns = InitConns /\ threads = InitThreads
    /\ refreshPct = 10 /\ fanOut = TRUE
    /\ minTTL = InitTtl /\ negTTL = InitNeg
    /\ highLat = 0 /\ highErr = 0 /\ lowLoad = 0
    /\ turbo = 0 /\ cooldown = 0
    /\ age = HoldoffCycles
    /\ samples = 0 /\ over = 0
    /\ sinceCut = CooldownCycles /\ sinceGrowth = HoldoffCycles

-------------------------------------------------------------------------------
(* What a cycle sees *)

Count(n, hit) == IF hit THEN AtMost(n + 1, MaxRun) ELSE AtLeast(n - 1, 0)

HighLat(s) == Count(highLat, s.lat > 200)
HighErr(s) == Count(highErr, s.err > 50)
LowLoad(s) == Count(lowLoad, s.lat < 50 /\ s.err < 10)
Urgent(s)  == Urgency(over, s)

Idle(s)     == s.load = 0 /\ LowLoad(s) >= IdleCycles
Stuck(s)    == s.load > 200 /\ HighLat(s) >= 3
\* A stuck queue has set consecutiveHighErr_ to 0 by then.
Spike(s)    == ~Stuck(s) /\ s.err > 30 /\ HighErr(s) >= 2
Collapse(s) == s.hit < 50 /\ samples > CollapseAfter
Anomaly(s)  == Stuck(s) \/ Spike(s) \/ Collapse(s)
Boost(s)    == /\ ~Anomaly(s)
               /\ s.hit < 70 /\ s.lat > 150
               /\ samples > BoostAfter /\ minTTL < BoostBelow

\* Mutant: the cooldown does not hold back growth.
SkipGrowthOnce(s) == Anomaly(s) \/ Idle(s)

\* skipGrowth.  The cooldown is decremented first: at 1 growth is back.
SkipGrowth(s) == Anomaly(s) \/ Idle(s) \/ cooldown > 1

-------------------------------------------------------------------------------
(* Cuts and the TTLs of an anomaly *)

Cut(n, one, two, min) ==
    AtLeast(n - (IF one THEN 1 ELSE 0) - (IF two THEN 2 ELSE 0), min)

CutThreads(s) == Cut(threads, Idle(s), Stuck(s), MIN_THREADS)
CutConns(s)   == Cut(Cut(conns, Idle(s), Stuck(s), MIN_CONNS), Spike(s), FALSE, MIN_CONNS)

\* Mutant: the collapse raises the TTL without a limit.
MinTtlUncapped(s) ==
    IF Collapse(s) THEN minTTL + CollapseStep ELSE minTTL

MinTtlCut(s) ==
    LET m == IF Stuck(s) THEN AtMost(minTTL + StuckStep, StuckTtl) ELSE minTTL
    IN  IF Collapse(s) THEN AtMost(m + CollapseStep, MaxTTL)
        ELSE IF Boost(s) THEN AtMost(m + (s.lat - 50) * 2, MaxTTL) ELSE m

NegTtlCut(s) ==
    LET n == IF Stuck(s) THEN AtMost(negTTL + StuckStep, NegRaise) ELSE negTTL
    IN  IF Collapse(s) THEN AtMost(n + StuckStep, MaxNeg)
        ELSE IF Boost(s) THEN AtMost(n + TtlStep, MaxNeg) ELSE n

-------------------------------------------------------------------------------
(* Connections *)

\* The latency is the network's, not the connections'.
ProxySaturated(s) == s.lat > 1000 /\ s.util < 70 /\ conns > MIN_CONNS

\* The rules that add connections, the first that applies; 0 if none does.
ConnGrowth(s) ==
    LET room == conns < MAX_CONNS
        wide == IF s.util > 95 THEN 3 ELSE 2
    IN  IF room /\ s.util > 90 /\ s.lat > 200 THEN wide
        ELSE IF room /\ s.util > 70 /\ s.trend > 3 /\ s.qps > 5 THEN 2
        ELSE IF room /\ s.util > 85 /\ s.qps > 5 THEN wide
        ELSE IF s.err > 20 \/ HighErr(s) >= 2 THEN 2
        ELSE IF room /\ ((s.lat > 200 /\ s.qps > 5) \/ s.trend > 5) THEN 1
        ELSE 0

\* newConn before the boost of LatencyManager: a rule that adds overrules low load.
RuledConns(s) ==
    IF turbo >= 2 THEN IF s.load > 50 THEN AtMost(conns + 4, MAX_CONNS) ELSE conns
    ELSE IF ProxySaturated(s) THEN conns - 1
    ELSE IF ConnGrowth(s) > 0 THEN AtMost(conns + ConnGrowth(s), MAX_CONNS)
    ELSE IF LowLoad(s) >= 3 /\ conns > MIN_CONNS THEN conns - 1
    ELSE conns

BoostedConns(s) ==
    IF Urgent(s) > 0 /\ ~ProxySaturated(s)
    THEN AtMost(RuledConns(s) + connBoost(Urgent(s), s), MAX_CONNS)
    ELSE RuledConns(s)

\* Growth is suppressed during the holdoff; a reduction is not.
NewConns(s) ==
    IF BoostedConns(s) > conns /\ age < HoldoffCycles THEN conns ELSE BoostedConns(s)

-------------------------------------------------------------------------------
(* Threads *)

NewTurbo(s) ==
    LET u == AtMost(turbo + 1, TurboMax)
    IN  IF s.load <= 50 THEN AtLeast(turbo - 1, 0)
        ELSE IF u >= 2 /\ threads >= MAX_THREADS THEN AtMost(u, TurboFull)
        ELSE u

ThreadGrowth(s) ==
    IF s.util > 50 /\ s.trend > 3 THEN 1
    ELSE IF (s.util > 80 /\ s.lat > 200) \/ (s.load > 3 /\ s.lat > 100) THEN 2
    ELSE IF s.load > 5 THEN 1
    ELSE 0

\* The threads that conns connections can use.
Usable == conns + conns \div 5

\* newThreads before the boost: outside turbo, a rule that shrinks overrules
\* one that grows.  (The rule for load = 0 is never reached: idle recovery has
\* the same condition and ends the cycle.)
RuledThreads(s) ==
    IF NewTurbo(s) >= 2 THEN IF s.load > 50 THEN AtMost(threads + 8, MAX_THREADS) ELSE threads
    ELSE IF threads > Usable /\ threads > MIN_THREADS THEN AtLeast(Usable, MIN_THREADS)
    ELSE IF s.util < 70 /\ s.load < 3 /\ LowLoad(s) >= QuietCycles /\ threads > MIN_THREADS
    THEN threads - 1
    ELSE AtMost(threads + ThreadGrowth(s), MAX_THREADS)

NewThreads(s) ==
    LET boosted == IF Urgent(s) > 0 /\ NewTurbo(s) < 2
                   THEN AtMost(RuledThreads(s) + threadBoost(Urgent(s), s), MAX_THREADS)
                   ELSE RuledThreads(s)
    IN  AtMost(AtLeast(boosted, MIN_THREADS), MAX_THREADS)

-------------------------------------------------------------------------------
(* Fan-out, refresh threshold, TTLs *)

NewFanOut(s) ==
    \/ samples < Boot \/ Urgent(s) > 0 \/ s.err > 30 \/ s.p95 > 120 \/ s.lat > 300
    \/ (s.var > 50 /\ HighLat(s) >= 2)
    \/ (fanOut /\ ~(samples > FanOff /\ s.err < 10 /\ s.p95 < 60 /\ s.var < 20))

NewRefresh(s) ==
    IF samples < Boot THEN 15
    ELSE IF Urgent(s) > 0 /\ refreshPct < 50
    THEN AtMost(refreshPct + cacheRefreshBoost(Urgent(s)), 10)
    ELSE IF s.hit < 30 /\ refreshPct < 30 THEN AtMost(refreshPct + 5, 10)
    ELSE IF s.hit > 80 /\ refreshPct > 5 THEN AtLeast(refreshPct - 2, 5)
    ELSE refreshPct

\* Mutant: the TTL is never relaxed.
RelaxNever(s, m) == FALSE

\* m is the minimum TTL after the boost of this cycle.
Raise(s, m) == samples > Boot /\ s.lat > 80 /\ s.hit < 92 /\ m < TtlRaise
Relax(s, m) == samples > Boot /\ s.lat < 40 /\ s.hit > 95 /\ m > TtlFloor

NewMinTTL(s) ==
    LET m == MinTtlCut(s)
    IN  IF Raise(s, m) THEN m + TtlStep ELSE IF Relax(s, m) THEN m - TtlStep ELSE m

NewNegTTL(s) ==
    IF Raise(s, MinTtlCut(s)) THEN AtMost(NegTtlCut(s) + TtlStep, NegRaise) ELSE NegTtlCut(s)

-------------------------------------------------------------------------------
\* samplesCollected_++.  Above every threshold the number does not matter: it
\* goes back and forth there, so that a cycle is never a stuttering step.
Collected == IF samples = MaxSamples THEN MaxSamples - 1 ELSE samples + 1

\* The part of every cycle: counters, LatencyManager, cooldown.
Observe(s) ==
    /\ highLat' = IF Stuck(s) THEN 0 ELSE HighLat(s)
    /\ highErr' = IF Stuck(s) \/ Spike(s) THEN 0 ELSE HighErr(s)
    /\ lowLoad' = LowLoad(s)
    /\ over' = OverAfter(over, s)
    /\ cooldown' = IF Anomaly(s) THEN CooldownCycles ELSE AtLeast(cooldown - 1, 0)
    /\ samples' = Collected
    /\ sinceCut' = IF Anomaly(s) THEN 1 ELSE AtMost(sinceCut + 1, CooldownCycles)
    /\ sinceGrowth' = IF conns' > conns THEN 1 ELSE AtMost(sinceGrowth + 1, HoldoffCycles)

\* A cycle that ends at "if (skipGrowth)".
TuneCut(s) ==
    /\ SkipGrowth(s)
    /\ conns' = CutConns(s)
    /\ Observe(s)
    /\ threads' = CutThreads(s)
    /\ minTTL' = MinTtlCut(s)
    /\ negTTL' = NegTtlCut(s)
    /\ age' = IF Anomaly(s) THEN 1 ELSE AtMost(age + 1, HoldoffCycles)
    /\ UNCHANGED <<refreshPct, fanOut, turbo>>

\* A cycle that runs all rules.
TuneGrow(s) ==
    /\ ~SkipGrowth(s)
    /\ conns' = NewConns(s)
    /\ Observe(s)
    /\ age' = IF NewConns(s) # conns THEN 1 ELSE AtMost(age + 1, HoldoffCycles)
    /\ threads' = NewThreads(s)
    /\ turbo' = NewTurbo(s)
    /\ fanOut' = NewFanOut(s)
    /\ refreshPct' = NewRefresh(s)
    /\ minTTL' = NewMinTTL(s)
    /\ negTTL' = NewNegTTL(s)

Tune(s) == TuneCut(s) \/ TuneGrow(s)

Next == \E s \in Samples : Tune(s)

\* tuneThread_ runs until stop().
Spec == Init /\ [][Next]_vars /\ WF_vars(Next)

-------------------------------------------------------------------------------
(* Properties *)

\* The ranges of AutoTuner's members, and what others assume of them:
\* ThreadPool::resize() a positive number of threads, computeCacheTTL() a
\* minTTL that is not above maxTTL, needsRefresh() a percentage.
TypeOK ==
    /\ conns \in MIN_CONNS..MAX_CONNS /\ threads \in MIN_THREADS..MAX_THREADS
    /\ refreshPct \in 5..15 /\ fanOut \in BOOLEAN
    /\ minTTL \in (TtlFloor - TtlStep)..MaxTTL /\ negTTL \in InitNeg..MaxNeg
    /\ {highLat, highErr, lowLoad} \subseteq 0..MaxRun
    /\ turbo \in 0..TurboMax /\ cooldown \in 0..CooldownCycles
    /\ age \in 1..HoldoffCycles /\ over \in 0..MaxOver
    /\ samples \in 0..MaxSamples
    /\ sinceCut \in 1..CooldownCycles /\ sinceGrowth \in 1..HoldoffCycles

\* "prevent growth" after an anomaly: for the cycles of the cooldown neither
\* connections nor threads grow, whatever the samples say, and connections
\* never grow twice within the holdoff, however the growth came about (turbo,
\* rules, LatencyManager) and whatever cuts lie between.
GrowthPaced ==
    [][/\ conns' > conns => sinceGrowth >= HoldoffCycles
       /\ conns' > conns \/ threads' > threads => sinceCut >= CooldownCycles]_vars

\* A quiet system: what the rules for low load ask for.
Calm == {s \in Samples : /\ s.lat < 40 /\ s.p95 < 60 /\ s.err < 10 /\ s.var < 20
                         /\ s.hit > 95 /\ s.util <= 50 /\ s.load < 3
                         /\ s.trend <= 5 /\ s.gap < 11}

StaysIn(S) == <>[][\E s \in S : Tune(s)]_vars

\* Whatever happened before, a system that stays calm gets back to the smallest
\* sizes: idle recovery and the rules for low load between them leave no sample
\* after which nothing shrinks, and no counter keeps growth alive.
CalmShrinks ==
    StaysIn(Calm) => <>[](conns = MIN_CONNS /\ threads = MIN_THREADS)

Relaxed == minTTL <= TtlFloor /\ ~fanOut

\* A calm system with a trickle of queued queries relaxes its TTLs and turns
\* fan-out off for good.
TrickleRelaxes == StaysIn({s \in Calm : s.load > 0}) => <>[]Relaxed
===============================================================================
