---------------------------- MODULE AutoTunerProofs ----------------------------
(***************************************************************************)
(* The limits of AutoTuner for every choice of its constants and every     *)
(* sequence of samples, and the pace of its growth.                        *)
(***************************************************************************)
EXTENDS AutoTuner, TLAPS

\* The helpers of the clamps.
LEMMA AtMostType ==
    ASSUME NEW n \in Int, NEW max \in Int
    PROVE  AtMost(n, max) \in Int /\ AtMost(n, max) <= max /\ AtMost(n, max) <= n
           /\ (AtMost(n, max) = n \/ AtMost(n, max) = max)
BY DEF AtMost

LEMMA AtLeastType ==
    ASSUME NEW n \in Int, NEW min \in Int
    PROVE  AtLeast(n, min) \in Int /\ AtLeast(n, min) >= min /\ AtLeast(n, min) >= n
           /\ (AtLeast(n, min) = n \/ AtLeast(n, min) = min)
BY DEF AtLeast

\* Urgency is a level from 0 to 5, so a boost is never negative.
LEMMA UrgencyType ==
    ASSUME TypeOK, NEW s \in Samples
    PROVE  Urgent(s) \in 0..5 /\ OverAfter(over, s) \in 0..MaxOver
<1>1. s \in Sample /\ over \in 0..MaxOver /\ MaxOver \in Nat
  BY TunerAssumption, OverAssumption DEF TypeOK
<1>2. OverAfter(over, s) \in 0..MaxOver
  BY <1>1 DEF OverAfter, AtMost, AtLeast, Sample
<1>3. GapUrgency(s) \in 0..5
  BY <1>1 DEF GapUrgency, Sample
<1> QED
  BY <1>2, <1>3 DEF Urgent, Urgency, AtMost

LEMMA BoostType ==
    ASSUME TypeOK, NEW s \in Samples
    PROVE  /\ threadBoost(Urgent(s), s) \in Nat
           /\ connBoost(Urgent(s), s) \in Nat
           /\ cacheRefreshBoost(Urgent(s)) \in Nat
<1>1. Urgent(s) \in 0..5
  BY UrgencyType
<1>2. cacheRefreshBoost(Urgent(s)) \in Nat
  BY <1>1 DEF cacheRefreshBoost, AtMost
<1>3. threadBoost(Urgent(s), s) \in Nat
  <2> DEFINE q == Bottleneck(s) = "queue"
  <2> DEFINE r == Bottleneck(s) = "upstream"
  <2>1. CASE q
    BY <1>1, <2>1 DEF threadBoost
  <2>2. CASE ~q /\ r
    BY <1>1, <2>2 DEF threadBoost
  <2>3. CASE ~q /\ ~r
    BY <1>1, <2>3 DEF threadBoost
  <2> QED
    BY <2>1, <2>2, <2>3
<1>4. connBoost(Urgent(s), s) \in Nat
  <2>1. CASE Bottleneck(s) = "queue"
    BY <1>1, <2>1 DEF connBoost
  <2>2. CASE Bottleneck(s) # "queue"
    BY <1>1, <2>2 DEF connBoost
  <2> QED
    BY <2>1, <2>2
<1> QED
  BY <1>2, <1>3, <1>4

\* What a cycle counts keeps its range.
LEMMA CountType ==
    ASSUME NEW n \in 0..MaxRun, NEW hit \in BOOLEAN
    PROVE  Count(n, hit) \in 0..MaxRun
BY TunerAssumption DEF Count, AtMost, AtLeast

LEMMA CountersType ==
    ASSUME TypeOK, NEW s \in Samples
    PROVE  HighLat(s) \in 0..MaxRun /\ HighErr(s) \in 0..MaxRun /\ LowLoad(s) \in 0..MaxRun
<1>1. highLat \in 0..MaxRun /\ highErr \in 0..MaxRun /\ lowLoad \in 0..MaxRun
  BY DEF TypeOK
<1>2. (s.lat > 200) \in BOOLEAN /\ (s.err > 50) \in BOOLEAN
      /\ (s.lat < 50 /\ s.err < 10) \in BOOLEAN
  OBVIOUS
<1> QED
  BY <1>1, <1>2, CountType DEF HighLat, HighErr, LowLoad

\* Cuts only lower, and keep the limits.
LEMMA CutsLower ==
    ASSUME TypeOK, NEW s \in Samples
    PROVE  /\ CutConns(s) \in MIN_CONNS..MAX_CONNS /\ CutConns(s) <= conns
           /\ CutThreads(s) \in MIN_THREADS..MAX_THREADS /\ CutThreads(s) <= threads
<1>1. /\ conns \in MIN_CONNS..MAX_CONNS /\ threads \in MIN_THREADS..MAX_THREADS
      /\ MIN_CONNS \in Nat /\ MAX_CONNS \in Nat /\ MIN_THREADS \in Nat /\ MAX_THREADS \in Nat
  BY TunerAssumption DEF TypeOK
<1>2. ASSUME NEW n \in Int, NEW min \in Int, NEW max \in Int, n \in min..max,
             NEW a \in BOOLEAN, NEW b \in BOOLEAN
      PROVE  Cut(n, a, b, min) \in min..max /\ Cut(n, a, b, min) <= n
  BY <1>2 DEF Cut, AtLeast
<1>3. Idle(s) \in BOOLEAN /\ Stuck(s) \in BOOLEAN /\ Spike(s) \in BOOLEAN
  BY DEF Idle, Stuck, Spike
<1>4. Cut(conns, Idle(s), Stuck(s), MIN_CONNS) \in MIN_CONNS..MAX_CONNS
      /\ Cut(conns, Idle(s), Stuck(s), MIN_CONNS) <= conns
  BY <1>1, <1>2, <1>3
<1>5. CutConns(s) \in MIN_CONNS..MAX_CONNS /\ CutConns(s) <= Cut(conns, Idle(s), Stuck(s), MIN_CONNS)
  <2> DEFINE c == Cut(conns, Idle(s), Stuck(s), MIN_CONNS)
  <2>1. c \in Int /\ c \in MIN_CONNS..MAX_CONNS
    BY <1>1, <1>4
  <2> HIDE DEF c
  <2>2. Cut(c, Spike(s), FALSE, MIN_CONNS) \in MIN_CONNS..MAX_CONNS
        /\ Cut(c, Spike(s), FALSE, MIN_CONNS) <= c
    BY <1>1, <1>3, <2>1 DEF Cut, AtLeast
  <2> QED
    BY <2>2 DEF CutConns, c
<1>6. CutThreads(s) \in MIN_THREADS..MAX_THREADS /\ CutThreads(s) <= threads
  BY <1>1, <1>2, <1>3 DEF CutThreads
<1> QED
  BY <1>1, <1>4, <1>5, <1>6

\* The rules keep connections within their limits.
LEMMA ConnsWithinLimits ==
    ASSUME TypeOK, NEW s \in Samples
    PROVE  NewConns(s) \in MIN_CONNS..MAX_CONNS
<1>1. /\ conns \in MIN_CONNS..MAX_CONNS /\ MIN_CONNS \in Nat /\ MAX_CONNS \in Nat
      /\ connBoost(Urgent(s), s) \in Nat
  BY TunerAssumption, BoostType DEF TypeOK
<1>2. ConnGrowth(s) \in 0..3
  BY DEF ConnGrowth
<1>3. RuledConns(s) \in MIN_CONNS..MAX_CONNS
  BY <1>1, <1>2 DEF RuledConns, AtMost, ProxySaturated
<1>4. BoostedConns(s) \in MIN_CONNS..MAX_CONNS
  BY <1>1, <1>3 DEF BoostedConns, AtMost
<1> QED
  BY <1>1, <1>4 DEF NewConns

\* So do the threads, by the clamp at the end.
LEMMA ThreadsWithinLimits ==
    ASSUME TypeOK, NEW s \in Samples
    PROVE  NewThreads(s) \in MIN_THREADS..MAX_THREADS /\ NewTurbo(s) \in 0..TurboMax
<1>1. /\ threads \in MIN_THREADS..MAX_THREADS /\ conns \in Nat /\ turbo \in 0..TurboMax
      /\ MIN_THREADS \in Nat /\ MAX_THREADS \in Nat /\ TurboMax \in Nat /\ TurboFull \in Nat
      /\ MIN_THREADS <= MAX_THREADS /\ threadBoost(Urgent(s), s) \in Nat
  BY TunerAssumption, BoostType DEF TypeOK
<1>2. NewTurbo(s) \in 0..TurboMax
  BY <1>1 DEF NewTurbo, AtMost, AtLeast
<1>3. Usable \in Int /\ ThreadGrowth(s) \in 0..2
  BY <1>1 DEF Usable, ThreadGrowth
<1>4. RuledThreads(s) \in Int
  BY <1>1, <1>3 DEF RuledThreads, AtMost, AtLeast
<1>5. NewThreads(s) \in MIN_THREADS..MAX_THREADS
  BY <1>1, <1>4 DEF NewThreads, AtMost, AtLeast
<1> QED
  BY <1>2, <1>5

\* The TTLs of a cut, and after the last rules.
LEMMA TtlsWithinLimits ==
    ASSUME TypeOK, NEW s \in Samples
    PROVE  /\ MinTtlCut(s) \in (TtlFloor - TtlStep)..MaxTTL /\ NegTtlCut(s) \in InitNeg..MaxNeg
           /\ NewMinTTL(s) \in (TtlFloor - TtlStep)..MaxTTL /\ NewNegTTL(s) \in InitNeg..MaxNeg
<1>1. /\ {TtlFloor, TtlStep, TtlRaise, NegRaise, StuckStep, StuckTtl, CollapseStep,
          MaxTTL, MaxNeg, InitNeg} \subseteq Nat
      /\ minTTL \in (TtlFloor - TtlStep)..MaxTTL /\ negTTL \in InitNeg..MaxNeg
      /\ TtlFloor <= StuckTtl /\ StuckTtl <= MaxTTL /\ TtlRaise + TtlStep <= MaxTTL
      /\ InitNeg <= NegRaise /\ NegRaise <= MaxNeg /\ TtlStep <= TtlFloor
  BY TunerAssumption DEF TypeOK
<1>2. s.lat \in Nat
  BY TunerAssumption DEF Sample
<1>3. MinTtlCut(s) \in (TtlFloor - TtlStep)..MaxTTL
  BY <1>1, <1>2 DEF MinTtlCut, AtMost, Boost
<1>4. NegTtlCut(s) \in InitNeg..MaxNeg
  BY <1>1 DEF NegTtlCut, AtMost
<1>5. NewMinTTL(s) \in (TtlFloor - TtlStep)..MaxTTL
  BY <1>1, <1>3 DEF NewMinTTL, Raise, Relax
<1>6. NewNegTTL(s) \in InitNeg..MaxNeg
  BY <1>1, <1>4 DEF NewNegTTL, AtMost
<1> QED
  BY <1>3, <1>4, <1>5, <1>6

LEMMA RefreshWithinLimits ==
    ASSUME TypeOK, NEW s \in Samples
    PROVE  NewRefresh(s) \in 5..15
BY BoostType DEF TypeOK, NewRefresh, AtMost, AtLeast

-------------------------------------------------------------------------------
\* The histories never run ahead of what the code keeps: a connection change is
\* no older than the last growth, and until the cooldown is over it has exactly
\* the cycles left that the history says.
Paced ==
    /\ age <= sinceGrowth
    /\ sinceCut < CooldownCycles => cooldown + sinceCut = CooldownCycles + 1

TunerInv == TypeOK /\ Paced

LEMMA TunerInit == Init => TunerInv
BY TunerAssumption, OverAssumption DEF Init, TunerInv, TypeOK, Paced

\* The part all cycles share.
LEMMA ObserveType ==
    ASSUME TunerInv, NEW s \in Samples, Observe(s), conns' \in Int
    PROVE  /\ highLat' \in 0..MaxRun /\ highErr' \in 0..MaxRun /\ lowLoad' \in 0..MaxRun
           /\ over' \in 0..MaxOver /\ cooldown' \in 0..CooldownCycles
           /\ samples' \in 0..MaxSamples
           /\ sinceCut' \in 1..CooldownCycles /\ sinceGrowth' \in 1..HoldoffCycles
           /\ sinceCut' < CooldownCycles => cooldown' + sinceCut' = CooldownCycles + 1
<1>1. TypeOK /\ Paced
  BY DEF TunerInv
<1>2. /\ cooldown \in 0..CooldownCycles /\ sinceCut \in 1..CooldownCycles
      /\ sinceGrowth \in 1..HoldoffCycles /\ samples \in 0..MaxSamples
      /\ CooldownCycles \in Nat \ {0} /\ HoldoffCycles \in Nat \ {0}
      /\ MaxSamples \in Nat \ {0} /\ MaxRun \in Nat
  BY <1>1, TunerAssumption DEF TypeOK
<1>3. highLat' \in 0..MaxRun /\ highErr' \in 0..MaxRun /\ lowLoad' \in 0..MaxRun
  BY <1>1, <1>2, CountersType DEF Observe
<1>4. over' \in 0..MaxOver
  BY <1>1, UrgencyType DEF Observe
<1>5. cooldown' \in 0..CooldownCycles /\ samples' \in 0..MaxSamples
  BY <1>2 DEF Observe, AtLeast, Collected
<1>6. sinceCut' \in 1..CooldownCycles /\ sinceGrowth' \in 1..HoldoffCycles
  BY <1>2 DEF Observe, AtMost
<1>7. sinceCut' < CooldownCycles => cooldown' + sinceCut' = CooldownCycles + 1
  BY <1>1, <1>2 DEF Observe, AtMost, AtLeast, Paced
<1> QED
  BY <1>3, <1>4, <1>5, <1>6, <1>7

LEMMA CutKeepsInv ==
    ASSUME TunerInv, NEW s \in Samples, TuneCut(s)
    PROVE  TunerInv'
<1>1. TypeOK
  BY DEF TunerInv
<1>2. /\ conns' \in MIN_CONNS..MAX_CONNS /\ conns' <= conns /\ threads' \in MIN_THREADS..MAX_THREADS
      /\ conns' \in Int
  BY <1>1, CutsLower, TunerAssumption DEF TuneCut
<1>3. minTTL' \in (TtlFloor - TtlStep)..MaxTTL /\ negTTL' \in InitNeg..MaxNeg
  BY <1>1, TtlsWithinLimits DEF TuneCut
<1>4. Observe(s)
  BY DEF TuneCut
<1>5. /\ age \in 1..HoldoffCycles /\ sinceGrowth \in 1..HoldoffCycles /\ HoldoffCycles \in Nat \ {0}
      /\ conns \in Int /\ age <= sinceGrowth
  BY <1>1, TunerAssumption DEF TypeOK, TunerInv, Paced
<1>6. age' \in 1..HoldoffCycles /\ age' <= sinceGrowth'
  BY <1>2, <1>5 DEF TuneCut, Observe, AtMost
<1>7. refreshPct' \in 5..15 /\ fanOut' \in BOOLEAN /\ turbo' \in 0..TurboMax
  BY <1>1 DEF TuneCut, TypeOK
<1>8. TypeOK'
  BY <1>2, <1>3, <1>4, <1>6, <1>7, ObserveType DEF TypeOK
<1> QED
  BY <1>2, <1>4, <1>6, <1>8, ObserveType DEF TunerInv, Paced

LEMMA GrowKeepsInv ==
    ASSUME TunerInv, NEW s \in Samples, TuneGrow(s)
    PROVE  TunerInv'
<1>1. TypeOK
  BY DEF TunerInv
<1>2. /\ conns' \in MIN_CONNS..MAX_CONNS /\ threads' \in MIN_THREADS..MAX_THREADS
      /\ turbo' \in 0..TurboMax /\ conns' \in Int
  BY <1>1, ConnsWithinLimits, ThreadsWithinLimits, TunerAssumption DEF TuneGrow
<1>3. minTTL' \in (TtlFloor - TtlStep)..MaxTTL /\ negTTL' \in InitNeg..MaxNeg
  BY <1>1, TtlsWithinLimits DEF TuneGrow
<1>4. Observe(s)
  BY DEF TuneGrow
<1>5. /\ age \in 1..HoldoffCycles /\ sinceGrowth \in 1..HoldoffCycles /\ HoldoffCycles \in Nat \ {0}
      /\ conns \in Int /\ age <= sinceGrowth
  BY <1>1, TunerAssumption DEF TypeOK, TunerInv, Paced
<1>6. age' \in 1..HoldoffCycles /\ age' <= sinceGrowth'
  BY <1>2, <1>5 DEF TuneGrow, Observe, AtMost
<1>7. refreshPct' \in 5..15 /\ fanOut' \in BOOLEAN
  BY <1>1, RefreshWithinLimits DEF TuneGrow, NewFanOut, TypeOK
<1>8. TypeOK'
  BY <1>2, <1>3, <1>4, <1>6, <1>7, ObserveType DEF TypeOK
<1> QED
  BY <1>2, <1>4, <1>6, <1>8, ObserveType DEF TunerInv, Paced

LEMMA TunerNext ==
    ASSUME TunerInv, [Next]_vars
    PROVE  TunerInv'
<1>1. CASE UNCHANGED vars
  BY <1>1 DEF TunerInv, TypeOK, Paced, vars
<1>2. CASE Next
  BY <1>2, CutKeepsInv, GrowKeepsInv DEF Next, Tune
<1> QED
  BY <1>1, <1>2

\* Through any sequence of samples the recommendations stay within their limits,
\* and the minimum TTL never passes the maximum (auto_tuner.cpp, tune()).
THEOREM TunerLimits == Spec => []TypeOK
<1>1. Init => TunerInv
  BY TunerInit
<1>2. TunerInv /\ [Next]_vars => TunerInv'
  BY TunerNext
<1>3. TunerInv => TypeOK
  BY DEF TunerInv
<1> QED
  BY <1>1, <1>2, <1>3, PTL DEF Spec

\* One step: what grows, grows late enough.
LEMMA StepPaced ==
    ASSUME TunerInv, [Next]_vars
    PROVE  [/\ conns' > conns => sinceGrowth >= HoldoffCycles
            /\ conns' > conns \/ threads' > threads => sinceCut >= CooldownCycles]_vars
<1>1. SUFFICES ASSUME NEW s \in Samples, Tune(s)
               PROVE  /\ conns' > conns => sinceGrowth >= HoldoffCycles
                      /\ conns' > conns \/ threads' > threads => sinceCut >= CooldownCycles
  BY DEF Next
<1>2. TypeOK /\ Paced
  BY DEF TunerInv
<1>3. /\ conns \in Int /\ threads \in Int /\ age \in Int /\ sinceGrowth \in Int /\ cooldown \in Int
      /\ sinceCut \in 1..CooldownCycles /\ CooldownCycles \in Nat /\ HoldoffCycles \in Nat
  BY <1>2, TunerAssumption DEF TypeOK
<1>4. CASE TuneCut(s)
  <2>1. conns' <= conns /\ threads' <= threads /\ conns' \in Int /\ threads' \in Int
    BY <1>2, <1>4, CutsLower, TunerAssumption DEF TuneCut
  <2> QED
    BY <1>3, <2>1
<1>5. CASE TuneGrow(s)
  <2>1. cooldown <= 1
    BY <1>3, <1>5 DEF TuneGrow, SkipGrowth
  <2>2. sinceCut >= CooldownCycles
    BY <1>2, <1>3, <2>1 DEF Paced
  <2>3. conns' > conns => age >= HoldoffCycles
    BY <1>3, <1>5 DEF TuneGrow, NewConns
  <2> QED
    BY <1>2, <1>3, <2>2, <2>3 DEF Paced
<1> QED
  BY <1>1, <1>4, <1>5 DEF Tune

\* After an anomaly nothing grows until the cooldown is over, and connections
\* never grow twice within the holdoff (auto_tuner.cpp, skipGrowth and
\* CONN_CHANGE_HOLDOFF).
THEOREM TunerPace == Spec => GrowthPaced
<1>1. Init => TunerInv
  BY TunerInit
<1>2. TunerInv /\ [Next]_vars => TunerInv'
  BY TunerNext
<1>3. TunerInv /\ [Next]_vars
        => [/\ conns' > conns => sinceGrowth >= HoldoffCycles
            /\ conns' > conns \/ threads' > threads => sinceCut >= CooldownCycles]_vars
  BY StepPaced
<1> QED
  BY <1>1, <1>2, <1>3, PTL DEF Spec, GrowthPaced
===============================================================================
