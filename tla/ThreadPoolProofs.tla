--------------------------- MODULE ThreadPoolProofs ---------------------------
(***************************************************************************)
(* Proofs about ThreadPool for every number of workers, producers and      *)
(* tasks: its counts, its shutdown, and that it implements TaskQueue, with *)
(* a bound on concurrent service that comes from the count of threads.     *)
(***************************************************************************)
EXTENDS ThreadPool, FiniteSetTheorems, TLAPS

\* A worker about to swap holds a count above MIN_WORKERS: it was above a
\* target when the worker tested it, and no target is below MIN_WORKERS.
CasAboveMin == \A w \in Workers : wpc[w] = "cas" => cur[w] > MinWorkers

\* Only shutdown() sends a worker to the fetch_sub at the end of workerLoop().
ExitOnlyOnStop == \A w \in Workers : wpc[w] = "exit" => stop

\* The inductive invariant behind the two statements on liveCount_.
CountInv ==
    /\ TypeOK
    /\ CasAboveMin
    /\ ExitOnlyOnStop
    /\ LiveCountExact
    /\ NeverBelowMin

\* The number of worker threads after one is started and after one ends.
LEMMA AliveSpawn ==
    ASSUME TypeOK, NEW w \in Workers, wpc[w] = "none",
           NEW k \in WorkerPC \ {"none"}, wpc' = [wpc EXCEPT ![w] = k]
    PROVE  Cardinality(Alive') = Cardinality(Alive) + 1
<1>1. Alive' = Alive \cup {w} /\ w \notin Alive
    BY DEF Alive, TypeOK, WorkerPC
<1>2. IsFiniteSet(Alive)
    BY PoolAssumption, FS_Subset DEF Alive
<1>3. QED
    BY <1>1, <1>2, FS_AddElement

LEMMA AliveExit ==
    ASSUME TypeOK, NEW w \in Workers, wpc[w] # "none",
           wpc' = [wpc EXCEPT ![w] = "none"]
    PROVE  /\ Cardinality(Alive') = Cardinality(Alive) - 1
           /\ Cardinality(Alive) >= 1
           /\ Cardinality(Alive) \in Nat
<1>1. Alive' = Alive \ {w} /\ w \in Alive
    BY DEF Alive, TypeOK
<1>2. IsFiniteSet(Alive)
    BY PoolAssumption, FS_Subset DEF Alive
<1>3. Cardinality(Alive) \in Nat /\ Cardinality(Alive) # 0
    BY <1>1, <1>2, FS_CardinalityType, FS_EmptySet
<1>4. QED
    BY <1>1, <1>2, <1>3, FS_RemoveElement

\* A step between two program counters of a living worker leaves the count alone.
LEMMA AliveSame ==
    ASSUME TypeOK, NEW w \in Workers, wpc[w] # "none",
           NEW k \in WorkerPC \ {"none"}, wpc' = [wpc EXCEPT ![w] = k]
    PROVE  Alive' = Alive
BY DEF Alive, TypeOK, WorkerPC

LEMMA AliveNotifyAll ==
    ASSUME TypeOK, wpc' = NotifyAll
    PROVE  Alive' = Alive
BY DEF Alive, TypeOK, WorkerPC, NotifyAll

\* resize() only ever stores a target between MIN_WORKERS and MAX_WORKERS.
LEMMA ClampInRange ==
    ASSUME NEW n \in ResizeArgs
    PROVE  Clamp(n) \in MinWorkers..MaxWorkers
<1>1. n \in Nat /\ MinWorkers \in Nat /\ MaxWorkers \in Nat /\ MinWorkers <= MaxWorkers
  <2>1. MinWorkers \in Nat /\ InitWorkers \in Nat /\ MaxWorkers \in Nat
      BY PoolAssumption
  <2>2. MinWorkers <= InitWorkers /\ InitWorkers <= MaxWorkers
      BY PoolAssumption
  <2>3. QED
      BY <2>1, <2>2, PoolAssumption
<1>2. QED
    BY <1>1 DEF Clamp

LEMMA CountInit == Init => CountInv
<1> SUFFICES ASSUME Init PROVE CountInv
    OBVIOUS
<1>1. PICK W \in SUBSET Workers :
         /\ Cardinality(W) = InitWorkers
         /\ wpc = [w \in Workers |-> IF w \in W THEN "lock" ELSE "none"]
    BY DEF Init
<1>2. TypeOK
  <2>1. wpc \in [Workers -> WorkerPC]
      BY <1>1 DEF WorkerPC
  <2>2. stop \in BOOLEAN /\ running \in BOOLEAN
      BY DEF Init
  <2>3. tasks \in Seq(Tasks)
      BY DEF Init
  <2>4. QED
      BY <2>1, <2>2, <2>3, PoolAssumption DEF Init, TypeOK, TaskState, ProducerPC, ResizePC
<1>3. Alive = W
    BY <1>1 DEF Alive
<1>4. QED
    BY <1>1, <1>2, <1>3, PoolAssumption
    DEF Init, CountInv, CasAboveMin, ExitOnlyOnStop, LiveCountExact, NeverBelowMin

-------------------------------------------------------------------------------
\* Every action keeps the variables in their types.
LEMMA TypeStep == CountInv /\ Next => TypeOK'
<1> SUFFICES ASSUME CountInv, Next PROVE TypeOK'
    OBVIOUS
<1> USE PoolAssumption DEF CountInv, TypeOK, WorkerPC, TaskState, ProducerPC, ResizePC
<1>1. ASSUME NEW p \in Producers, Receiver(p) PROVE TypeOK'
  <2>1. CASE Receive(p)
      BY <2>1 DEF Receive
  <2>2. CASE TryEnqueueFull(p)
      BY <2>2 DEF TryEnqueueFull
  <2>3. CASE InlineDone(p)
      BY <2>3 DEF InlineDone
  <2>4. CASE NotifyOne(p)
      BY <2>4 DEF NotifyOne, Asleep
  <2>5. ASSUME NEW t \in Tasks, TryEnqueue(p, t) PROVE TypeOK'
      BY <2>5 DEF TryEnqueue
  <2>6. QED
      BY <1>1, <2>1, <2>2, <2>3, <2>4, <2>5 DEF Receiver
<1>2. ASSUME NEW w \in Workers, Worker(w) PROVE TypeOK'
  <2>1. CASE WaitAgain(w)
      BY <2>1 DEF WaitAgain
  <2>2. CASE BreakOnStop(w)
      BY <2>2 DEF BreakOnStop
  <2>3. CASE ShrinkUnderLock(w)
      BY <2>3 DEF ShrinkUnderLock
  <2>4. CASE TakeTask(w)
    <3>1. tasks' \in Seq(Tasks) /\ Head(tasks) \in Tasks
        BY <2>4 DEF TakeTask
    <3>2. QED
        BY <2>4, <3>1 DEF TakeTask
  <2>5. CASE FinishTask(w)
      BY <2>5 DEF FinishTask
  <2>6. CASE ThreadExit(w)
    <3>1. liveCount >= 1
        BY <2>6, AliveExit DEF ThreadExit, LiveCountExact
    <3>2. QED
        BY <2>6, <3>1 DEF ThreadExit
  <2>7. CASE ShrinkLoad(w)
      BY <2>7 DEF ShrinkLoad
  <2>8. CASE ShrinkTest(w)
      BY <2>8 DEF ShrinkTest
  <2>9. CASE ShrinkRefused(w)
      BY <2>9 DEF ShrinkRefused, Release
  <2>10. CASE ShrinkCas(w)
      BY <2>10 DEF ShrinkCas, Release, CasAboveMin
  <2>11. CASE ShrinkCasFail(w)
      BY <2>11 DEF ShrinkCasFail
  <2>12. QED
      BY <1>2, <2>1, <2>2, <2>3, <2>4, <2>5, <2>6, <2>7, <2>8, <2>9, <2>10, <2>11 DEF Worker
<1>3. ASSUME NEW w \in Workers, SpuriousWakeup(w) PROVE TypeOK'
    BY <1>3 DEF SpuriousWakeup
<1>4. CASE PerfTick
    BY <1>4 DEF PerfTick
<1>5. ASSUME NEW n \in ResizeArgs, ResizeSkip(n) PROVE TypeOK'
    BY <1>5 DEF ResizeSkip
<1>6. ASSUME NEW n \in ResizeArgs, ResizeStore(n) PROVE TypeOK'
  <2>1. Clamp(n) \in MinWorkers..MaxWorkers
      BY ClampInRange
  <2>2. QED
      BY <1>6, <2>1 DEF ResizeStore
<1>7. CASE ResizeLock
    BY <1>7 DEF ResizeLock
<1>8. CASE ResizeSpawn
    BY <1>8 DEF ResizeSpawn
<1>9. CASE ResizeDone
    BY <1>9 DEF ResizeDone, NotifyAll
<1>10. CASE StopBegins
    BY <1>10 DEF StopBegins
<1>11. CASE Shutdown
    BY <1>11 DEF Shutdown, NotifyAll
<1>12. QED
    BY <1>1, <1>2, <1>3, <1>4, <1>5, <1>6, <1>7, <1>8, <1>9, <1>10, <1>11
    DEF Next, Resize
-------------------------------------------------------------------------------
\* The conjuncts of CountInv beyond the types, and what they depend on.
CountFacts == CasAboveMin /\ ExitOnlyOnStop /\ LiveCountExact /\ NeverBelowMin

LEMMA CountFrame ==
    ASSUME CountFacts, UNCHANGED <<wpc, cur, liveCount, stop>>
    PROVE  CountFacts'
BY DEF CountFacts, CasAboveMin, ExitOnlyOnStop, LiveCountExact, NeverBelowMin, Alive

\* A living worker moves on, to neither the swap nor the final fetch_sub.
LEMMA CountMove ==
    ASSUME TypeOK, CountFacts, NEW w \in Workers, wpc[w] # "none",
           NEW k \in {"lock", "wait", "load", "test", "run"},
           wpc' = [wpc EXCEPT ![w] = k],
           cur' \in [Workers -> Nat], \A v \in Workers \ {w} : cur'[v] = cur[v],
           UNCHANGED <<liveCount, stop>>
    PROVE  CountFacts'
<1>1. Alive' = Alive
    BY AliveSame DEF WorkerPC
<1>2. QED
    BY <1>1 DEF CountFacts, CasAboveMin, ExitOnlyOnStop, LiveCountExact, NeverBelowMin, TypeOK

LEMMA CountStep == CountInv /\ [Next]_vars => CountInv'
<1> SUFFICES ASSUME CountInv, [Next]_vars PROVE CountInv'
    OBVIOUS
<1>1. TypeOK'
  <2>1. CASE UNCHANGED vars
      BY <2>1 DEF vars, CountInv, TypeOK
  <2>2. QED
      BY <2>1, TypeStep
<1>2. TypeOK /\ CountFacts
    BY DEF CountInv, CountFacts
<1>3. ASSUME NEW p \in Producers, Receiver(p) PROVE CountFacts'
  <2>1. CASE NotifyOne(p) /\ Asleep # {}
    <3>1. PICK w \in Asleep : wpc' = [wpc EXCEPT ![w] = "lock"]
        BY <2>1 DEF NotifyOne
    <3>2. w \in Workers /\ wpc[w] # "none"
        BY DEF Asleep
    <3>3. UNCHANGED <<cur, liveCount, stop>>
        BY <2>1 DEF NotifyOne
    <3>4. QED
        BY <1>2, <3>1, <3>2, <3>3, CountMove DEF TypeOK
  <2>2. CASE ~(NotifyOne(p) /\ Asleep # {})
    <3>1. UNCHANGED <<wpc, cur, liveCount, stop>>
        BY <1>3, <2>2 DEF Receiver, Receive, TryEnqueueFull, InlineDone, TryEnqueue, NotifyOne
    <3>2. QED
        BY <1>2, <3>1, CountFrame
  <2>3. QED
      BY <2>1, <2>2
<1>4. ASSUME NEW w \in Workers, Worker(w) \/ SpuriousWakeup(w) PROVE CountFacts'
  <2>1. CASE \/ WaitAgain(w) \/ ShrinkUnderLock(w) \/ TakeTask(w) \/ FinishTask(w)
             \/ ShrinkRefused(w) \/ SpuriousWakeup(w)
    <3>1. wpc[w] # "none" /\ UNCHANGED <<cur, liveCount, stop>>
        BY <2>1 DEF WaitAgain, ShrinkUnderLock, TakeTask, FinishTask, ShrinkRefused, SpuriousWakeup
    <3>2. PICK k \in {"lock", "wait", "load", "test", "run"} : wpc' = [wpc EXCEPT ![w] = k]
        BY <2>1 DEF WaitAgain, ShrinkUnderLock, TakeTask, FinishTask, ShrinkRefused, SpuriousWakeup
    <3>3. QED
        BY <1>2, <3>1, <3>2, CountMove DEF TypeOK
  <2>2. CASE ShrinkLoad(w) \/ ShrinkCasFail(w)
    <3>1. /\ wpc[w] # "none" /\ UNCHANGED <<liveCount, stop>>
          /\ wpc' = [wpc EXCEPT ![w] = "test"]
          /\ cur' = [cur EXCEPT ![w] = liveCount]
        BY <2>2 DEF ShrinkLoad, ShrinkCasFail
    <3>2. QED
        BY <1>2, <3>1, CountMove DEF TypeOK
  <2>3. CASE BreakOnStop(w)
    <3>1. Alive' = Alive
        BY <1>2, <2>3, AliveSame DEF BreakOnStop, WorkerPC
    <3>2. QED
        BY <1>2, <2>3, <3>1
        DEF BreakOnStop, CountFacts, CasAboveMin, ExitOnlyOnStop, LiveCountExact, NeverBelowMin, TypeOK
  <2>4. CASE ShrinkTest(w)
    <3>1. Alive' = Alive
        BY <1>2, <2>4, AliveSame DEF ShrinkTest, WorkerPC
    <3>2. cur[w] > MinWorkers
        BY <1>2, <2>4, PoolAssumption DEF ShrinkTest, TypeOK
    <3>3. QED
        BY <1>2, <2>4, <3>1, <3>2
        DEF ShrinkTest, CountFacts, CasAboveMin, ExitOnlyOnStop, LiveCountExact, NeverBelowMin, TypeOK
  <2>5. CASE ShrinkCas(w)
    <3>1. Cardinality(Alive') = Cardinality(Alive) - 1
        BY <1>2, <2>5, AliveExit DEF ShrinkCas
    <3>2. liveCount > MinWorkers
        BY <1>2, <2>5 DEF ShrinkCas, CountFacts, CasAboveMin
    <3>3. liveCount' = liveCount - 1
        BY <2>5 DEF ShrinkCas
    <3>4. liveCount' = Cardinality(Alive') /\ liveCount' <= MaxWorkers /\ liveCount' >= MinWorkers
        BY <1>2, <3>1, <3>2, <3>3, PoolAssumption DEF CountFacts, LiveCountExact, TypeOK
    <3>5. QED
        BY <1>2, <2>5, <3>4
        DEF ShrinkCas, CountFacts, CasAboveMin, ExitOnlyOnStop, LiveCountExact, NeverBelowMin, TypeOK
  <2>6. CASE ThreadExit(w)
    <3>1. Cardinality(Alive') = Cardinality(Alive) - 1
        BY <1>2, <2>6, AliveExit DEF ThreadExit
    <3>2. stop /\ UNCHANGED stop
        BY <1>2, <2>6 DEF ThreadExit, CountFacts, ExitOnlyOnStop
    <3>3. liveCount' = Cardinality(Alive') /\ liveCount' <= MaxWorkers
        BY <1>2, <2>6, <3>1, PoolAssumption DEF ThreadExit, CountFacts, LiveCountExact, TypeOK
    <3>4. QED
        BY <1>2, <2>6, <3>2, <3>3
        DEF ThreadExit, CountFacts, CasAboveMin, ExitOnlyOnStop, LiveCountExact, NeverBelowMin, TypeOK
  <2>7. QED
      BY <1>4, <2>1, <2>2, <2>3, <2>4, <2>5, <2>6 DEF Worker
<1>5. ASSUME \/ PerfTick \/ ResizeLock \/ StopBegins \/ UNCHANGED vars
             \/ \E n \in ResizeArgs : ResizeSkip(n) \/ ResizeStore(n)
      PROVE  CountFacts'
  <2>1. UNCHANGED <<wpc, cur, liveCount, stop>>
      BY <1>5 DEF PerfTick, ResizeLock, StopBegins, ResizeSkip, ResizeStore, vars
  <2>2. QED
      BY <1>2, <2>1, CountFrame
<1>6. ASSUME ResizeSpawn PROVE CountFacts'
  <2>1. PICK w \in Workers : wpc[w] = "none" /\ wpc' = [wpc EXCEPT ![w] = "lock"]
      BY <1>6 DEF ResizeSpawn
  <2>2. Cardinality(Alive') = Cardinality(Alive) + 1
      BY <1>2, <2>1, AliveSpawn DEF WorkerPC
  <2>3. liveCount < MaxWorkers /\ liveCount' = liveCount + 1
      BY <1>2, <1>6, PoolAssumption DEF ResizeSpawn, TypeOK
  <2>4. liveCount' = Cardinality(Alive') /\ liveCount' <= MaxWorkers
      BY <1>2, <2>2, <2>3, PoolAssumption DEF CountFacts, LiveCountExact, TypeOK
  <2>5. ~stop => liveCount' >= MinWorkers
      BY <1>2, <2>3, PoolAssumption DEF CountFacts, NeverBelowMin, TypeOK
  <2>6. QED
      BY <1>2, <1>6, <2>1, <2>4, <2>5
      DEF ResizeSpawn, CountFacts, CasAboveMin, ExitOnlyOnStop, LiveCountExact, NeverBelowMin, TypeOK
<1>7. ASSUME ResizeDone \/ Shutdown PROVE CountFacts'
  <2>1. Alive' = Alive
      BY <1>2, <1>7, AliveNotifyAll DEF ResizeDone, Shutdown
  <2>2. UNCHANGED <<cur, liveCount>> /\ wpc' = NotifyAll /\ (stop => stop')
      BY <1>7 DEF ResizeDone, Shutdown
  <2>3. QED
      BY <1>2, <2>1, <2>2
      DEF NotifyAll, CountFacts, CasAboveMin, ExitOnlyOnStop, LiveCountExact, NeverBelowMin, TypeOK
<1>8. CountFacts'
    BY <1>3, <1>4, <1>5, <1>6, <1>7 DEF Next, Resize
<1>9. QED
    BY <1>1, <1>8 DEF CountInv, CountFacts

\* The inductive invariant holds in every behaviour of the pool.
THEOREM CountInvariant == Spec => []CountInv
BY CountInit, CountStep, PTL DEF Spec

\* TypeOK for any number of workers, producers and tasks.
THEOREM TypeCorrect == Spec => []TypeOK
<1>1. CountInv => TypeOK
    BY DEF CountInv
<1>2. QED
    BY <1>1, CountInvariant, PTL

\* However many workers run maybeShrink() at once and whatever resize() stores
\* meanwhile, a pool that is not shut down keeps MIN_WORKERS threads.
THEOREM PoolNeverBelowMin == Spec => []NeverBelowMin
<1>1. CountInv => NeverBelowMin
    BY DEF CountInv
<1>2. QED
    BY <1>1, CountInvariant, PTL

\* liveCount_ equals the number of worker threads and stays within MAX_WORKERS.
THEOREM PoolCountExact == Spec => []LiveCountExact
<1>1. CountInv => LiveCountExact
    BY DEF CountInv
<1>2. QED
    BY <1>1, CountInvariant, PTL
-------------------------------------------------------------------------------
(* No lost wakeup. *)

LEMMA WakeSetsFinite ==
    /\ IsFiniteSet(Awake) /\ Cardinality(Awake) \in Nat
    /\ IsFiniteSet(Notifying) /\ Cardinality(Notifying) \in Nat
<1>1. IsFiniteSet(Awake) /\ IsFiniteSet(Notifying)
    BY PoolAssumption, FS_Subset DEF Awake, Notifying
<1>2. QED
    BY <1>1, FS_CardinalityType

LEMMA WakeSetsFiniteNext ==
    /\ IsFiniteSet(Awake') /\ Cardinality(Awake') \in Nat
    /\ IsFiniteSet(Notifying') /\ Cardinality(Notifying') \in Nat
<1>1. IsFiniteSet(Awake') /\ IsFiniteSet(Notifying')
    BY PoolAssumption, FS_Subset DEF Awake, Notifying
<1>2. QED
    BY <1>1, FS_CardinalityType

\* A step that leaves the queue and the producers alone, sends nobody to sleep
\* and takes nobody off the runnable workers.
LEMMA StrandedFrame ==
    ASSUME NoStrandedTask, TypeOK, tasks' = tasks, Notifying' = Notifying,
           Awake \subseteq Awake', Asleep' \subseteq Asleep
    PROVE  NoStrandedTask'
<1>1. Cardinality(Awake) <= Cardinality(Awake')
    BY WakeSetsFiniteNext, FS_Subset
<1>2. Len(tasks) \in Nat
    BY DEF TypeOK
<1>3. QED
    BY <1>1, <1>2, WakeSetsFinite, WakeSetsFiniteNext DEF NoStrandedTask

\* With an empty queue there is nothing to strand.
LEMMA StrandedEmpty ==
    ASSUME tasks' = << >>
    PROVE  NoStrandedTask'
BY WakeSetsFiniteNext DEF NoStrandedTask

LEMMA StrandedStep == TypeOK /\ NoStrandedTask /\ [Next]_vars => NoStrandedTask'
<1> SUFFICES ASSUME TypeOK, NoStrandedTask, [Next]_vars PROVE NoStrandedTask'
    OBVIOUS
<1>1. Len(tasks) \in Nat
    BY DEF TypeOK
<1>2. ASSUME NEW p \in Producers, Receiver(p) PROVE NoStrandedTask'
  <2>1. CASE Receive(p) \/ TryEnqueueFull(p) \/ InlineDone(p)
    <3>1. tasks' = tasks /\ Notifying' = Notifying /\ Awake' = Awake /\ Asleep' = Asleep
        BY <2>1 DEF Receive, TryEnqueueFull, InlineDone, TypeOK, Notifying, Awake, Asleep
    <3>2. QED
        BY <3>1, StrandedFrame
  <2>2. ASSUME NEW t \in Tasks, TryEnqueue(p, t) PROVE NoStrandedTask'
    <3>1. Notifying' = Notifying \cup {p} /\ p \notin Notifying
        BY <2>2 DEF TryEnqueue, Notifying, TypeOK
    <3>2. Cardinality(Notifying') = Cardinality(Notifying) + 1
        BY <3>1, WakeSetsFinite, FS_AddElement
    <3>3. Awake' = Awake /\ Asleep' = Asleep
        BY <2>2 DEF TryEnqueue, Awake, Asleep
    <3>4. Len(tasks') = Len(tasks) + 1
        BY <2>2 DEF TryEnqueue, TypeOK
    <3>5. QED
        BY <1>1, <3>2, <3>3, <3>4, WakeSetsFinite DEF NoStrandedTask
  <2>3. CASE NotifyOne(p) /\ Asleep = {}
    <3>1. Asleep' = {}
        BY <2>3 DEF NotifyOne, Asleep
    <3>2. QED
        BY <3>1 DEF NoStrandedTask
  <2>4. CASE NotifyOne(p) /\ Asleep # {}
    <3>1. PICK w \in Asleep : wpc' = [wpc EXCEPT ![w] = "lock"]
        BY <2>4 DEF NotifyOne
    <3>2. Awake' = Awake \cup {w} /\ w \notin Awake
        BY <3>1 DEF Awake, Asleep, TypeOK
    <3>3. Cardinality(Awake') = Cardinality(Awake) + 1
        BY <3>2, WakeSetsFinite, FS_AddElement
    <3>4. Notifying' = Notifying \ {p} /\ p \in Notifying
        BY <2>4 DEF NotifyOne, Notifying, TypeOK
    <3>5. Cardinality(Notifying') = Cardinality(Notifying) - 1
        BY <3>4, WakeSetsFinite, FS_RemoveElement
    <3>6. tasks' = tasks
        BY <2>4 DEF NotifyOne
    <3>7. QED
        BY <1>1, <2>4, <3>3, <3>5, <3>6, WakeSetsFinite DEF NoStrandedTask
  <2>5. QED
      BY <1>2, <2>1, <2>2, <2>3, <2>4 DEF Receiver
<1>3. ASSUME NEW w \in Workers, Worker(w) \/ SpuriousWakeup(w) PROVE NoStrandedTask'
  <2>1. CASE WaitAgain(w) \/ BreakOnStop(w) \/ ShrinkUnderLock(w)
      BY <2>1, StrandedEmpty DEF WaitAgain, BreakOnStop, ShrinkUnderLock
  <2>2. CASE TakeTask(w)
    <3>1. Awake' = Awake \ {w} /\ w \in Awake
        BY <2>2 DEF TakeTask, Awake, TypeOK
    <3>2. Cardinality(Awake') = Cardinality(Awake) - 1
        BY <3>1, WakeSetsFinite, FS_RemoveElement
    <3>3. Asleep' = Asleep /\ Notifying' = Notifying
        BY <2>2 DEF TakeTask, Asleep, Notifying, TypeOK
    <3>4. Len(tasks') = Len(tasks) - 1
        BY <2>2 DEF TakeTask, TypeOK
    <3>5. QED
        BY <1>1, <3>2, <3>3, <3>4, WakeSetsFinite DEF NoStrandedTask
  <2>3. CASE \/ FinishTask(w) \/ ThreadExit(w) \/ SpuriousWakeup(w)
             \/ ShrinkLoad(w) \/ ShrinkTest(w) \/ ShrinkRefused(w)
             \/ ShrinkCas(w) \/ ShrinkCasFail(w)
    <3>1. /\ tasks' = tasks /\ Notifying' = Notifying
          /\ Awake \subseteq Awake' /\ Asleep' \subseteq Asleep
        BY <2>3 DEF FinishTask, ThreadExit, SpuriousWakeup, ShrinkLoad, ShrinkTest,
                    ShrinkRefused, ShrinkCas, ShrinkCasFail, TypeOK, Awake, Asleep, Notifying
    <3>2. QED
        BY <3>1, StrandedFrame
  <2>4. QED
      BY <1>3, <2>1, <2>2, <2>3 DEF Worker
<1>4. CASE \/ PerfTick \/ ResizeLock \/ StopBegins \/ UNCHANGED vars
           \/ \E n \in ResizeArgs : ResizeSkip(n) \/ ResizeStore(n)
  <2>1. UNCHANGED <<tasks, ppc, wpc>>
      BY <1>4 DEF PerfTick, ResizeLock, StopBegins, ResizeSkip, ResizeStore, vars
  <2>2. QED
      BY <2>1, StrandedFrame DEF Notifying, Awake, Asleep
<1>5. CASE ResizeSpawn
  <2>1. /\ tasks' = tasks /\ Notifying' = Notifying
        /\ Awake \subseteq Awake' /\ Asleep' \subseteq Asleep
      BY <1>5 DEF ResizeSpawn, TypeOK, Awake, Asleep, Notifying
  <2>2. QED
      BY <2>1, StrandedFrame
<1>6. CASE ResizeDone \/ Shutdown
  <2>1. Asleep' = {}
      BY <1>6 DEF ResizeDone, Shutdown, NotifyAll, Asleep
  <2>2. QED
      BY <2>1 DEF NoStrandedTask
<1>7. QED
    BY <1>2, <1>3, <1>4, <1>5, <1>6 DEF Next, Resize

\* While a worker sleeps, every queued task has somebody on the way to it: a
\* runnable worker, or a producer whose notify_one() is still to come.
THEOREM PoolNoStrandedTask == Spec => []NoStrandedTask
<1>1. Init => NoStrandedTask
  <2>1. ASSUME Init PROVE NoStrandedTask
    <3>1. Len(tasks) = 0
        BY <2>1 DEF Init
    <3>2. QED
        BY <3>1, WakeSetsFinite DEF NoStrandedTask
  <2>2. QED
      BY <2>1
<1>2. QED
    BY <1>1, StrandedStep, TypeCorrect, PTL DEF Spec

LEMMA SleepStep == TypeOK /\ NoSleepThroughChange /\ [Next]_vars => NoSleepThroughChange'
<1> SUFFICES ASSUME TypeOK, NoSleepThroughChange, [Next]_vars PROVE NoSleepThroughChange'
    OBVIOUS
<1>1. ASSUME NEW p \in Producers, Receiver(p) PROVE NoSleepThroughChange'
  <2>1. Asleep' \subseteq Asleep /\ UNCHANGED <<stop, liveCount, target, rz>>
      BY <1>1 DEF Receiver, Receive, TryEnqueueFull, InlineDone, TryEnqueue, NotifyOne, Asleep, TypeOK
  <2>2. QED
      BY <2>1 DEF NoSleepThroughChange, Over
<1>2. ASSUME NEW w \in Workers, Worker(w) \/ SpuriousWakeup(w) PROVE NoSleepThroughChange'
  <2>1. CASE WaitAgain(w)
    <3>1. ~stop /\ ~Over /\ UNCHANGED <<stop, liveCount, target>>
        BY <2>1 DEF WaitAgain
    <3>2. QED
        BY <3>1 DEF NoSleepThroughChange, Over
  <2>2. CASE ~WaitAgain(w)
    <3>1. UNCHANGED <<stop, target, rz>> /\ liveCount' <= liveCount
        BY <1>2, <2>2
        DEF Worker, BreakOnStop, ShrinkUnderLock, TakeTask, FinishTask, ThreadExit, SpuriousWakeup,
            ShrinkLoad, ShrinkTest, ShrinkRefused, ShrinkCas, ShrinkCasFail, TypeOK
    <3>2. Asleep' \subseteq Asleep
        BY <1>2, <2>2
        DEF Worker, BreakOnStop, ShrinkUnderLock, TakeTask, FinishTask, ThreadExit, SpuriousWakeup,
            ShrinkLoad, ShrinkTest, ShrinkRefused, ShrinkCas, ShrinkCasFail, TypeOK, Asleep
    <3>3. liveCount' \in Int
        BY <1>2, <2>2
        DEF Worker, BreakOnStop, ShrinkUnderLock, TakeTask, FinishTask, ThreadExit, SpuriousWakeup,
            ShrinkLoad, ShrinkTest, ShrinkRefused, ShrinkCas, ShrinkCasFail, TypeOK
    <3>4. Over' => Over
        BY <3>1, <3>3, PoolAssumption DEF Over, TypeOK
    <3>5. QED
        BY <3>1, <3>2, <3>4 DEF NoSleepThroughChange
  <2>3. QED
      BY <2>1, <2>2
<1>3. CASE PerfTick \/ ResizeLock \/ StopBegins \/ UNCHANGED vars \/ \E n \in ResizeArgs : ResizeSkip(n)
  <2>1. /\ UNCHANGED <<wpc, stop, liveCount, target>>
        /\ rz \in {"stored", "spawn"} => rz' \in {"stored", "spawn"}
      BY <1>3 DEF PerfTick, ResizeLock, StopBegins, ResizeSkip, vars
  <2>2. QED
      BY <2>1 DEF NoSleepThroughChange, Over, Asleep
<1>4. ASSUME NEW n \in ResizeArgs, ResizeStore(n) PROVE NoSleepThroughChange'
    BY <1>4 DEF ResizeStore, NoSleepThroughChange, Asleep
<1>5. CASE ResizeSpawn
  <2>1. Asleep' \subseteq Asleep /\ UNCHANGED stop /\ rz' = "spawn"
      BY <1>5 DEF ResizeSpawn, Asleep, TypeOK
  <2>2. QED
      BY <2>1 DEF NoSleepThroughChange
<1>6. CASE ResizeDone \/ Shutdown
  <2>1. Asleep' = {}
      BY <1>6 DEF ResizeDone, Shutdown, NotifyAll, Asleep
  <2>2. QED
      BY <2>1 DEF NoSleepThroughChange
<1>7. QED
    BY <1>1, <1>2, <1>3, <1>4, <1>5, <1>6 DEF Next, Resize

\* No worker sleeps through shutdown(), nor through a lowered target once
\* resize() has returned.
THEOREM PoolNoSleepThroughChange == Spec => []NoSleepThroughChange
<1>1. Init => NoSleepThroughChange
    BY DEF Init, NoSleepThroughChange, Asleep
<1>2. QED
    BY <1>1, SleepStep, TypeCorrect, PTL DEF Spec

-------------------------------------------------------------------------------
(* ThreadPool implements TaskQueue *)

\* A task on the queue is there once, and no worker has it.
QueuedOnce ==
    /\ \A i \in 1..Len(tasks) : tstate[tasks[i]] = "queued"
    /\ \A i, j \in 1..Len(tasks) : tasks[i] = tasks[j] => i = j

\* Exactly the workers inside task() have a task, and each has one.
OneTaskPerRunner ==
    /\ \A t \in Tasks : tstate[t] \in Workers => wpc[tstate[t]] = "run"
    /\ \A t, u \in Tasks : tstate[t] \in Workers /\ tstate[t] = tstate[u] => t = u
    /\ \A w \in Workers : wpc[w] = "run" => \E t \in Tasks : tstate[t] = w

TaskInv == QueuedOnce /\ OneTaskPerRunner

LEMMA TaskInit == Init => TaskInv
<1> SUFFICES ASSUME Init PROVE TaskInv
    OBVIOUS
<1>1. Len(tasks) = 0 /\ \A t \in Tasks : tstate[t] = "idle"
    BY DEF Init
<1>2. \A w \in Workers : wpc[w] # "run"
    BY DEF Init
<1>3. QED
    BY <1>1, <1>2, PoolAssumption DEF TaskInv, QueuedOnce, OneTaskPerRunner

\* A step that touches neither the queue nor a running worker.
LEMMA TaskFrame ==
    ASSUME TypeOK, TaskInv, UNCHANGED <<tasks, tstate>>,
           \A w \in Workers : wpc'[w] = "run" <=> wpc[w] = "run"
    PROVE  TaskInv'
BY DEF TypeOK, TaskInv, QueuedOnce, OneTaskPerRunner

LEMMA TaskEnqueue ==
    ASSUME TypeOK, TaskInv, NEW p \in Producers, NEW t \in Tasks, TryEnqueue(p, t)
    PROVE  TaskInv'
<1>1. /\ tasks' = Append(tasks, t) /\ tstate[t] = "idle"
      /\ tstate' = [tstate EXCEPT ![t] = "queued"] /\ UNCHANGED wpc
    BY DEF TryEnqueue
<1>2. /\ Len(tasks') = Len(tasks) + 1 /\ Len(tasks) \in Nat
      /\ \A i \in 1..Len(tasks) : tasks'[i] = tasks[i] /\ tasks[i] \in Tasks
      /\ tasks'[Len(tasks) + 1] = t
    BY <1>1 DEF TypeOK
<1>3. \A i \in 1..Len(tasks) : tasks[i] # t
    BY <1>1 DEF TaskInv, QueuedOnce
<1>4. QueuedOnce'
    BY <1>1, <1>2, <1>3 DEF TaskInv, QueuedOnce, TypeOK
<1>5. OneTaskPerRunner'
    BY <1>1, PoolAssumption DEF TaskInv, OneTaskPerRunner, TypeOK
<1>6. QED
    BY <1>4, <1>5 DEF TaskInv

LEMMA TaskTake ==
    ASSUME TypeOK, TaskInv, NEW w \in Workers, TakeTask(w)
    PROVE  TaskInv'
<1>1. /\ wpc[w] = "lock" /\ tasks # << >> /\ tasks' = Tail(tasks)
      /\ tstate' = [tstate EXCEPT ![Head(tasks)] = w]
      /\ wpc' = [wpc EXCEPT ![w] = "run"]
    BY DEF TakeTask
<1>2. /\ Len(tasks) \in Nat \ {0} /\ Len(tasks') = Len(tasks) - 1
      /\ Head(tasks) = tasks[1] /\ Head(tasks) \in Tasks
      /\ \A i \in 1..Len(tasks') : tasks'[i] = tasks[i + 1] /\ tasks[i + 1] \in Tasks
    BY <1>1 DEF TypeOK
<1>3. tstate[Head(tasks)] = "queued"
    BY <1>2 DEF TaskInv, QueuedOnce
<1>4. \A i \in 1..Len(tasks') : tasks'[i] # Head(tasks)
    BY <1>2 DEF TaskInv, QueuedOnce
<1>5. QueuedOnce'
    BY <1>1, <1>2, <1>4 DEF TaskInv, QueuedOnce, TypeOK
<1>6. \A t \in Tasks : tstate[t] # w
    BY <1>1 DEF TaskInv, OneTaskPerRunner
<1>7. OneTaskPerRunner'
    BY <1>1, <1>2, <1>3, <1>6, PoolAssumption DEF TaskInv, OneTaskPerRunner, TypeOK
<1>8. QED
    BY <1>5, <1>7 DEF TaskInv

LEMMA TaskFinish ==
    ASSUME TypeOK, TaskInv, NEW w \in Workers, FinishTask(w)
    PROVE  TaskInv'
<1>1. /\ wpc[w] = "run" /\ UNCHANGED tasks
      /\ tstate' = [t \in Tasks |-> IF tstate[t] = w THEN "idle" ELSE tstate[t]]
      /\ wpc' = [wpc EXCEPT ![w] = IF stop THEN "lock" ELSE "load"]
    BY DEF FinishTask
<1>2. \A i \in 1..Len(tasks) : tasks[i] \in Tasks
    BY DEF TypeOK
<1>3. QueuedOnce'
    BY <1>1, <1>2, PoolAssumption DEF TaskInv, QueuedOnce, TypeOK
<1>4. OneTaskPerRunner'
    BY <1>1, PoolAssumption DEF TaskInv, OneTaskPerRunner, TypeOK
<1>5. QED
    BY <1>3, <1>4 DEF TaskInv

-------------------------------------------------------------------------------
\* Every step but the four that TaskQueue describes leaves the queue, the tasks
\* and the set of running workers alone.
Hidden ==
    /\ UNCHANGED <<tasks, tstate, stop>>
    /\ \A w \in Workers : wpc'[w] = "run" <=> wpc[w] = "run"

LEMMA StepKinds ==
    ASSUME TypeOK, [Next]_vars
    PROVE  \/ \E p \in Producers, t \in Tasks : TryEnqueue(p, t)
           \/ \E w \in Workers : TakeTask(w) \/ FinishTask(w)
           \/ Shutdown
           \/ Hidden
<1> USE DEF TypeOK, Hidden
<1>1. ASSUME NEW p \in Producers, Receiver(p)
      PROVE  (\E t \in Tasks : TryEnqueue(p, t)) \/ Hidden
  <2>1. CASE NotifyOne(p)
      BY <2>1 DEF NotifyOne, Asleep
  <2>2. CASE Receive(p) \/ TryEnqueueFull(p) \/ InlineDone(p)
      BY <2>2 DEF Receive, TryEnqueueFull, InlineDone
  <2>3. QED
      BY <1>1, <2>1, <2>2 DEF Receiver
<1>2. ASSUME NEW w \in Workers, Worker(w) \/ SpuriousWakeup(w)
      PROVE  TakeTask(w) \/ FinishTask(w) \/ Hidden
  <2>1. CASE WaitAgain(w) \/ BreakOnStop(w) \/ ShrinkUnderLock(w) \/ ThreadExit(w) \/ SpuriousWakeup(w)
      BY <2>1 DEF WaitAgain, BreakOnStop, ShrinkUnderLock, ThreadExit, SpuriousWakeup
  <2>2. CASE ShrinkLoad(w) \/ ShrinkTest(w) \/ ShrinkRefused(w) \/ ShrinkCas(w) \/ ShrinkCasFail(w)
      BY <2>2 DEF ShrinkLoad, ShrinkTest, ShrinkRefused, ShrinkCas, ShrinkCasFail
  <2>3. QED
      BY <1>2, <2>1, <2>2 DEF Worker
<1>3. CASE PerfTick \/ (\E n \in ResizeArgs : ResizeSkip(n) \/ ResizeStore(n)) \/ StopBegins
    BY <1>3 DEF PerfTick, ResizeSkip, ResizeStore, StopBegins
<1>4. CASE Resize
  <2>1. CASE ResizeLock
      BY <2>1 DEF ResizeLock
  <2>2. CASE ResizeSpawn
      BY <2>2 DEF ResizeSpawn
  <2>3. CASE ResizeDone
      BY <2>3 DEF ResizeDone, NotifyAll
  <2>4. QED
      BY <1>4, <2>1, <2>2, <2>3 DEF Resize
<1>5. CASE UNCHANGED vars
    BY <1>5 DEF vars
<1>6. QED
    BY <1>1, <1>2, <1>3, <1>4, <1>5 DEF Next

LEMMA TaskStep == TypeOK /\ TaskInv /\ [Next]_vars => TaskInv'
<1> SUFFICES ASSUME TypeOK, TaskInv, [Next]_vars PROVE TaskInv'
    OBVIOUS
<1>1. CASE Shutdown
  <2>1. UNCHANGED <<tasks, tstate>> /\ \A w \in Workers : wpc'[w] = "run" <=> wpc[w] = "run"
      BY <1>1 DEF Shutdown, NotifyAll, TypeOK
  <2>2. QED
      BY <2>1, TaskFrame
<1>2. CASE Hidden
    BY <1>2, TaskFrame DEF Hidden
<1>3. QED
    BY <1>1, <1>2, StepKinds, TaskEnqueue, TaskTake, TaskFinish

\* There is room for one more while some worker is alive and runs nothing.
LEMMA RoomForOne ==
    ASSUME CountInv, TaskInv, NEW w \in Workers, wpc[w] = "lock"
    PROVE  Cardinality(Served) < MaxWorkers
<1> DEFINE Runners == {v \in Workers : wpc[v] = "run"}
           f == [t \in Served |-> tstate[t]]
<1>1. f \in Injection(Served, Runners)
    BY DEF Injection, IsInjective, Served, TaskInv, OneTaskPerRunner
<1>2. Alive \subseteq Workers /\ Runners \subseteq Alive \ {w} /\ w \in Alive
    BY DEF Alive
<1>3. IsFiniteSet(Alive)
    BY <1>2, PoolAssumption, FS_Subset
<1>4. IsFiniteSet(Alive \ {w}) /\ Cardinality(Alive \ {w}) = Cardinality(Alive) - 1
    BY <1>2, <1>3, FS_RemoveElement
<1>5. IsFiniteSet(Runners) /\ Cardinality(Runners) <= Cardinality(Alive) - 1
    BY <1>2, <1>4, FS_Subset
<1>6. IsFiniteSet(Served) /\ Cardinality(Served) <= Cardinality(Runners)
    BY <1>1, <1>5, FS_Injection
<1>7. /\ Cardinality(Served) \in Nat /\ Cardinality(Runners) \in Nat
      /\ Cardinality(Alive) \in Nat
    BY <1>3, <1>5, <1>6, FS_CardinalityType
<1>8. Cardinality(Alive) <= MaxWorkers
    BY DEF CountInv, LiveCountExact
<1>9. QED
    BY <1>5, <1>6, <1>7, <1>8, PoolAssumption

-------------------------------------------------------------------------------
LEMMA QueueInit == Init => Queue!QInit
BY PoolAssumption DEF Init, Queue!QInit, Served

\* Each step of the pool is a step of the queue or changes nothing it shows.
LEMMA QueueStep ==
    CountInv /\ TaskInv /\ [Next]_vars => [Queue!QNext]_(Queue!qvars)
<1> SUFFICES ASSUME CountInv, TaskInv, [Next]_vars
             PROVE  Queue!QNext \/ UNCHANGED Queue!qvars
    OBVIOUS
<1>1. TypeOK
    BY DEF CountInv
<1>2. ASSUME NEW p \in Producers, NEW t \in Tasks, TryEnqueue(p, t)
      PROVE  Queue!Accept(t)
  <2>1. Served' = Served
      BY <1>1, <1>2, PoolAssumption DEF TryEnqueue, Served, TypeOK
  <2>2. t \notin Queue!Waiting
      BY <1>2 DEF TryEnqueue, Queue!Waiting, TaskInv, QueuedOnce
  <2>3. t \notin Served
      BY <1>2, PoolAssumption DEF TryEnqueue, Served
  <2>4. QED
      BY <1>2, <2>1, <2>2, <2>3 DEF TryEnqueue, Queue!Accept
<1>3. ASSUME NEW w \in Workers, TakeTask(w)
      PROVE  Queue!Begin
  <2>1. Cardinality(Served) < MaxWorkers
      BY <1>3, RoomForOne DEF TakeTask
  <2>2. Head(tasks) \in Tasks
      BY <1>1, <1>3 DEF TakeTask, TypeOK
  <2>3. Served' = Served \cup {Head(tasks)}
      BY <1>1, <1>3, <2>2 DEF TakeTask, Served, TypeOK
  <2>4. Queue!Cardinality(Served) = Cardinality(Served)
      BY DEF Cardinality, Queue!Cardinality, IsFiniteSet, Queue!IsFiniteSet
  <2>5. QED
      BY <1>3, <2>1, <2>3, <2>4 DEF TakeTask, Queue!Begin
<1>4. ASSUME NEW w \in Workers, FinishTask(w)
      PROVE  \E t \in Tasks : Queue!Finish(t)
  <2>1. PICK t \in Tasks : tstate[t] = w
      BY <1>4 DEF FinishTask, TaskInv, OneTaskPerRunner
  <2>2. \A u \in Tasks : tstate[u] = w => u = t
      BY <2>1 DEF TaskInv, OneTaskPerRunner
  <2>3. t \in Served /\ Served' = Served \ {t}
      BY <1>1, <1>4, <2>1, <2>2, PoolAssumption DEF FinishTask, Served, TypeOK
  <2>4. QED
      BY <1>4, <2>3 DEF FinishTask, Queue!Finish
<1>5. CASE Shutdown
    BY <1>5 DEF Shutdown, Queue!QNext, Queue!Close, Served
<1>6. CASE Hidden
    BY <1>6 DEF Hidden, Queue!qvars, Served
<1>7. QED
    BY <1>1, <1>2, <1>3, <1>4, <1>5, <1>6, StepKinds DEF Queue!QNext

\* The pool of ThreadPool is the bounded first-in first-out queue of TaskQueue,
\* each task served once and at most MAX_WORKERS at a time, however
\* tryEnqueue(), workerLoop(), resize() and shutdown() interleave.
THEOREM PoolImplementsQueue == Spec => ImplementsQueue
<1>1. TaskInv /\ CountInv /\ [Next]_vars => TaskInv'
    BY TaskStep DEF CountInv
<1>2. Spec => []CountInv
    BY CountInvariant
<1>3. QED
    BY <1>1, <1>2, TaskInit, QueueInit, QueueStep, PTL DEF Spec, ImplementsQueue, Queue!QSpec
===============================================================================
