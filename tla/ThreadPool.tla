------------------------------ MODULE ThreadPool ------------------------------
(***************************************************************************)
(* The resizable worker pool of dns_server.cpp: a mutex m_, a queue of     *)
(* tasks bounded by backpressureLimit_, one condition variable, and a      *)
(* worker count that workers decrement themselves with a compare-and-swap  *)
(* when the pool is over its target.                                       *)
(*                                                                         *)
(* Every step is one access to shared state that another thread can        *)
(* observe.  m_ is a variable because two holders keep it over several     *)
(* steps: a worker inside maybeShrink() called under the lock, and         *)
(* resize().  target_ and liveCount_ are atomics that are read and written *)
(* without the lock.                                                       *)
(*                                                                         *)
(* The callers are those of dns_server.cpp: receiver threads that hand     *)
(* queries to tryEnqueue(), the single perf-monitor thread that calls      *)
(* resize(), and DnsServer::stop() that calls shutdown() once.             *)
(***************************************************************************)
EXTENDS Integers, Sequences, FiniteSets

CONSTANTS
    Workers,            \* identities a worker thread can have
    Producers,          \* threads that call tryEnqueue()
    Tasks,              \* queries; a finished one may be submitted again
    InitWorkers,        \* the constructor's n
    MinWorkers,         \* MIN_WORKERS
    MaxWorkers,         \* MAX_WORKERS
    BackpressureLimit,  \* backpressureLimit_
    ResizeArgs,         \* what AutoTuner::recommendedThreads() may return
    NoThread, Resizer   \* values of the mutex: free, held by resize()

ASSUME PoolAssumption ==
    /\ IsFiniteSet(Workers)
    /\ IsFiniteSet(Producers)
    /\ MinWorkers \in Nat \ {0}
    /\ MaxWorkers \in Nat
    /\ InitWorkers \in Nat
    /\ MinWorkers <= InitWorkers /\ InitWorkers <= MaxWorkers
    /\ MaxWorkers <= Cardinality(Workers)
    /\ BackpressureLimit \in Nat \ {0}
    /\ ResizeArgs \subseteq Nat
    /\ NoThread \notin Workers /\ Resizer \notin Workers /\ NoThread # Resizer
    /\ Workers \cap {"idle", "queued"} = {}

VARIABLES
    m,          \* m_: NoThread, Resizer or the worker that holds it
    tasks,      \* tasks_
    stop,       \* stop_
    target,     \* target_
    liveCount,  \* liveCount_
    wpc,        \* wpc[w]: where worker w is
    cur,        \* cur[w]: the local cur of maybeShrink()
    tstate,     \* tstate[t]: where task t is, or the worker that runs it
    ppc,        \* ppc[p]: where receiver thread p is
    rz, rn,     \* resize(): its step, its clamped argument n
    running     \* DnsServer::running_, the condition of the callers' loops

vars == <<m, tasks, stop, target, liveCount, wpc, cur, tstate, ppc, rz, rn, running>>

\* "lock": runnable and wants m_ (a new thread, a woken one, or one whose task
\* is finished); "wait": asleep in cv_.wait(); "load", "test", "cas": inside
\* maybeShrink(), under the lock exactly when m is the worker itself; "run":
\* inside task(); "exit": left the loop with wasShrunk = false, fetch_sub(1)
\* still to come; "none": no such thread.
WorkerPC == {"none", "lock", "wait", "load", "test", "cas", "run", "exit"}

\* "idle": not submitted (or finished, and free to stand for a new query).
TaskState == {"idle", "queued"} \cup Workers

\* "out": in receive_from(); "got": has a query; "notify": between the push and
\* notify_one(); "inline": resolves a refused query itself.
ProducerPC == {"out", "got", "notify", "inline"}

\* "idle": asleep in perfMonitorLoop(); "tick": awake, about to compare; then
\* inside resize(): "stored" before the lock, "spawn" under it.
ResizePC == {"idle", "tick", "stored", "spawn"}

Asleep    == {w \in Workers : wpc[w] = "wait"}
Awake     == {w \in Workers : wpc[w] = "lock"}
Alive     == {w \in Workers : wpc[w] # "none"}
Notifying == {p \in Producers : ppc[p] = "notify"}

NotifyAll == [w \in Workers |-> IF wpc[w] = "wait" THEN "lock" ELSE wpc[w]]

-------------------------------------------------------------------------------
\* The pool after its constructor: n workers started, none over target, so all
\* of them go to (or are about to go to) cv_.wait().
Init ==
    /\ \E W \in SUBSET Workers :
          /\ Cardinality(W) = InitWorkers
          /\ wpc = [w \in Workers |-> IF w \in W THEN "lock" ELSE "none"]
    /\ m = NoThread
    /\ tasks = << >>
    /\ stop = FALSE
    /\ target = InitWorkers
    /\ liveCount = InitWorkers
    /\ cur = [w \in Workers |-> 0]
    /\ tstate = [t \in Tasks |-> "idle"]
    /\ ppc = [p \in Producers |-> "out"]
    /\ rz = "idle"
    /\ rn = InitWorkers
    /\ running = TRUE

-------------------------------------------------------------------------------
(* The receiver threads.  Each holds at most one query, taken while running_ *)
(* was true.  In tryEnqueue() the test and the push are one critical section *)
(* and notify_one() comes after the lock is released.                        *)

Receive(p) ==
    /\ running
    /\ ppc[p] = "out"
    /\ ppc' = [ppc EXCEPT ![p] = "got"]
    /\ UNCHANGED <<m, tasks, stop, target, liveCount, wpc, cur, tstate, rz, rn, running>>

TryEnqueue(p, t) ==
    /\ ppc[p] = "got"
    /\ tstate[t] = "idle"
    /\ m = NoThread
    /\ Len(tasks) < BackpressureLimit
    /\ tasks' = Append(tasks, t)
    /\ tstate' = [tstate EXCEPT ![t] = "queued"]
    /\ ppc' = [ppc EXCEPT ![p] = "notify"]
    /\ UNCHANGED <<m, stop, target, liveCount, wpc, cur, rz, rn, running>>

\* The queue is full: tryEnqueue() returns false and the receiver resolves the
\* query on its own thread.
TryEnqueueFull(p) ==
    /\ ppc[p] = "got"
    /\ m = NoThread
    /\ Len(tasks) >= BackpressureLimit
    /\ ppc' = [ppc EXCEPT ![p] = "inline"]
    /\ UNCHANGED <<m, tasks, stop, target, liveCount, wpc, cur, tstate, rz, rn, running>>

InlineDone(p) ==
    /\ ppc[p] = "inline"
    /\ ppc' = [ppc EXCEPT ![p] = "out"]
    /\ UNCHANGED <<m, tasks, stop, target, liveCount, wpc, cur, tstate, rz, rn, running>>

\* Mutant: the notification is forgotten.
NotifyNobody(p) ==
    /\ ppc[p] = "notify"
    /\ ppc' = [ppc EXCEPT ![p] = "out"]
    /\ UNCHANGED <<m, tasks, stop, target, liveCount, wpc, cur, tstate, rz, rn, running>>

\* cv_.notify_one() wakes some sleeper, or nobody.
NotifyOne(p) ==
    /\ ppc[p] = "notify"
    /\ ppc' = [ppc EXCEPT ![p] = "out"]
    /\ \/ /\ Asleep = {}
          /\ UNCHANGED wpc
       \/ \E w \in Asleep : wpc' = [wpc EXCEPT ![w] = "lock"]
    /\ UNCHANGED <<m, tasks, stop, target, liveCount, cur, tstate, rz, rn, running>>

-------------------------------------------------------------------------------
(* workerLoop(): what a worker does when it gets m_.  stop_ and tasks_ change *)
(* only under the lock; liveCount_ and target_ are read once per visit.      *)

Over == liveCount > target

WaitAgain(w) ==
    /\ wpc[w] = "lock" /\ m = NoThread
    /\ ~stop /\ tasks = << >> /\ ~Over
    /\ wpc' = [wpc EXCEPT ![w] = "wait"]
    /\ UNCHANGED <<m, tasks, stop, target, liveCount, cur, tstate, ppc, rz, rn, running>>

\* Mutant: a worker leaves on stop_ although tasks are queued.
BreakWithTasks(w) ==
    /\ wpc[w] = "lock" /\ m = NoThread
    /\ stop
    /\ wpc' = [wpc EXCEPT ![w] = "exit"]
    /\ UNCHANGED <<m, tasks, stop, target, liveCount, cur, tstate, ppc, rz, rn, running>>

BreakOnStop(w) ==
    /\ wpc[w] = "lock" /\ m = NoThread
    /\ stop /\ tasks = << >>
    /\ wpc' = [wpc EXCEPT ![w] = "exit"]
    /\ UNCHANGED <<m, tasks, stop, target, liveCount, cur, tstate, ppc, rz, rn, running>>

\* Over target and nothing to do: maybeShrink() is called with m_ held.
ShrinkUnderLock(w) ==
    /\ wpc[w] = "lock" /\ m = NoThread
    /\ ~stop /\ tasks = << >> /\ Over
    /\ m' = w
    /\ wpc' = [wpc EXCEPT ![w] = "load"]
    /\ UNCHANGED <<tasks, stop, target, liveCount, cur, tstate, ppc, rz, rn, running>>

\* Mutant: the task is copied from the front of the queue and not popped.
TakeTaskKept(w) ==
    /\ wpc[w] = "lock" /\ m = NoThread
    /\ tasks # << >>
    /\ tstate' = [tstate EXCEPT ![Head(tasks)] = w]
    /\ wpc' = [wpc EXCEPT ![w] = "run"]
    /\ UNCHANGED <<m, tasks, stop, target, liveCount, cur, ppc, rz, rn, running>>

TakeTask(w) ==
    /\ wpc[w] = "lock" /\ m = NoThread
    /\ tasks # << >>
    /\ tasks' = Tail(tasks)
    /\ tstate' = [tstate EXCEPT ![Head(tasks)] = w]
    /\ wpc' = [wpc EXCEPT ![w] = "run"]
    /\ UNCHANGED <<m, stop, target, liveCount, cur, ppc, rz, rn, running>>

\* task() returned or threw (both are caught); stop_ is read without the lock.
FinishTask(w) ==
    /\ wpc[w] = "run"
    /\ tstate' = [t \in Tasks |-> IF tstate[t] = w THEN "idle" ELSE tstate[t]]
    /\ wpc' = [wpc EXCEPT ![w] = IF stop THEN "lock" ELSE "load"]
    /\ UNCHANGED <<m, tasks, stop, target, liveCount, cur, ppc, rz, rn, running>>

\* The thread ends; an exit that did not go through maybeShrink() counts down.
ThreadExit(w) ==
    /\ wpc[w] = "exit"
    /\ liveCount' = liveCount - 1
    /\ wpc' = [wpc EXCEPT ![w] = "none"]
    /\ UNCHANGED <<m, tasks, stop, target, cur, tstate, ppc, rz, rn, running>>

\* cv_.wait() may return without a notification.
SpuriousWakeup(w) ==
    /\ wpc[w] = "wait"
    /\ wpc' = [wpc EXCEPT ![w] = "lock"]
    /\ UNCHANGED <<m, tasks, stop, target, liveCount, cur, tstate, ppc, rz, rn, running>>

-------------------------------------------------------------------------------
(* maybeShrink(), under the lock (m = w) or after a task (m # w): three      *)
(* separate atomic accesses.  x86's compare_exchange does not fail           *)
(* spuriously; a real failure reloads cur and tests the target again.        *)

Release(w) == m' = IF m = w THEN NoThread ELSE m

ShrinkLoad(w) ==
    /\ wpc[w] = "load"
    /\ cur' = [cur EXCEPT ![w] = liveCount]
    /\ wpc' = [wpc EXCEPT ![w] = "test"]
    /\ UNCHANGED <<m, tasks, stop, target, liveCount, tstate, ppc, rz, rn, running>>

\* Mutant: the value read is not compared with the target.
ShrinkUntested(w) ==
    /\ wpc[w] = "test"
    /\ wpc' = [wpc EXCEPT ![w] = "cas"]
    /\ UNCHANGED <<m, tasks, stop, target, liveCount, cur, tstate, ppc, rz, rn, running>>

ShrinkTest(w) ==
    /\ wpc[w] = "test"
    /\ cur[w] > target
    /\ wpc' = [wpc EXCEPT ![w] = "cas"]
    /\ UNCHANGED <<m, tasks, stop, target, liveCount, cur, tstate, ppc, rz, rn, running>>

\* Not over target any more: back to the top of the loop.
ShrinkRefused(w) ==
    /\ wpc[w] = "test"
    /\ cur[w] <= target
    /\ wpc' = [wpc EXCEPT ![w] = "lock"]
    /\ Release(w)
    /\ UNCHANGED <<tasks, stop, target, liveCount, cur, tstate, ppc, rz, rn, running>>

\* Mutant: wasShrunk is not set, so the exit is counted a second time.
ShrinkCasCountedTwice(w) ==
    /\ wpc[w] = "cas"
    /\ liveCount = cur[w]
    /\ liveCount' = cur[w] - 1
    /\ wpc' = [wpc EXCEPT ![w] = "exit"]
    /\ Release(w)
    /\ UNCHANGED <<tasks, stop, target, cur, tstate, ppc, rz, rn, running>>

\* The exchange succeeds: wasShrunk = true, the thread leaves without fetch_sub.
ShrinkCas(w) ==
    /\ wpc[w] = "cas"
    /\ liveCount = cur[w]
    /\ liveCount' = cur[w] - 1
    /\ wpc' = [wpc EXCEPT ![w] = "none"]
    /\ Release(w)
    /\ UNCHANGED <<tasks, stop, target, cur, tstate, ppc, rz, rn, running>>

ShrinkCasFail(w) ==
    /\ wpc[w] = "cas"
    /\ liveCount # cur[w]
    /\ cur' = [cur EXCEPT ![w] = liveCount]
    /\ wpc' = [wpc EXCEPT ![w] = "test"]
    /\ UNCHANGED <<m, tasks, stop, target, liveCount, tstate, ppc, rz, rn, running>>

-------------------------------------------------------------------------------
(* resize(), called by perfMonitorLoop() when the recommendation differs     *)
(* from workerCount().  scrubWorkers() finds every thread joinable and       *)
(* removes none, so it changes nothing here.                                 *)

Clamp(n) == IF n > MaxWorkers THEN MaxWorkers ELSE IF n < MinWorkers THEN MinWorkers ELSE n

\* perfMonitorLoop() sleeps between the test of running_ and the rest of its
\* body, so one more resize may come after stop() has begun.
PerfTick ==
    /\ running
    /\ rz = "idle"
    /\ rz' = "tick"
    /\ UNCHANGED <<m, tasks, stop, target, liveCount, wpc, cur, tstate, ppc, rn, running>>

ResizeSkip(n) ==
    /\ rz = "tick"
    /\ n = liveCount
    /\ rz' = "idle"
    /\ UNCHANGED <<m, tasks, stop, target, liveCount, wpc, cur, tstate, ppc, rn, running>>

\* target_.store(n) comes before the lock.
ResizeStore(n) ==
    /\ rz = "tick"
    /\ n # liveCount
    /\ target' = Clamp(n)
    /\ rn' = Clamp(n)
    /\ rz' = "stored"
    /\ UNCHANGED <<m, tasks, stop, liveCount, wpc, cur, tstate, ppc, running>>

ResizeLock ==
    /\ rz = "stored"
    /\ m = NoThread
    /\ m' = Resizer
    /\ rz' = "spawn"
    /\ UNCHANGED <<tasks, stop, target, liveCount, wpc, cur, tstate, ppc, rn, running>>

\* spawnWorker(): the new thread blocks on m_ until resize() returns.
ResizeSpawn ==
    /\ rz = "spawn"
    /\ liveCount < rn
    /\ \E w \in Workers :
          /\ wpc[w] = "none"
          /\ wpc' = [wpc EXCEPT ![w] = "lock"]
    /\ liveCount' = liveCount + 1
    /\ UNCHANGED <<m, tasks, stop, target, cur, tstate, ppc, rz, rn, running>>

\* Mutant: the sleepers are not told of the new target.
ResizeDoneSilently ==
    /\ rz = "spawn"
    /\ liveCount >= rn
    /\ m' = NoThread
    /\ rz' = "idle"
    /\ UNCHANGED <<tasks, stop, target, liveCount, wpc, cur, tstate, ppc, rn, running>>

ResizeDone ==
    /\ rz = "spawn"
    /\ liveCount >= rn
    /\ wpc' = NotifyAll
    /\ m' = NoThread
    /\ rz' = "idle"
    /\ UNCHANGED <<tasks, stop, target, liveCount, cur, tstate, ppc, rn, running>>

\* DnsServer::stop() clears running_ and then calls shutdown().
StopBegins ==
    /\ running
    /\ running' = FALSE
    /\ UNCHANGED <<m, tasks, stop, target, liveCount, wpc, cur, tstate, ppc, rz, rn>>

\* Mutant: stop_ is set and nobody is told.
ShutdownSilently ==
    /\ ~running /\ ~stop
    /\ m = NoThread
    /\ stop' = TRUE
    /\ UNCHANGED <<m, tasks, target, liveCount, wpc, cur, tstate, ppc, rz, rn, running>>

\* shutdown(): stop_ and notify_all() in one critical section.
Shutdown ==
    /\ ~running /\ ~stop
    /\ m = NoThread
    /\ stop' = TRUE
    /\ wpc' = NotifyAll
    /\ UNCHANGED <<m, tasks, target, liveCount, cur, tstate, ppc, rz, rn, running>>

-------------------------------------------------------------------------------
Worker(w) ==
    \/ WaitAgain(w) \/ BreakOnStop(w) \/ ShrinkUnderLock(w) \/ TakeTask(w)
    \/ FinishTask(w) \/ ThreadExit(w)
    \/ ShrinkLoad(w) \/ ShrinkTest(w) \/ ShrinkRefused(w) \/ ShrinkCas(w) \/ ShrinkCasFail(w)

Resize == ResizeLock \/ ResizeSpawn \/ ResizeDone

Receiver(p) ==
    \/ Receive(p) \/ TryEnqueueFull(p) \/ InlineDone(p) \/ NotifyOne(p)
    \/ \E t \in Tasks : TryEnqueue(p, t)

Next ==
    \/ \E p \in Producers : Receiver(p)
    \/ \E w \in Workers : Worker(w) \/ SpuriousWakeup(w)
    \/ PerfTick
    \/ \E n \in ResizeArgs : ResizeSkip(n) \/ ResizeStore(n)
    \/ Resize
    \/ StopBegins
    \/ Shutdown

Spec == Init /\ [][Next]_vars

\* Every thread that can run does; a worker that wants m_ gets it if m_ is free
\* again and again (the mutex is not held for ever and the kernel queues the
\* waiters).  Nobody has to submit a query, to resize or to shut down, but a
\* stop() that has begun goes on to shutdown().
Fairness ==
    /\ \A w \in Workers : SF_vars(Worker(w))
    /\ \A p \in Producers : WF_vars(NotifyOne(p))
    /\ SF_vars(Resize)
    /\ SF_vars(Shutdown)

FairSpec == Spec /\ Fairness
-------------------------------------------------------------------------------
(* Properties *)

TypeOK ==
    /\ m \in Workers \cup {NoThread, Resizer}
    /\ tasks \in Seq(Tasks)
    /\ stop \in BOOLEAN
    /\ target \in MinWorkers..MaxWorkers
    /\ liveCount \in Nat
    /\ wpc \in [Workers -> WorkerPC]
    /\ cur \in [Workers -> Nat]
    /\ tstate \in [Tasks -> TaskState]
    /\ ppc \in [Producers -> ProducerPC]
    /\ rz \in ResizePC
    /\ rn \in MinWorkers..MaxWorkers
    /\ running \in BOOLEAN

\* Workers that shrink concurrently, each on a liveCount_ and a target_ it read
\* earlier, never take a running pool below MIN_WORKERS: the value a worker
\* swaps in was over some target when it was read, and a swap on an older value
\* fails.
NeverBelowMin == ~stop => liveCount >= MinWorkers

\* liveCount_ is the number of worker threads, through concurrent shrinking,
\* growing and shutdown: no exit is counted twice (wasShrunk) or not at all.
\* resize() and workerCount() rely on it, and the pool never grows past
\* MAX_WORKERS.
LiveCountExact ==
    /\ liveCount = Cardinality(Alive)
    /\ liveCount <= MaxWorkers

\* No wakeup is lost on the push side: while a worker sleeps, each queued task
\* has a worker that is awake and will look at the queue, or a producer that
\* has yet to call notify_one().  A queue can therefore not sit still next to
\* sleeping workers, although notify_one() is called outside the lock and may
\* hit a worker that finds the queue already emptied.
NoStrandedTask == Asleep # {} => Len(tasks) <= Cardinality(Awake) + Cardinality(Notifying)

\* Nor on the other two conditions of the wait: a worker sleeps neither through
\* shutdown() nor, once resize() has returned, through a lowered target, though
\* resize() stores the target before it takes the lock.
NoSleepThroughChange ==
    /\ stop => Asleep = {}
    /\ Over /\ Asleep # {} => rz \in {"stored", "spawn"}

\* A task taken before shutdown() is run, whatever the resizing does meanwhile:
\* workers leave on stop_ only when the queue is empty.
AcceptedBeforeStopRuns ==
    \A t \in Tasks : (tstate[t] = "queued" /\ ~stop) ~> (tstate[t] \in Workers)

\* resize() to a smaller size takes effect: the pool does not stay over target.
ShrinksToTarget == Over ~> (~Over \/ stop)

\* After shutdown() every worker thread ends, so the destructor's join() returns.
ShutdownEnds == stop ~> (Alive = {})

\* The pool is a bounded queue served in order, each task by one worker and at
\* most MAX_WORKERS of them at a time: concurrent submission, taking,
\* resizing and shutdown show the receivers nothing else.
Served == {t \in Tasks : tstate[t] \in Workers}

Queue == INSTANCE TaskQueue WITH
    Task <- Tasks, Limit <- BackpressureLimit, Capacity <- MaxWorkers,
    queue <- tasks, inService <- Served, stopped <- stop

ImplementsQueue == Queue!QSpec
===============================================================================
