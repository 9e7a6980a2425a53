-------------------------- MODULE ResolverLifecycle --------------------------
(***************************************************************************)
(* The threads of CachingResolver from construction to destruction:        *)
(* init() starts the stale-refresh worker and the warmup, maintain() sets  *)
(* running_ and starts three periodic loops, the destructor clears         *)
(* running_, notifies, joins them all and writes the cache file.           *)
(*                                                                         *)
(* The worker waits on a condition variable.  It holds staleRefreshMutex_  *)
(* from the evaluation of the predicate to the moment it sleeps: that is   *)
(* the state "presleep", the only one in which nobody else gets the mutex. *)
(* The destructor does not take the mutex.                                 *)
(***************************************************************************)
EXTENDS Naturals, Sequences

CONSTANTS
    StaleKeys,  \* cache keys that go stale
    Loops,      \* maintainThread_, refreshThread_, adaptivePrewarmThread_
    MaxQueue    \* MAX_STALE_REFRESH_QUEUE

ASSUME LifecycleAssumption == MaxQueue \in Nat \ {0}

VARIABLES
    main,       \* the thread that constructs, starts and destroys the resolver
    running,    \* running_
    worker,     \* staleRefreshWorker_
    queue,      \* staleRefreshQueue_
    loop,       \* the periodic threads
    warmup      \* warmupThread_

lifeVars == <<main, running, worker, queue, loop, warmup>>

Ended == {"none", "done"}

-------------------------------------------------------------------------------
LifeInit ==
    /\ main = "constructed"
    /\ running = FALSE
    /\ worker = "none"
    /\ queue = << >>
    /\ loop = [l \in Loops |-> "none"]
    /\ warmup = "none"

\* CachingResolver::init()
InitThreads ==
    /\ main = "constructed"
    /\ main' = "inited"
    /\ worker' = "test"
    /\ warmup' = "run"
    /\ UNCHANGED <<running, queue, loop>>

\* CachingResolver::maintain()
Maintain ==
    /\ main = "inited"
    /\ main' = "serving"
    /\ running' = TRUE
    /\ loop' = [l \in Loops |-> "test"]
    /\ UNCHANGED <<worker, queue, warmup>>

-------------------------------------------------------------------------------
(* The stale-refresh worker *)

\* while (running_)
WorkerTest ==
    /\ worker = "test"
    /\ worker' = IF running THEN "lock" ELSE "done"
    /\ UNCHANGED <<main, running, queue, loop, warmup>>

\* With the mutex: nothing to do, the wait is about to begin.
WorkerDecidesToSleep ==
    /\ worker = "lock"
    /\ running /\ queue = << >>
    /\ worker' = "presleep"
    /\ UNCHANGED <<main, running, queue, loop, warmup>>

WorkerSleeps ==
    /\ worker = "presleep"
    /\ worker' = "wait"
    /\ UNCHANGED <<main, running, queue, loop, warmup>>

\* wait() may return on its own; the predicate is then evaluated again.
SpuriousWakeup ==
    /\ worker = "wait"
    /\ worker' = "lock"
    /\ UNCHANGED <<main, running, queue, loop, warmup>>

WorkerReturns ==
    /\ worker = "lock"
    /\ ~running /\ queue = << >>
    /\ worker' = "done"
    /\ UNCHANGED <<main, running, queue, loop, warmup>>

\* Mutant: the last entry of the queue is left there.
WorkerPopAllButLast ==
    /\ worker = "lock"
    /\ Len(queue) > 1
    /\ queue' = Tail(queue)
    /\ worker' = "refresh"
    /\ UNCHANGED <<main, running, loop, warmup>>

\* The work is taken, also when running_ has just been cleared.
WorkerPop ==
    /\ worker = "lock"
    /\ queue # << >>
    /\ queue' = Tail(queue)
    /\ worker' = "refresh"
    /\ UNCHANGED <<main, running, loop, warmup>>

\* refreshEntry() returns; the backend's timeouts bound it.
WorkerRefreshed ==
    /\ worker = "refresh"
    /\ worker' = "test"
    /\ UNCHANGED <<main, running, queue, loop, warmup>>

Worker ==
    \/ WorkerTest \/ WorkerDecidesToSleep \/ WorkerSleeps
    \/ WorkerReturns \/ WorkerPop \/ WorkerRefreshed

-------------------------------------------------------------------------------
(* Callers *)

Woken == IF worker = "wait" THEN "lock" ELSE worker

\* Mutant: the worker is not notified.
ServeStaleSilently(k) ==
    /\ main \in {"constructed", "inited", "serving"} \/ warmup = "run"
    /\ worker # "presleep"
    /\ Len(queue) < MaxQueue
    /\ queue' = Append(queue, k)
    /\ UNCHANGED <<main, running, worker, loop, warmup>>

\* A stale entry is served: the push and the notify_one() share the mutex.  The
\* destructor runs when no caller is left but the resolver's own warmup.
ServeStale(k) ==
    /\ main \in {"constructed", "inited", "serving"} \/ warmup = "run"
    /\ worker # "presleep"
    /\ Len(queue) < MaxQueue
    /\ queue' = Append(queue, k)
    /\ worker' = Woken
    /\ UNCHANGED <<main, running, loop, warmup>>

\* warmupCache() has asked for its last name.
WarmupEnds ==
    /\ warmup = "run"
    /\ warmup' = "done"
    /\ UNCHANGED <<main, running, worker, queue, loop>>

-------------------------------------------------------------------------------
(* The periodic loops: test, sleep, test again, work *)

LoopTest(l) ==
    /\ loop[l] = "test"
    /\ loop' = [loop EXCEPT ![l] = IF running THEN "sleep" ELSE "done"]
    /\ UNCHANGED <<main, running, worker, queue, warmup>>

LoopWakes(l) ==
    /\ loop[l] = "sleep"
    /\ loop' = [loop EXCEPT ![l] = IF running THEN "work" ELSE "done"]
    /\ UNCHANGED <<main, running, worker, queue, warmup>>

LoopWorks(l) ==
    /\ loop[l] = "work"
    /\ loop' = [loop EXCEPT ![l] = "test"]
    /\ UNCHANGED <<main, running, worker, queue, warmup>>

Loop(l) == LoopTest(l) \/ LoopWakes(l) \/ LoopWorks(l)

-------------------------------------------------------------------------------
(* ~CachingResolver().  maintain() is skipped when the UDP socket cannot be    *)
(* bound.                                                                      *)

DestructorBegins ==
    /\ main \in {"inited", "serving"}
    /\ main' = "stopping"
    /\ running' = FALSE
    /\ UNCHANGED <<worker, queue, loop, warmup>>

\* Mutant: nobody is notified.
DestructorSkipsNotify ==
    /\ main = "stopping"
    /\ main' = "joining"
    /\ UNCHANGED <<running, worker, queue, loop, warmup>>

\* notify_all(), without the mutex
DestructorNotifies ==
    /\ main = "stopping"
    /\ main' = "joining"
    /\ worker' = Woken
    /\ UNCHANGED <<running, queue, loop, warmup>>

JoinWorker ==
    /\ main = "joining"
    /\ worker \in Ended
    /\ main' = "joiningOthers"
    /\ UNCHANGED <<running, worker, queue, loop, warmup>>

\* Mutant: the periodic threads are not joined.
JoinWarmupOnly ==
    /\ main = "joiningOthers"
    /\ warmup \in Ended
    /\ main' = "saving"
    /\ UNCHANGED <<running, worker, queue, loop, warmup>>

\* The other four joins, in any order the threads end.
JoinOthers ==
    /\ main = "joiningOthers"
    /\ warmup \in Ended
    /\ \A l \in Loops : loop[l] \in Ended
    /\ main' = "saving"
    /\ UNCHANGED <<running, worker, queue, loop, warmup>>

\* saveCache(); the members are destroyed.
SaveCache ==
    /\ main = "saving"
    /\ main' = "destroyed"
    /\ UNCHANGED <<running, worker, queue, loop, warmup>>

Destructor == DestructorNotifies \/ JoinWorker \/ JoinOthers \/ SaveCache

-------------------------------------------------------------------------------
LifeNext ==
    \/ InitThreads \/ Maintain
    \/ Worker \/ SpuriousWakeup
    \/ \E k \in StaleKeys : ServeStale(k)
    \/ WarmupEnds
    \/ \E l \in Loops : Loop(l)
    \/ DestructorBegins \/ Destructor

LifeSpec == LifeInit /\ [][LifeNext]_lifeVars

\* Every thread that can run is scheduled again and again, sleeps end, the
\* backend answers or times out; callers hold the mutex only for a push, so the
\* worker gets it.  Nobody is obliged to query, to start or to stop the
\* server, and nothing obliges wait() to return on its own.
Fairness ==
    /\ WF_lifeVars(Worker)
    /\ WF_lifeVars(WarmupEnds)
    /\ \A l \in Loops : WF_lifeVars(Loop(l))
    /\ WF_lifeVars(Destructor)

FairSpec == LifeSpec /\ Fairness

-------------------------------------------------------------------------------
(* Properties *)

LifeTypeOK ==
    /\ main \in {"constructed", "inited", "serving", "stopping", "joining", "joiningOthers",
                 "saving", "destroyed"}
    /\ running \in BOOLEAN
    /\ worker \in {"none", "test", "lock", "presleep", "wait", "refresh", "done"}
    /\ queue \in Seq(StaleKeys) /\ Len(queue) <= MaxQueue
    /\ loop \in [Loops -> {"none", "test", "sleep", "work", "done"}]
    /\ warmup \in {"none", "run", "done"}

\* The worker never sleeps on work: whoever put it there also woke the worker.
NoSleepOnWork == worker = "wait" => queue = << >>

\* When the cache file is written, and the members after it are destroyed, no
\* thread of the resolver can touch cache_ any more, wherever each of them was
\* when the destructor began.
NoThreadAtSave ==
    main \in {"saving", "destroyed"} =>
        worker \in Ended /\ warmup \in Ended /\ \A l \in Loops : loop[l] \in Ended

\* A worker that has come up gets to a key on its queue, as long as the server
\* runs: no notification is lost between its look at the queue and its sleep.
QueueIsServed ==
    (running /\ worker \notin {"done", "refresh"} /\ queue # << >>)
        ~> (worker = "refresh" \/ ~running)

\* The destructor comes to its end if its notify_all() does not fall between the
\* worker's last look at running_ and its sleep.
DestructorEnds == (main = "stopping" /\ worker # "presleep") ~> (main = "destroyed")
===============================================================================
