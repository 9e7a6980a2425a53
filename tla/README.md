# A TLA+ model of the lynx DNS server

This directory holds a formal model of the server under `src/src/`: what its
threads share, the order in which they touch it, and what stays true whatever
the scheduler, the network and the clients do. TLC checks the models on small
instances; TLAPS proves the safety properties for every size.

Checking it:

    tlc -workers 4 -config ThreadPool.cfg MCThreadPool     # and so on, see "Runs"
    tlapm ThreadPoolProofs.tla                             # and the other *Proofs modules

`PROJECT.json` lists every run, the source lines behind every definition, the
mutants that show each property can fail, the findings and the hazards.

## 1. Inventory

| Component | State | Operations | What is hard |
|---|---|---|---|
| `ThreadPool` (dns_server.cpp 21-146) | task queue, `stop_`, `target_`, `liveCount_`, one condition variable | `tryEnqueue`, `workerLoop`, `maybeShrink`, `resize`, `shutdown` | atomics read outside the mutex, notification outside the mutex, workers that end themselves |
| `RateLimiter` (148-180) | a window start and a count per client | `allow` | clock read before the lock, window edges |
| `DnsServer` (182-700) | sockets, receiver threads, accept thread, io_context thread, `running_` | `udpWorker`, `onUdpReceive`, `handleQuery`, `tcpAcceptLoop`, `perfMonitorLoop`, `stop` | backpressure, three ways to an answer, blocking calls that only data ends |
| `DomainMap` | suffix map | `fromString`, `getMostSpecific` | nested and repeated entries, walked in hash order |
| `CachingResolver` (caching_resolver.cpp) | L1 slots, L2 map, stale-refresh queue, `running_`, five threads | `query`, `peekCacheRaw`, `refreshEntry`, `gcCache`, `flushCache`, `init`, `maintain`, destructor | state read under the lock and used after it, refreshes racing eviction, thread start and stop |
| cache file | a count and records, rewritten in place | `saveCache`, `loadCache` | a process that dies while it saves, records the loader does not accept |
| `SystemResolver` (system_resolver.cpp) | `udpWorks_`, `getaddrinfoWorks_`, `getaddrinfoTested_` | `query`, `probeLoop` | flags that are stale when used, calls that hang |
| `AutoTuner`, `LatencyManager` | counters, cooldowns, recommended sizes, TTLs | `tune`, `evaluate`, the boosts | long sequences of adjustments, values at their limits |
| `ConnectionController`, `HttpResolver` | managed connections, reconnect queue, pool, `inUse` flags | manage, unmanage, reconnect, health checks, query, warm-up | who owns a connection; indices kept across unlocks. Compiled, but `main` does not instantiate them |
| `HttpsServer`, `MonitorServer` | an acceptor and `running_` each | accept, forward, stream, `stop` | blocking accepts that a close does not end |
| `main` | `running`, `draining`, `reloadRequested` | signals, reload, drain, order of shutdown | decisions on a stale snapshot, joins that may wait |
| `PerfMonitor`, `dns_protocol`, logger | statistics, bytes | counting, parsing, formatting | byte level or output |

**How they interact.** A datagram reaches one of the `udpWorker()` threads or
the io_context thread. It passes the rate limiter, then `peekCacheRaw()`. On a
miss it goes to the pool; if the pool's queue is full the receiver calls the
resolver itself. A pool worker runs `handleQuery()`: `.local` names are
refused, names with an override or unqualified names go to their own upstream,
the rest to `CachingResolver::query()`, whose back end is `SystemResolver`. The
reply is posted to the io_context thread. TCP has an accept thread, which reads
the query, and a pool of its own. `perfMonitorLoop()` resizes the pool on the
advice of `AutoTuner`, which also moves the TTL limits of the cache. `main()`
loads the cache file, starts the servers, waits for a signal, drains, stops the
servers one after the other and returns; the last owner of the resolver writes
the file.

**What makes each part correct.** The pool: no task is forgotten, its count is
right, it keeps its bounds and it ends. The cache: a caller gets the data of
the name it asked for, boundedly stale, in a map of bounded size. The threads
of the resolver: nobody sleeps on work, nothing runs when the cache file is
written. The file: it never prolongs an answer, and loses nothing that a complete
save wrote, other than behind a record the loader stumbles over. The server: what is admitted is
answered and routed to the nearest override. The system resolver: a query is
refused only if nothing could answer it. The tuner: advice within limits, no
growth right after a cut, and a way back. The process: a signal ends it. The
connections: one user each, one reconnect each, an exact count.

## 2. Modules

| Module | Models | State ↔ code |
|---|---|---|
| `ThreadPool` | the pool and its callers | `m` is `m_`; `wpc[w]` is the line a worker is at; `cur[w]` the local of `maybeShrink()`; each step is one access another thread can see |
| `TaskQueue` | what the pool promises: a bounded FIFO | `queue`, `inService`, `stopped`; `ThreadPool` instantiates it with the tasks its workers run |
| `AnswerStore` | what the cache promises: answers that never change, offered for a bounded time | `known` is what L1, L2 and the callers hold, `offered[n]` what can be served for a name |
| `CachingResolver` | both cache tiers, callers, the two refreshers, the collector | `turbo`, `cache`, `queue` are the members; `thread[t]` is a caller between two critical sections with the message it holds; a worker that `init()` started too early is one that never pops (no fairness is assumed) |
| `ResolverLifecycle` | init, maintain, the worker's wait, the loops, the destructor | `worker = "presleep"` is the moment between the predicate and the sleep, with the mutex held |
| `CacheFile` | the cache file over several lives | `file` is what is on disk, `out` what `saveCache()` has yet to write; `due`, `up`, `fileUp`, `left` are history |
| `RateLimiter` | `allow()` | `call[t]` is a thread that has read the clock and waits for the mutex |
| `DomainMap` | parsing of the overrides, the most specific match | a name is a sequence of labels; `Orders` are the orders in which the hash table may be walked; `Nearest`, the first of a name's ancestors that has an entry, is the reference definition |
| `DnsServer` | the way of a query over UDP and TCP | `req[r]` follows a query, `holds[u]` is what a receiver is busy with |
| `ServerStop` | `stop()` against the blocked threads | `buf[s]` is a socket's buffer, `wk[u]` a receiver, `handler` is where `onUdpReceive()` is in the detached io_context thread, `acc` the accept thread and `topen` its acceptor, `addr` the kind of listen address |
| `FrontEnds` | `HttpsServer`, `MonitorServer` | `hacc`, `mon` are the listeners, `hreq[c]` a connection and its thread |
| `MainProcess` | `main()`; instantiates `ServerStop` and `FrontEnds` | `main` is where `main()` is, `on`, `draining`, `reload` its flags |
| `SystemResolver` | the strategies of `query()` and the probe thread | the three flags; `net` is the network |
| `LatencyManager` | urgency and boosts as functions of a sample | `over` is `consecutiveOver_` |
| `AutoTuner` | `tune()` | the members under short names; `sinceCut`, `sinceGrowth` are history |
| `ConnectionController` | `managed_`, the reconnect queue, `run()`, `stop()` | `round` is what a round of `run()` remembers without the lock, `worker[w]` the work a thread has |
| `HttpResolver` | pool, queries, openers, warm-up, on top of `ConnectionController` | `inUse[c]`; `at[a]` is where a thread is, and its connection |
| `ThreadPoolProofs`, `CachingResolverProofs`, `AutoTunerProofs`, `SystemResolverProofs`, `CacheFileProofs`, `RateLimiterProofs`, `HttpResolverProofs`, `DnsServerProofs` | theorems about the module of that name. `CacheFileProofs` is also about `ResolverLifecycle`, the threads that end before the file is written; `HttpResolverProofs` about the composition with `ConnectionController`; `DnsServerProofs` about `DomainMap` and about `MainProcess`, the process around the server, with `ServerStop` and `FrontEnds` | |
| `MC*` | instances for TLC | |

The modules meet at interfaces. `DnsServer` uses `CachingResolver` as "answers,
and may leave the name in the cache", and the pool as a bounded queue with a
number of workers, which is what `ImplementsStore` and `ImplementsQueue` justify; `ServerStop` uses
the pool as a number of tasks in flight; `ThreadPool` takes the tuner's advice
as any number of `ResizeArgs`, of which `TypeOK` of `AutoTuner` gives the range;
`ResolverLifecycle` and `CachingResolver` share the stale-refresh queue;
`MainProcess` reads of `PerfMonitor` only the pool's load.

Abstractions worth knowing:

* Messages are a question, an rcode, a TTL and an expiry. L1 compares 64-bit
  hashes and nothing else; the hash is a constant `Hash` that need not be
  injective, so two names may share an L1 entry. `shouldCache()` does not
  compare the class; the model has class IN only.
* In `CachingResolver` time does not advance between copying a stale message
  and putting it into L1: a few instructions. `StalenessBounded` would
  otherwise need the length of that pause in its bound.
* The TTL settings that `AutoTuner` moves while the server runs are constants of
  `CachingResolver`. A request with other than one question bypasses the cache
  in the code and is not an action.
* x86's compare-and-exchange does not fail spuriously; a failure in
  `maybeShrink()` is a real one.
* `scrubWorkers()` finds every thread joinable and removes none; the model
  reuses the identity of a thread that ended.
* In `SystemResolver` an upstream that is reachable over DoH answers; UDP may
  lose packets although it is reachable, those of a query and those of the probe.
* In `AutoTuner` any sample may follow any other. The filters (moving averages,
  regression, quantiles) that make one sample depend on the last ones only
  remove behaviours.
* In `CacheFile` time the process is down does not count against a TTL, as in
  the code. What bytes of an oversized message are taken for is one of two
  outcomes: nothing, or an exception out of `main()`.
* In `FrontEnds` and `ServerStop` a thread blocked in `accept()` keeps the port
  open when the socket is closed under it, as on Linux; one that enters
  `accept()` afterwards gets an error.
* In `ServerStop` the copy of `udpSocket_` that `onUdpReceive()` takes is either
  the socket or null. The code copies a `shared_ptr` that `stop()` resets at the
  same time, a data race whose other outcomes (a torn copy) are crashes too.
  Whatever happens after a crash is not followed (`Crashed`).
* `HttpResolver` is followed up to the point where the code loses exclusive use:
  the warm-up's second pass steps on a connection in use (`overran`), or
  `unmanage()` shifts the table under the indices of `run()` (`shifted`). Its
  destructor is followed to the end of `stop()`; the loop after it, which closes
  every connection with openers possibly still at work, is not modelled.
* The TLC runs set `CHECK_DEADLOCK FALSE` where clocks, requests and queries are
  bounded, or a stopped server has nothing left to do. `AutoTuner` never stops,
  and deadlock is checked there.

## 3. Runs

Passing runs:

| Run | States | Shows |
|---|---|---|
| `thread_pool` | 74 128 | two workers, a receiver, resizes below, inside and above the bounds, shutdown: `NeverBelowMin`, `LiveCountExact`, `NoStrandedTask`, `NoSleepThroughChange`; under fairness `AcceptedBeforeStopRuns`, `ShrinksToTarget`, `ShutdownEnds`; and the refinement `ImplementsQueue` |
| `cache` | 492 108 (with symmetry, see the constraint below) | two callers, both refreshers, collector and flush, three names in one L1 slot of which two have the same hash, a map of two: `StalenessBounded`, `AnswersMatchQuestion`, `CacheWithinLimit`, `NoResurrection`, `LiveEntryKept`, `TypeOK`; and the refinement `ImplementsStore` |
| `lifecycle` | 10 329 | all five threads from start to destruction: `NoSleepOnWork`, `NoThreadAtSave`, `QueueIsServed`, `DestructorEnds` |
| `rate` | 115 732 | two receivers, one client, a second of two ticks, a limit of two: `BurstBounded`, `RefusedOnlyOverLimit`. Both bounds are tight: one less fails |
| `server` | 229 026 | two datagrams, two connections, queues of one, a public, an overridden and a malformed name, overrides that nest, repeat in different case and name the root, in every order of the hash table: `AdmittedIsAnswered`, `RoutedToNearest` |
| `resolver` | 185 976 | two callers, the probe thread, lost packets, every initial network, one change: `AnsweredIfDohUp`, `QueryReturns`, `UdpFlagAdapts` |
| `tuner` | 131 745 | five kinds of sample (idle, trickle, failing, deep queue, over target) in any order: `TypeOK`, `GrowthPaced`, `CalmShrinks`, `TrickleRelaxes` |
| `process` | 476 192 | a SIGTERM at any moment with the DNS server, on an address that 127.0.0.1 reaches or does not, a query and a TCP client; or a SIGHUP and a SIGTERM with the HTTPS server, two clients and a viewer of the monitor: `AtMostOneLate`, `NothingRunsAtExit`, `NoWorkAfterClose`, `SignalEndsProcess` |
| `restart` | 373 874 | several lives, kills at any moment, two answers of which one is oversized, half-second steps: `NoProlonging`, `KeptAcrossRestart` |
| `connections` | 792 231 | two connections, a query thread, the warm-up and pool openers, a reconnect worker, health checks, destruction while the warm-up and the openers are at work: `PendingIsServed`, `CountExact`, `ExclusiveUse`, `StopEnds` |

Runs that refute what the documentation, a comment or a test says:

1. `cache_rcode`: the rcode of a cached answer is lost. `buildCachedReply()` and
   `peekCacheRaw()` make a fresh header, so NXDOMAIN becomes NOERROR on the
   second query; `tests/test_basic.py:74` expects 3.
2. `routing_full`: a receiver that meets a full queue, and the TCP pool, skip
   the overrides; what they learn is cached and answered from before routing.

Other differences that the models make visible and that have no run of their
own:

* **Cache.** Two names with the same 64-bit hash share an L1 entry, and one is
  answered with the other's message (`AnswersMatchQuestion` allows just that;
  `DistinctHashesSuffice` says it is the only way). A stale entry is served up to 60 seconds past `staleThreshold` (the
  exact bound is `StalenessBounded`); a full map drops a live entry although
  expired ones are there (`LiveEntryKept` says which); an upstream's own SERVFAIL
  is kept for the whole negative TTL.
* **Threads of the resolver.** `init()` starts the stale-refresh worker, whose
  loop tests `running_`, before `maintain()` sets it (caching_resolver.cpp:198).
  If the worker is first it ends at once and stale entries are never refreshed,
  against project-map.html:452; `QueueIsServed` speaks of a worker that came up.
  The destructor hangs if its `notify_all()` falls between the worker's predicate
  and its sleep (the case `DestructorEnds` leaves out).
* **Cache file.** A record of more than 4096 bytes is saved but not skipped when
  it is read: what follows it is lost (`Behind` in `KeptAcrossRestart`), or
  `parse()` throws out of `main()` and the program does not come up until the
  file is removed (`Throws`, the guard of `Start`). A shutdown while the prewarm thread runs may save nothing.
* **Stop.** The dummy datagrams of `stop()` (dns_server.cpp:296) may miss a
  receiver, since the kernel picks the socket and the main socket takes part;
  `stop()` then hangs, against project-map.html:436 and CHANGELOG.html:154. So
  does it while the accept thread reads from a silent TCP client. A DNS server
  bound to an address that 127.0.0.1 does not reach is not woken by the connection
  of its `stop()` (line 290), nor is such a monitor by its own. These are the
  cases of `Held` in `SignalEndsProcess`. The io_context thread is not joined:
  `onUdpReceive()` may be under way when the main socket is reset (lines 315-318),
  and then uses a null pointer (`Crashed`), against the comment at line 314, "All
  work is done — safe to close sockets and stop io_context".
* **Drain.** It does not wait for queries in flight (comment at main.cpp:415,
  project-map.html:962): it looks at queued tasks only, as recorded up to two
  seconds ago. Queries the pool accepts after `shutdown()` may never run, and
  replies still posted when the io_context stops are not sent.
* **HTTPS.** Any error of `accept()` ends the listener for good; a forwarded
  query whose datagram is lost keeps its thread for ever.
* **Rate limit.** A client gets up to `2 * limit - 1` queries in one second, plus
  one per further receiver thread (`BurstBounded`).
* **System resolver.** `query()` reads `udpWorks_` twice and may skip the "last
  resort"; `getaddrinfoWorks_` is not re-checked once it is set; the probe sends
  one packet per server, so a single loss takes `udpWorks_` down for a minute.
* **Routing.** An override for the root matches the root only; a name counts as
  unqualified with at most one dot; the `.local` test is case-sensitive.
* **Tuner.** The minimum TTL can fall to 241 seconds, below the documented 300; a
  stuck queue can lower TTLs that were higher (7200 to 1200, negative 3600 to
  600); the negative TTL is never relaxed; a stable low load with an empty queue
  ends in idle recovery and never gets to the rules that relax the TTLs and turn
  fan-out off (project-map.html near line 819), which is why `TrickleRelaxes` asks
  for a queue that is not empty; the cooldown is 6 cycles of 3 seconds, not about
  30 seconds; the PID output reaches the log only.
* **Connections.** The warm-up sets `inUse` without looking; `run()` uses indices
  that `unmanage()` may have shifted; `doPost()` takes a second connection before
  it sees it is one too many and never gives it back (`leaked`); health checks
  use a stream without taking `inUse`.

**Bounds.** They are small because the arguments are local: two workers are
enough for every race on `liveCount_` (a swap fails only because of one other),
two keys in one slot, with equal and with different hashes, for every L1 conflict,
two callers for misses that overlap and for a slot overwritten between a lookup and
an insert, a map one smaller than the number
of keys for every eviction, one network change for a flag to be stale in either
direction, one receiver and the main socket for a datagram to go astray, the
addresses "any" and "other" for a wake-up that arrives or not (127.0.0.1 itself
reaches a subset of what "any" does: for TCP the same, for UDP the main socket only), one
kill for every place a save can be cut, two records for one to follow the other,
one retry for the end of the retries. In `tuner` the limits of sizes, TTLs and
cycles are scaled down so that every counter reaches its end and every clamp is
met; the theorems cover the real values. Every safety property of a passing run
is also proved for all sizes. `MaxTime`, `MaxAsked`, `MaxQueries`, `MaxClients`, `MaxViews`, `MaxHups`, `MaxChanges` and `MaxChecks` bound clocks and environments
only; `MaxRun` and `MaxSamples` stop counters above every threshold they are
compared with.

Two runs are cut where the product of independent parts grows and shows nothing
new. `cache` has the constraint `TwoAtATime`: of the callers and the two
refreshers two are under way at a time before time 2, and one after that; every
pair of them interleaves while the first answers live, expire and go stale, and
the collector, the flush and the clock interleave with all. `process` has
one kind of server at a time, since the two share only `main()`, and reloads only
with the second. The theorems have neither limit.

**Fairness.** Threads that can run do run (weak fairness per thread); calls to
upstreams, health checks and opens end, since the sockets and libcurl have
timeouts; a hanging `getaddrinfo()` ends by the system's own timeouts
(`HangsEnd`). For `UdpFlagAdapts`, packets are not lost in every cycle of the probe
for ever (`SomeGetThrough`, strong fairness of a cycle that gets through). A thread that contends for the pool's mutex gets it if it is free
again and again (strong fairness), because no holder keeps it and the kernel
queues the waiters. `tune()` runs every three seconds. No client, no signal, no resize, no
upstream of the HTTPS front end and no shutdown is ever obliged to happen, and
nothing is assumed of spurious wakeups.

## 4. Proofs

Every safety property that a passing run checks, the two refinements included, is
a theorem `Spec => ...` for every value of the constants:

| Module | Theorems (property) |
|---|---|
| `ThreadPoolProofs` | `TypeCorrect`, `CountInvariant`, `PoolNeverBelowMin`, `PoolCountExact`, `PoolNoStrandedTask`, `PoolNoSleepThroughChange`, `PoolImplementsQueue` (`ImplementsQueue`) |
| `CachingResolverProofs` | `TypeCorrect`, `CacheLimit`, `RightAnswers` (`AnswersMatchQuestion`), `DistinctHashesSuffice`, `BoundedStaleness`, `NothingResurrected` (`NoResurrection`), `LiveEntriesStay` (`LiveEntryKept`), `CacheImplementsStore` (`ImplementsStore`) |
| `AutoTunerProofs` | `TunerLimits` (`TypeOK`), `TunerPace` (`GrowthPaced`) |
| `SystemResolverProofs` | `TypeCorrect`, `NotRefusedWhileDohUp` (`AnsweredIfDohUp`) |
| `CacheFileProofs` | `TypeCorrect`, `NeverProlonged` (`NoProlonging`), `KeptByEveryRestart` (`KeptAcrossRestart`); of the threads `LifeTypeCorrect`, `WorkerNeverSleepsOnWork` (`NoSleepOnWork`), `NoThreadIsLeftAtSave` (`NoThreadAtSave`) |
| `RateLimiterProofs` | `TypeCorrect`, `BurstIsBounded` (`BurstBounded`), `NoEarlyRefusal` (`RefusedOnlyOverLimit`) |
| `HttpResolverProofs` | `TypeCorrect`, `OneUser` (`ExclusiveUse`), `CountIsExact` (`CountExact`), `ReconnectInOneHand` (`PendingIsServed`) |
| `DnsServerProofs` | `LookupIsNearest`, `TypeCorrect`, `Routed` (`RoutedToNearest`); of the process `OneLateClient` (`AtMostOneLate`), `ClosedTakesNoWork` (`NoWorkAfterClose`), `ExitIsClean` (`NothingRunsAtExit`) |

The assumptions are the named ASSUMEs of the modules, which TLC evaluates in
every run. They ask for finite sets, bounds in order, and values outside the
sets they must not be confused with. Those that say more: `RateAssumption` has
at least one receiver thread (the code starts a fixed number) and a clock that
can pass the first window; `HttpAssumption` has query threads that are not
openers; `DomainAssumption` and `ServerAssumption` have names and overrides that
are sequences of labels. The theorems about `MainProcess` use no assumption.

**ThreadPool.** `LiveCountExact` and `NeverBelowMin` are not inductive: the
swap in `maybeShrink()` compares with a value read two steps earlier. `CountInv`
adds `CasAboveMin` (a worker about to swap holds a count above MIN_WORKERS: it
was above a target when tested, and no target is below MIN_WORKERS) and
`ExitOnlyOnStop` (only shutdown leads to the final `fetch_sub`). If the swap
succeeds, the live count equals the value held and stays at MIN_WORKERS or
above. `NoStrandedTask` is inductive together with the types: a push adds a
pending notification, a notification turns into an awake worker if anybody
sleeps, taking a task uses up one awake worker and one task, and a worker goes
to sleep only if the queue is empty. `NoSleepThroughChange` is inductive too: a
worker sleeps only if it is not over target, and until `resize()` has notified
everybody it counts as under way.

**The pool as a queue.** `PoolImplementsQueue` shows that every step of
`ThreadPool` is a step of `TaskQueue` or leaves its state alone, with the tasks
in the workers' hands as `inService`. `TaskInv` says that a queued task is
queued once and that two workers never run the same one; `CountInv` bounds the
workers that can be running one. `StepKinds` splits the actions by what they do
to queue and tasks, so that the many steps that only touch counts and sleepers
are handled once. The refinement is one of safety; that accepted tasks run is
`AcceptedBeforeStopRuns`, model-checked.

**CachingResolver.** `CacheLimit` rests on cardinality lemmas: an insert follows
a size test or an eviction in the same critical section. `ContentInv` says what
every message in L1, in L2, in a caller's hands and in a refresher's hands is:
in L2 and in a caller's hands it is for the very key, in L1 for a key with the hash
it is filed under, and an L1 copy ends no later than
`exp + StaleThreshold + TurboStaleTTL` of its data. A caller at "stale" holds a
message that is within the threshold now; that is why the step to L1 cannot add
up. `RightAnswers` and `BoundedStaleness` follow, and, for keys whose hashes
differ, `DistinctHashesSuffice`: nothing else can make an answer another name's. The two action properties need
no more than the types: `MapSteps` sorts the steps by what they do to the map
(a caller's fill with its eviction, a caller's failure, a refresh, the collector,
a flush), and
`RefreshWrites` says that a refresh writes only where it finds an entry. The
victim of an eviction is the entry that ends first, so an unexpired one is
dropped only if there is none that ends sooner.

**The cache as a store.** `CacheImplementsStore` maps both tiers and what callers
hold to one set of answers, and forgets the rest. `CallerKnown` and `OthersKnown`
say that every answer held after a step was held before it, but for one: the
message a caller makes of the backend's reply (or of none), or the one a refresh
writes, and that one is `Received`, with an expiry one lifetime from now. So no
copy, stale or not, is an answer anew or lives longer than it says, and what the
map loses is lost. `CallerCarries` does the bookkeeping once for the eleven steps
of a caller. What may be offered is `RightAnswers` and `BoundedStaleness`.

**AutoTuner.** `TunerLimits` needs a bound for every rule: the lemmas
`ConnsWithinLimits`, `ThreadsWithinLimits`, `TtlsWithinLimits` and
`RefreshWithinLimits` say that what a cycle computes from values in range is in
range, and `CutsLower` that a cut never grows anything. `GrowthPaced` speaks of
history, so `TunerInv` adds `Paced`: the cooldown and the holdoff of the code
are never less strict than the cycles that really passed. Growth needs a cooldown
of at most 1 and a holdoff that is over, hence `TunerPace`.

**ResolverLifecycle.** `NoSleepOnWork` is not inductive: it says nothing of the
moment between the predicate and the sleep. `EmptyWhileFallingAsleep` includes
it, and holds because a key is queued under the mutex the worker has then.
`NoThreadAtSave` needs `Joined`: what the destructor has joined up to the step
it is at has ended, and nothing starts a thread again after that.

**SystemResolver.** `DohSeen` follows a query past its attempt at DoH: if it is
looking at its last resort, or was refused, DoH was down at some moment of the
query (`dohUp` is history: still set, DoH is reachable now). What the flags say,
and when they change, does not come into it.

**CacheFile.** For `NoProlonging` what is in the file must be as honest as what
is in the map: `FileHonest` says that a record, or one still to be written,
grants no more seconds than its answer has left in time served; `AnswersInTime`
is the same of the map, also while the process is leaving. A save rounds down
(`SavedSeconds`), a load takes what the record says. `KeptAcrossRestart` needs
`FileComplete`: the file together with what is still to be written has a record
for every answer that had a second left when the save began, with its exact
number of seconds, and nothing is still to be written once the save has ended. The
loader reads a file up to its first oversized record, so an answer it does not
find is that record or behind it (`Behind`).

**RateLimiter.** The bounds count requests over a second that need not be a
window, so the invariant speaks of every second [t, t + Window] at once.
`Admissions(c, t)` sorts by where the client's window stands: long over (no
request of that second yet), begun before t (they are among those counted),
begun within it (at most one window's worth of others), or begun after it (then
only threads that read the clock before can still add one, and the thread that
began the window is not among them). `Counted` bounds the count by the requests
of the window and the late ones. Both rest on `Readings`: a reading is never
later than the clock, and never of its first second, so that the entry of a new
client (window start 0) always opens a window.

**Connections.** The invariant has two halves. `OneOwner`: of query threads,
openers, tasks and warm-up at most one has a connection, and `inUse` says so;
`OwnPlaces` and `Started` say that a task only has the connection it was created
for. `Controlled`: a reconnect is in one hand (`OneHand`), a mark stands for such
a reconnect and is on a connection that is down (`Marked`), the table has no
connection twice, and the count is of the connections that are up
(`Consistent`). The halves meet in `OpenedUnmanaged`: whoever opens a connection
has unmanaged the old stream, so managing it again makes no second entry.
`ErasedElements`, `WithoutOne` and `WithoutNone` say what erasing from the table
and from the queue leaves. Like the model, the theorems follow a behaviour up to
`overran` and `shifted`, where the code loses these properties.

**Routing.** `getMostSpecific()` is a loop over a hash table, here a recursive
function over any order of the entries, and `LookupIsNearest` says what it computes
for every input. The induction is by a least counterexample (`LeastElement`):
`RunExists` shows that the recursion has a solution, `LoopRuns` that
`GetMostSpecific` is its last value, `LoopKeepsBest` that after i turns the loop has
the longest match of the first i entries. `SuffixMatches` and `MatchIsSuffix` tie
"is a subdomain" to the suffixes of the name, so that the longest match is the
nearest ancestor. The root took care: `countLabels()` counts one dot for it, and it
is an ancestor of nothing but itself, so `Ancestors` has the empty suffix only for
the empty name. `Routed` then follows a query: `Named` and `Queued` say that
whatever is on its way through a pool has a name, so that `handleQuery()` looks up
one of `Names`, and `Route` keeps the order of the tests.

**The process.** `Listener` follows the thread of `HttpsServer` through `stop()`:
after it `running_` is cleared, and a late connection finds the listener at its
test or gone. (The test of `running_` and the closed acceptor back each other up:
without either, the other still ends the loop. The mutant of `AtMostOneLate` is a
`stop()` that does neither.) `Closed` says that what `CloseAll` waited for stays so;
with it no receiver can hand over a query after the close. `LateWork` says what can
still happen to the pool then: `onUdpReceive()`, if it was under way, turns the
datagram it has into a task or drops it, and the pool handles tasks, so the work
together with that datagram does not grow. `Joined` follows `main()` from join to
join, whence `ExitIsClean`. Each part of the process keeps its own invariant and
leaves the others' variables alone (`ServerStep`, `FrontStep`), so the composition
needs no more than one case per step of `main()`.

The inductive invariants of `RateLimiter`, of the connections and of the process
were checked with TLC on the instances of the runs before they were proved.

Not proved, only model-checked:

* Liveness (`AcceptedBeforeStopRuns`, `ShrinksToTarget`, `ShutdownEnds`,
  `QueueIsServed`, `DestructorEnds`, `AdmittedIsAnswered`, `QueryReturns`,
  `UdpFlagAdapts`, `CalmShrinks`, `TrickleRelaxes`, `SignalEndsProcess`,
  `StopEnds`): fairness is out of the prover's reach.
* `CachedRcodeKept` and `OverrideRespected` are false; their runs show how.

The library's induction theorems take an operator as parameter, which the
installed provers cannot instantiate. Where a proof needs induction (over the loop
of `getMostSpecific()`, over the table of connections) it takes the least number of
a given set instead: `LeastElement` in `DnsServerProofs` and `HttpResolverProofs`.

## 5. Not modelled, and the plan

Left out for good:

* `dns_protocol`: byte-level parsing and packing. A parser's defects are in its
  bytes, which the properties here do not tell apart; that `parse()` may throw is
  in `DnsServer` and `CacheFile`.
* `PerfMonitor`, the pages of `MonitorServer`, the logger, configuration parsing,
  scripts and web assets: statistics, formatting and I/O. What other parts read of
  the statistics is in their modules.
* The filters of `AutoTuner` and `LatencyManager`: floating-point averages whose
  results are a free choice of samples here.
* `probeAllIdle()`, `reload()` and `maintain()` of the DoH client, which `main()`
  does not use. The last two close or remove connections under their users, so
  that little can be stated of what follows; `maintain()` also calls
  `ensurePoolSize()` with `growMutex` held, which takes it again.
* Detection of nameservers and the wire work of `SystemResolver`.

What remains worth doing: wider modelling rather than more proofs of what is
there. The DoH client's `reload()` would first need code that does not close
connections under their users; a second upstream would give the fan-out race a
choice; and the TTL settings that `AutoTuner` moves could become variables of
`CachingResolver`.
