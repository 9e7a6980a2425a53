--------------------------- MODULE CachingResolver ---------------------------
(***************************************************************************)
(* The two-tier cache of caching_resolver.cpp.                             *)
(*                                                                         *)
(* L1 ("turbo") is direct-mapped and knows keys by their 64-bit hash only: *)
(* the hash gives the slot and is what a lookup compares, so two keys with *)
(* one hash are one key to L1.  L2 is the map cache_, keyed by the whole   *)
(* question, read under a shared lock and written under an exclusive one.  An expired L2 entry may still be served while it is  *)
(* within the stale threshold; serving it copies it to L1 for another 60   *)
(* seconds and puts its key on a bounded queue from which one worker       *)
(* refreshes L2.  A second thread refreshes entries before they expire, a  *)
(* third drops expired ones.                                               *)
(*                                                                         *)
(* One step is one critical section (or one lock-free slot access).  A     *)
(* query that misses is split where it calls back_->query(): anything may  *)
(* happen to both tiers before the answer is there, between the write to   *)
(* L2 and the write to L1, and between reading a stale entry and copying   *)
(* it to L1.                                                               *)
(*                                                                         *)
(* Times are ticks of steady_clock; a message is its question, its rcode,  *)
(* the TTL it was stored with and the moment its data expires.  An L1 hit  *)
(* changes nothing but statistics and is not an action.                    *)
(***************************************************************************)
EXTENDS Integers, Sequences, FiniteSets

CONSTANTS
    Keys,             \* cache keys: name and type (class IN)
    Hashes,           \* 64-bit values of turboHash()
    Hash,             \* Hash[k]: turboHash(k)
    Slots,            \* indices of turbo_
    Slot,             \* Slot[h]: h & (TURBO_SIZE - 1)
    Threads,          \* threads that call peekCacheRaw() and query()
    MaxCacheSize,     \* maxCacheSize
    MinTTL,           \* minTTLSecs
    MaxTTL,           \* maxTTL
    NegativeTTL,      \* negativeTTLSecs
    FailureTTL,       \* clamp(negativeTTLSecs / 10, 30, 60)
    StaleThreshold,   \* staleThresholdSecs
    TurboStaleTTL,    \* the 60 seconds a stale copy lives in L1
    RefreshPct,       \* AutoTuner::cacheRefreshThresholdPct()
    MaxQueue,         \* MAX_STALE_REFRESH_QUEUE
    Replies,          \* what back_->query() may return
    MaxTime,          \* bound on the clock
    None              \* no entry, no message, nullptr

Rcodes    == {"NOERROR", "NXDOMAIN", "SERVFAIL", "REFUSED", "OTHER"}
Negative  == {"NXDOMAIN", "SERVFAIL", "REFUSED"}

\* A reply of the backend: q is the question it repeats, ok stands for the
\* other tests of shouldCache() (QR set, opcode 0, not truncated), empty for a
\* reply without answers and authorities, ttl for its smallest record TTL.
Reply == [q : Keys, rcode : Rcodes, ok : BOOLEAN, empty : BOOLEAN, ttl : Nat]

\* What the cache stores for one.
Message == [key : Keys, rcode : Rcodes, ttl : Nat, exp : Nat]

ASSUME CacheAssumption ==
    /\ IsFiniteSet(Keys)
    /\ Hash \in [Keys -> Hashes]
    /\ Slot \in [Hashes -> Slots]
    /\ MaxCacheSize \in Nat \ {0}
    /\ {MinTTL, MaxTTL, NegativeTTL, FailureTTL, StaleThreshold, TurboStaleTTL} \subseteq Nat
    /\ MinTTL <= MaxTTL
    /\ {RefreshPct, MaxQueue, MaxTime} \subseteq Nat
    /\ Replies \subseteq Reply \cup {None}
    /\ None \notin Reply \cup Message

VARIABLES
    now,      \* steady_clock::now()
    turbo,    \* turbo_: slot -> [hash, msg, until] or None
    cache,    \* cache_: key -> message or None
    queue,    \* staleRefreshQueue_
    thread,   \* per caller: where it is, its key, the message it holds
    worker,   \* the stale-refresh worker, in refreshEntry()
    preempt,  \* the preemptive-refresh thread, in refreshEntry()
    todo      \* toRefresh of the preemptive-refresh thread

vars == <<now, turbo, cache, queue, thread, worker, preempt, todo>>

Idle == [pc |-> "idle", key |-> None, msg |-> None]
At(pc, k, msg) == [pc |-> pc, key |-> k, msg |-> msg]

Cached == {k \in Keys : cache[k] # None}

-------------------------------------------------------------------------------
(* Helpers of the class *)

isExpired(e) == now >= e.exp

\* Mutant: any expired entry is served.
StaleForEver(k) == cache[k] # None /\ isExpired(cache[k])

\* An L2 entry that query() serves as it is, and one it serves stale.
Fresh(k) == cache[k] # None /\ ~isExpired(cache[k])
Stale(k) == cache[k] # None /\ isExpired(cache[k]) /\ now < cache[k].exp + StaleThreshold

\* Mutant: the hash in the slot is not compared.
turboLookupAnyHash(h) == turbo[Slot[h]] # None /\ now < turbo[Slot[h]].until

turboLookup(h) ==
    LET slot == turbo[Slot[h]]
    IN  slot # None /\ slot.hash = h /\ now < slot.until

turboInsert(h, msg, until) ==
    turbo' = [turbo EXCEPT ![Slot[h]] = [hash |-> h, msg |-> msg, until |-> until]]

shouldCache(k, reply) ==
    /\ reply.ok
    /\ reply.q = k
    /\ reply.rcode \in Negative \cup {"NOERROR"}
    /\ reply.rcode = "NOERROR" => ~reply.empty

Bounded(lo, hi, n) == IF n < lo THEN lo ELSE IF n > hi THEN hi ELSE n

computeCacheTTL(reply) ==
    IF reply.rcode \in Negative THEN NegativeTTL ELSE Bounded(MinTTL, MaxTTL, reply.ttl)

\* The message stored for a reply, expiring one TTL from now.
Stored(reply) ==
    LET ttl == computeCacheTTL(reply)
    IN  [key |-> reply.q, rcode |-> reply.rcode, ttl |-> ttl, exp |-> now + ttl]

\* The SERVFAIL stored when the backend returns nullptr.
Failure(k) == [key |-> k, rcode |-> "SERVFAIL", ttl |-> FailureTTL, exp |-> now + FailureTTL]

\* Integer percentage of the TTL that remains, against the tuner's threshold.
needsRefresh(e) ==
    /\ ~isExpired(e)
    /\ e.ttl > 0
    /\ ((e.exp - now) * 100) \div e.ttl < RefreshPct

\* Mutant: whatever comes first in the map goes.
EvictAny == Cached

\* The loop over cache_ keeps the unexpired entry that expires first; if none
\* is unexpired, cache_.begin() goes, which may be any entry.
Evictable ==
    LET live == {k \in Cached : ~isExpired(cache[k])}
    IN  IF live = {} THEN Cached
        ELSE {k \in live : \A j \in live : cache[k].exp <= cache[j].exp}

\* Mutant: the queue is not bounded.
EnqueueAlways(k) == Append(queue, k)

Enqueue(k) == IF Len(queue) < MaxQueue THEN Append(queue, k) ELSE queue

-------------------------------------------------------------------------------
Init ==
    /\ now = 0
    /\ turbo = [s \in Slots |-> None]
    /\ cache = [k \in Keys |-> None]
    /\ queue = << >>
    /\ thread = [t \in Threads |-> Idle]
    /\ worker = Idle
    /\ preempt = Idle
    /\ todo = {}

-------------------------------------------------------------------------------
(* peekCacheRaw() and query() *)

\* The L1 lookup of either entry point misses.
TurboMiss(t, k) ==
    /\ thread[t].pc = "idle"
    /\ ~turboLookup(Hash[k])
    /\ \E pc \in {"peek", "query"} : thread' = [thread EXCEPT ![t] = At(pc, k, None)]
    /\ UNCHANGED <<now, turbo, cache, queue, worker, preempt, todo>>

\* L2 hit: the entry is copied to L1 with its own expiry.
FreshHit(t) ==
    LET k == thread[t].key IN
    /\ thread[t].pc \in {"peek", "query"}
    /\ Fresh(k)
    /\ turboInsert(Hash[k], cache[k], cache[k].exp)
    /\ thread' = [thread EXCEPT ![t] = Idle]
    /\ UNCHANGED <<now, cache, queue, worker, preempt, todo>>

\* peekCacheRaw() serves stale under the shared lock.
PeekStale(t) ==
    LET k == thread[t].key IN
    /\ thread[t].pc = "peek"
    /\ Stale(k)
    /\ turboInsert(Hash[k], cache[k], now + TurboStaleTTL)
    /\ queue' = Enqueue(k)
    /\ thread' = [thread EXCEPT ![t] = Idle]
    /\ UNCHANGED <<now, cache, worker, preempt, todo>>

PeekMiss(t) ==
    LET k == thread[t].key IN
    /\ thread[t].pc = "peek"
    /\ ~Fresh(k) /\ ~Stale(k)
    /\ thread' = [thread EXCEPT ![t] = Idle]
    /\ UNCHANGED <<now, turbo, cache, queue, worker, preempt, todo>>

\* query() only copies the stale message while it holds the lock ...
QueryStale(t) ==
    LET k == thread[t].key IN
    /\ thread[t].pc = "query"
    /\ Stale(k)
    /\ thread' = [thread EXCEPT ![t] = At("stale", k, cache[k])]
    /\ UNCHANGED <<now, turbo, cache, queue, worker, preempt, todo>>

\* Mutant: the copy is given an expiry of its own.
ServeStaleRestamped(t) ==
    LET k == thread[t].key IN
    /\ thread[t].pc = "stale"
    /\ turboInsert(Hash[k], [thread[t].msg EXCEPT !.exp = now + TurboStaleTTL], now + TurboStaleTTL)
    /\ queue' = Enqueue(k)
    /\ thread' = [thread EXCEPT ![t] = Idle]
    /\ UNCHANGED <<now, cache, worker, preempt, todo>>

\* ... and puts it into L1 and its key on the queue afterwards.
ServeStale(t) ==
    LET k == thread[t].key IN
    /\ thread[t].pc = "stale"
    /\ turboInsert(Hash[k], thread[t].msg, now + TurboStaleTTL)
    /\ queue' = Enqueue(k)
    /\ thread' = [thread EXCEPT ![t] = Idle]
    /\ UNCHANGED <<now, cache, worker, preempt, todo>>

QueryMiss(t) ==
    LET k == thread[t].key IN
    /\ thread[t].pc = "query"
    /\ ~Fresh(k) /\ ~Stale(k)
    /\ thread' = [thread EXCEPT ![t] = At("back", k, None)]
    /\ UNCHANGED <<now, turbo, cache, queue, worker, preempt, todo>>

\* back_->query() returns: nothing to store, a reply to store, or nullptr.
\* expiresAt is computed here, before the lock is taken.
BackReply(t, reply) ==
    LET k == thread[t].key IN
    /\ thread[t].pc = "back"
    /\ thread' = [thread EXCEPT ![t] =
                    IF reply = None THEN At("fail", k, Failure(k))
                    ELSE IF shouldCache(k, reply) THEN At("fill", k, Stored(reply))
                    ELSE Idle]
    /\ UNCHANGED <<now, turbo, cache, queue, worker, preempt, todo>>

Full == Cardinality(Cached) >= MaxCacheSize

\* A reply is stored; if the map is full an entry goes first, even when the
\* key is already there.
FillCache(t) ==
    LET k == thread[t].key IN
    /\ thread[t].pc = "fill"
    /\ \/ /\ ~Full
          /\ cache' = [cache EXCEPT ![k] = thread[t].msg]
       \/ /\ Full
          /\ \E v \in Evictable : cache' = [cache EXCEPT ![v] = None, ![k] = thread[t].msg]
    /\ thread' = [thread EXCEPT ![t].pc = "turbo"]
    /\ UNCHANGED <<now, turbo, queue, worker, preempt, todo>>

\* Mutant: a failure is stored without looking at the size.
FillFailureAlways(t) ==
    /\ thread[t].pc = "fail"
    /\ cache' = [cache EXCEPT ![thread[t].key] = thread[t].msg]
    /\ thread' = [thread EXCEPT ![t].pc = "turbo"]
    /\ UNCHANGED <<now, turbo, queue, worker, preempt, todo>>

\* A failure is stored only when there is room; otherwise query() returns.
FillFailure(t) ==
    LET k == thread[t].key IN
    /\ thread[t].pc = "fail"
    /\ cache' = IF Full THEN cache ELSE [cache EXCEPT ![k] = thread[t].msg]
    /\ thread' = [thread EXCEPT ![t] = IF Full THEN Idle ELSE [@ EXCEPT !.pc = "turbo"]]
    /\ UNCHANGED <<now, turbo, queue, worker, preempt, todo>>

\* After the lock is released the stored message also goes to L1.
FillTurbo(t) ==
    /\ thread[t].pc = "turbo"
    /\ turboInsert(Hash[thread[t].key], thread[t].msg, thread[t].msg.exp)
    /\ thread' = [thread EXCEPT ![t] = Idle]
    /\ UNCHANGED <<now, cache, queue, worker, preempt, todo>>

-------------------------------------------------------------------------------
(* refreshEntry(), on the stale-refresh worker and on the preemptive-refresh  *)
(* thread.  The reply is held as it came; expiry is computed under the lock.  *)

\* What refreshEntry() keeps of a reply until it has the lock, and all it may
\* have kept when back_->query() returns.
Answered(r, reply) ==
    IF reply = None \/ ~shouldCache(r.key, reply) THEN Idle ELSE At("write", r.key, reply)
Outcomes(r) == {Answered(r, reply) : reply \in Replies}

\* Mutant: the refreshed entry is stored whether or not its key is still there.
WriteAlways(r) == cache' = [cache EXCEPT ![r.key] = Stored(r.msg)]

\* The entry is replaced only if its key is still in the map; L1 is left alone.
WriteRefreshed(r) ==
    cache' = IF cache[r.key] = None THEN cache
             ELSE [cache EXCEPT ![r.key] = Stored(r.msg)]

WorkerPop ==
    /\ worker.pc = "idle"
    /\ queue # << >>
    /\ queue' = Tail(queue)
    /\ worker' = At("back", Head(queue), None)
    /\ UNCHANGED <<now, turbo, cache, thread, preempt, todo>>

WorkerReply ==
    /\ worker.pc = "back"
    /\ worker' \in Outcomes(worker)
    /\ UNCHANGED <<now, turbo, cache, queue, thread, preempt, todo>>

WorkerWrite ==
    /\ worker.pc = "write"
    /\ WriteRefreshed(worker)
    /\ worker' = Idle
    /\ UNCHANGED <<now, turbo, queue, thread, preempt, todo>>

\* Under the shared lock the thread lists the keys to refresh ...
PreemptCollect ==
    /\ preempt.pc = "idle" /\ todo = {}
    /\ todo' = {k \in Cached : needsRefresh(cache[k]) /\ cache[k].ttl >= MinTTL}
    /\ todo' # {}
    /\ UNCHANGED <<now, turbo, cache, queue, thread, worker, preempt>>

\* ... and then refreshes them one after the other.
PreemptNext(k) ==
    /\ preempt.pc = "idle"
    /\ k \in todo
    /\ todo' = todo \ {k}
    /\ preempt' = At("back", k, None)
    /\ UNCHANGED <<now, turbo, cache, queue, thread, worker>>

PreemptReply ==
    /\ preempt.pc = "back"
    /\ preempt' \in Outcomes(preempt)
    /\ UNCHANGED <<now, turbo, cache, queue, thread, worker, todo>>

PreemptWrite ==
    /\ preempt.pc = "write"
    /\ WriteRefreshed(preempt)
    /\ preempt' = Idle
    /\ UNCHANGED <<now, turbo, queue, thread, worker, todo>>

gcCache ==
    /\ \E k \in Cached : isExpired(cache[k])
    /\ cache' = [k \in Keys |-> IF cache[k] # None /\ isExpired(cache[k]) THEN None ELSE cache[k]]
    /\ UNCHANGED <<now, turbo, queue, thread, worker, preempt, todo>>

flushCache ==
    /\ Cached # {}
    /\ cache' = [k \in Keys |-> None]
    /\ UNCHANGED <<now, turbo, queue, thread, worker, preempt, todo>>

\* The few instructions between copying a stale message and putting it into L1
\* take less than a tick.
Tick ==
    /\ now < MaxTime
    /\ \A t \in Threads : thread[t].pc # "stale"
    /\ now' = now + 1
    /\ UNCHANGED <<turbo, cache, queue, thread, worker, preempt, todo>>

-------------------------------------------------------------------------------
Caller(t) ==
    \/ \E k \in Keys : TurboMiss(t, k)
    \/ FreshHit(t) \/ PeekStale(t) \/ PeekMiss(t)
    \/ QueryStale(t) \/ ServeStale(t) \/ QueryMiss(t)
    \/ \E reply \in Replies : BackReply(t, reply)
    \/ FillCache(t) \/ FillFailure(t) \/ FillTurbo(t)

Refresh ==
    \/ WorkerPop \/ WorkerReply \/ WorkerWrite
    \/ PreemptCollect \/ PreemptReply \/ PreemptWrite
    \/ \E k \in Keys : PreemptNext(k)

Next ==
    \/ \E t \in Threads : Caller(t)
    \/ Refresh
    \/ gcCache
    \/ flushCache
    \/ Tick

Spec == Init /\ [][Next]_vars
-------------------------------------------------------------------------------
(* Properties *)

ThreadState ==
    [pc : {"idle"}, key : {None}, msg : {None}]
        \cup [pc : {"peek", "query", "back"}, key : Keys, msg : {None}]
        \cup [pc : {"stale", "fill", "fail", "turbo"}, key : Keys, msg : Message]

RefreshState ==
    [pc : {"idle"}, key : {None}, msg : {None}]
        \cup [pc : {"back"}, key : Keys, msg : {None}]
        \cup [pc : {"write"}, key : Keys, msg : Reply]

TypeOK ==
    /\ now \in Nat
    /\ turbo \in [Slots -> [hash : Hashes, msg : Message, until : Nat] \cup {None}]
    /\ cache \in [Keys -> Message \cup {None}]
    /\ queue \in Seq(Keys) /\ Len(queue) <= MaxQueue
    /\ thread \in [Threads -> ThreadState]
    /\ worker \in RefreshState
    /\ preempt \in RefreshState
    /\ todo \subseteq Keys

\* The messages a caller asking for k may be answered from at this moment: the
\* L1 slot; the L2 entry, or the stale copy of it that a thread has in hand.
FromL1(k) == {turbo[Slot[Hash[k]]].msg : x \in {y \in {k} : turboLookup(Hash[y])}}
FromL2(k) ==
    {cache[k] : x \in {y \in {k} : Fresh(y) \/ Stale(y)}}
        \cup {thread[t].msg : t \in {u \in Threads : thread[u].pc = "stale" /\ thread[u].key = k}}
Servable(k) == FromL1(k) \cup FromL2(k)

\* Whatever tier it comes from and however the refreshers interleave, data is
\* never served later than the stale threshold plus the 60 seconds of a stale L1
\* copy after it expired: copies of copies do not add up.
StalenessBounded ==
    \A k \in Keys : \A a \in Servable(k) : now < a.exp + StaleThreshold + TurboStaleTTL

\* L2 answers a caller with the data of the very name it asked for, L1 with that
\* of a name it cannot tell from it (one with the same hash): although keys share
\* slots, slots are overwritten by other callers between a lookup and an insert,
\* and the backend may answer another question.
AnswersMatchQuestion ==
    \A k \in Keys :
        /\ \A a \in FromL1(k) : Hash[a.key] = Hash[k]
        /\ \A a \in FromL2(k) : a.key = k

\* Concurrent misses that each find room, or each evict, never take the map
\* past maxCacheSize.
CacheWithinLimit == Cardinality(Cached) <= MaxCacheSize

\* A key enters the map only through query(): a refresh that was under way when
\* its entry was collected, evicted or flushed does not bring it back.
NoResurrection ==
    [][\A k \in Keys : cache[k] = None /\ cache'[k] # None
          => \E t \in Threads : thread[t].pc \in {"fill", "fail"} /\ thread[t].key = k]_vars

\* An entry that has not expired is dropped (other than by flushCache()) only
\* from a full map, and only if no other unexpired entry ends sooner.
LiveEntryKept ==
    [][\A k \in Keys :
          Fresh(k) /\ cache'[k] = None /\ (\E j \in Keys : cache'[j] # None)
          => Full /\ \A j \in Keys : Fresh(j) => cache[k].exp <= cache[j].exp]_vars

\* Both tiers and the callers' hands are one store of answers: a copy from L2 to L1,
\* a stale one above all, a refresh, an eviction or a late write never makes an
\* answer anew or moves its expiry, and it is given to nobody whose question has
\* another hash.
Known ==
    {turbo[s].msg : s \in {x \in Slots : turbo[x] # None}}
        \cup {cache[k] : k \in Cached}
        \cup {thread[t].msg : t \in {u \in Threads : thread[u].msg # None}}

LongestTTL ==
    CHOOSE n \in {MaxTTL, NegativeTTL, FailureTTL} : {MaxTTL, NegativeTTL, FailureTTL} \subseteq 0..n

Store == INSTANCE AnswerStore WITH
    Names <- Keys, Class <- Hash, Longest <- LongestTTL, Grace <- StaleThreshold + TurboStaleTTL,
    known <- Known, offered <- [k \in Keys |-> Servable(k)]

ImplementsStore == Store!SSpec

\* buildCachedReply() and peekCacheRaw() copy the sections of the cached message
\* into a fresh reply header; neither copies the rcode.
ReplyRcode(msg) == "NOERROR"

\* A name that does not exist is answered NXDOMAIN, from the cache too.
CachedRcodeKept ==
    \A k \in Keys : \A a \in Servable(k) : ReplyRcode(a) = a.rcode
===============================================================================
