------------------------ MODULE CachingResolverProofs ------------------------
(***************************************************************************)
(* Proofs about CachingResolver for any keys, slots, callers, limits and   *)
(* backend.                                                                *)
(***************************************************************************)
EXTENDS CachingResolver, FiniteSetTheorems, TLAPS

-------------------------------------------------------------------------------
(* The size of the map *)

LEMMA CachedFinite ==
    /\ IsFiniteSet(Cached) /\ Cardinality(Cached) \in Nat
    /\ IsFiniteSet(Cached') /\ Cardinality(Cached') \in Nat
<1>1. IsFiniteSet(Cached) /\ IsFiniteSet(Cached')
    BY CacheAssumption, FS_Subset DEF Cached
<1>2. QED
    BY <1>1, FS_CardinalityType

\* Adding one element makes a finite set larger by at most one.
LEMMA AddAtMostOne ==
    ASSUME NEW S, NEW x, IsFiniteSet(S)
    PROVE  /\ IsFiniteSet(S \cup {x})
           /\ Cardinality(S) \in Nat /\ Cardinality(S \cup {x}) \in Nat
           /\ Cardinality(S \cup {x}) <= Cardinality(S) + 1
<1>1. IsFiniteSet(S \cup {x})
    BY FS_AddElement
<1>2. Cardinality(S) \in Nat /\ Cardinality(S \cup {x}) \in Nat
    BY <1>1, FS_CardinalityType
<1>3. Cardinality(S \cup {x}) = IF x \in S THEN Cardinality(S) ELSE Cardinality(S) + 1
    BY FS_AddElement
<1>4. QED
    BY <1>1, <1>2, <1>3

LEMMA LimitShrink ==
    ASSUME CacheWithinLimit, Cached' \subseteq Cached
    PROVE  CacheWithinLimit'
<1>1. Cardinality(Cached') <= Cardinality(Cached)
    BY CachedFinite, FS_Subset
<1>2. QED
    BY <1>1, CachedFinite, CacheAssumption DEF CacheWithinLimit

\* Storing a key where there is room.
LEMMA LimitRoom ==
    ASSUME ~Full, NEW k, Cached' \subseteq Cached \cup {k}
    PROVE  CacheWithinLimit'
<1>1. /\ IsFiniteSet(Cached \cup {k})
      /\ Cardinality(Cached \cup {k}) <= Cardinality(Cached) + 1
    BY CachedFinite, AddAtMostOne
<1>2. Cardinality(Cached') <= Cardinality(Cached \cup {k}) /\ Cardinality(Cached \cup {k}) \in Nat
    BY <1>1, FS_Subset, FS_CardinalityType
<1>3. QED
    BY <1>1, <1>2, CachedFinite, CacheAssumption DEF CacheWithinLimit, Full

\* Storing a key after another entry went.
LEMMA LimitEvict ==
    ASSUME CacheWithinLimit, NEW k, NEW v \in Cached, Cached' \subseteq (Cached \ {v}) \cup {k}
    PROVE  CacheWithinLimit'
<1>1. IsFiniteSet(Cached \ {v}) /\ Cardinality(Cached \ {v}) = Cardinality(Cached) - 1
    BY CachedFinite, FS_RemoveElement
<1>2. /\ IsFiniteSet((Cached \ {v}) \cup {k})
      /\ Cardinality((Cached \ {v}) \cup {k}) <= Cardinality(Cached)
  <2> DEFINE S == Cached \ {v}
  <2>1. /\ IsFiniteSet(S \cup {k})
        /\ Cardinality(S \cup {k}) \in Nat
        /\ Cardinality(S \cup {k}) <= Cardinality(S) + 1
      BY <1>1, AddAtMostOne
  <2>2. Cardinality(S) = Cardinality(Cached) - 1
      BY <1>1
  <2>3. QED
      BY <2>1, <2>2, CachedFinite
<1>3. /\ Cardinality(Cached') <= Cardinality((Cached \ {v}) \cup {k})
      /\ Cardinality((Cached \ {v}) \cup {k}) \in Nat
    BY <1>2, FS_Subset, FS_CardinalityType
<1>4. QED
    BY <1>2, <1>3, CachedFinite, CacheAssumption DEF CacheWithinLimit

LEMMA EvictableCached == Evictable \subseteq Cached
BY DEF Evictable

LEMMA LimitStep == cache \in [Keys -> Message \cup {None}] /\ CacheWithinLimit /\ [Next]_vars => CacheWithinLimit'
<1> SUFFICES ASSUME cache \in [Keys -> Message \cup {None}], CacheWithinLimit, [Next]_vars
             PROVE  CacheWithinLimit'
    OBVIOUS
<1>1. ASSUME NEW t \in Threads, FillCache(t) PROVE CacheWithinLimit'
  <2> DEFINE k == thread[t].key
  <2>1. CASE ~Full
    <3>1. Cached' \subseteq Cached \cup {k}
        BY <1>1, <2>1 DEF FillCache, Cached
    <3>2. QED
        BY <2>1, <3>1, LimitRoom
  <2>2. CASE Full
    <3>1. PICK v \in Evictable : cache' = [cache EXCEPT ![v] = None, ![k] = thread[t].msg]
        BY <1>1, <2>2 DEF FillCache
    <3>2. v \in Cached /\ Cached' \subseteq (Cached \ {v}) \cup {k}
        BY <3>1, EvictableCached DEF Cached
    <3>3. QED
        BY <3>2, LimitEvict
  <2>3. QED
      BY <2>1, <2>2
<1>2. ASSUME NEW t \in Threads, FillFailure(t) PROVE CacheWithinLimit'
  <2>1. CASE Full
      BY <1>2, <2>1, LimitShrink DEF FillFailure, Cached
  <2>2. CASE ~Full
    <3>1. Cached' \subseteq Cached \cup {thread[t].key}
        BY <1>2, <2>2 DEF FillFailure, Cached
    <3>2. QED
        BY <2>2, <3>1, LimitRoom
  <2>3. QED
      BY <2>1, <2>2
<1>3. CASE WorkerWrite \/ PreemptWrite \/ gcCache \/ flushCache
  <2>1. Cached' \subseteq Cached
      BY <1>3 DEF WorkerWrite, PreemptWrite, WriteRefreshed, gcCache, flushCache, Cached
  <2>2. QED
      BY <2>1, LimitShrink
<1>4. ASSUME NEW t \in Threads, Caller(t), ~FillCache(t), ~FillFailure(t) PROVE CacheWithinLimit'
  <2>1. cache' = cache
      BY <1>4 DEF Caller, TurboMiss, FreshHit, PeekStale, PeekMiss, QueryStale, ServeStale,
                  QueryMiss, BackReply, FillTurbo
  <2>2. QED
      BY <2>1, LimitShrink DEF Cached
<1>5. CASE \/ WorkerPop \/ PreemptCollect \/ Tick \/ UNCHANGED vars
           \/ \E k \in Keys : PreemptNext(k)
           \/ WorkerReply \/ PreemptReply
  <2>1. cache' = cache
      BY <1>5 DEF WorkerPop, PreemptCollect, Tick, PreemptNext, WorkerReply, PreemptReply, vars
  <2>2. QED
      BY <2>1, LimitShrink DEF Cached
<1>6. QED
    BY <1>1, <1>2, <1>3, <1>4, <1>5 DEF Next, Refresh
-------------------------------------------------------------------------------
(* Types *)

LEMMA ThreadType ==
    ASSUME TypeOK, NEW t \in Threads
    PROVE  /\ thread[t].pc # "idle" => thread[t].key \in Keys
           /\ thread[t].pc \in {"stale", "fill", "fail", "turbo"} => thread[t].msg \in Message
           /\ thread[t] \in ThreadState
BY DEF TypeOK, ThreadState

LEMMA RefreshType ==
    ASSUME NEW r \in RefreshState
    PROVE  /\ r.pc # "idle" => r.key \in Keys
           /\ r.pc = "write" => r.msg \in Reply
BY DEF RefreshState

\* What is stored for a reply is a message about the question of the reply.
LEMMA StoredType ==
    ASSUME now \in Nat, NEW reply \in Reply
    PROVE  Stored(reply) \in Message /\ Stored(reply).key = reply.q
<1>1. MinTTL \in Nat /\ MaxTTL \in Nat /\ NegativeTTL \in Nat
    BY CacheAssumption
<1>2. reply.ttl \in Nat /\ reply.q \in Keys /\ reply.rcode \in Rcodes
    BY DEF Reply
<1>3. computeCacheTTL(reply) \in Nat
    BY <1>1, <1>2 DEF computeCacheTTL, Bounded
<1>4. now + computeCacheTTL(reply) \in Nat
    BY <1>3
<1>5. QED
    BY <1>2, <1>3, <1>4 DEF Stored, Message

LEMMA FailureType ==
    ASSUME now \in Nat, NEW k \in Keys
    PROVE  Failure(k) \in Message /\ Failure(k).key = k
<1>1. FailureTTL \in Nat
    BY CacheAssumption
<1>2. QED
    BY <1>1 DEF Failure, Message, Rcodes

LEMMA TurboInsertType ==
    ASSUME TypeOK, NEW k \in Keys, NEW msg \in Message, NEW until \in Nat,
           turboInsert(Hash[k], msg, until)
    PROVE  turbo' \in [Slots -> [hash : Hashes, msg : Message, until : Nat] \cup {None}]
BY CacheAssumption DEF TypeOK, turboInsert

LEMMA EnqueueType ==
    ASSUME TypeOK, NEW k \in Keys
    PROVE  Enqueue(k) \in Seq(Keys) /\ Len(Enqueue(k)) <= MaxQueue
<1>1. MaxQueue \in Nat
    BY CacheAssumption
<1>2. QED
    BY <1>1 DEF TypeOK, Enqueue

LEMMA AnsweredType ==
    ASSUME NEW r \in RefreshState, r.pc = "back", NEW reply \in Replies
    PROVE  Answered(r, reply) \in RefreshState
<1>1. r.key \in Keys
    BY RefreshType
<1>2. reply = None \/ reply \in Reply
    BY CacheAssumption
<1>3. QED
    BY <1>1, <1>2 DEF Answered, RefreshState, Idle, At

LEMMA IdleType == Idle \in ThreadState /\ Idle \in RefreshState
BY DEF Idle, ThreadState, RefreshState

\* A caller's step, given what it does to its own record.
LEMMA ThreadUpdateType ==
    ASSUME TypeOK, NEW t \in Threads, NEW r \in ThreadState,
           thread' = [thread EXCEPT ![t] = r]
    PROVE  thread' \in [Threads -> ThreadState]
BY DEF TypeOK

LEMMA CallerType ==
    ASSUME TypeOK, NEW t \in Threads, Caller(t)
    PROVE  TypeOK'
<1> DEFINE k == thread[t].key
<1>0. TurboStaleTTL \in Nat
    BY CacheAssumption
<1>1. ASSUME NEW j \in Keys, TurboMiss(t, j) PROVE TypeOK'
  <2>1. PICK pc \in {"peek", "query"} : thread' = [thread EXCEPT ![t] = At(pc, j, None)]
      BY <1>1 DEF TurboMiss
  <2>2. At(pc, j, None) \in ThreadState
      BY DEF At, ThreadState
  <2>3. QED
      BY <1>1, <2>1, <2>2, ThreadUpdateType DEF TurboMiss, TypeOK
<1>2. CASE FreshHit(t)
  <2>1. k \in Keys /\ cache[k] \in Message /\ cache[k].exp \in Nat
      BY <1>2, ThreadType DEF FreshHit, Fresh, TypeOK, Message
  <2>2. turbo' \in [Slots -> [hash : Hashes, msg : Message, until : Nat] \cup {None}]
      BY <1>2, <2>1, TurboInsertType DEF FreshHit
  <2>3. QED
      BY <1>2, <2>2, IdleType, ThreadUpdateType DEF FreshHit, TypeOK
<1>3. CASE PeekStale(t) \/ ServeStale(t)
  <2>1. k \in Keys
      BY <1>3, ThreadType DEF PeekStale, ServeStale
  <2>2. now + TurboStaleTTL \in Nat
      BY <1>0 DEF TypeOK
  <2>3. turbo' \in [Slots -> [hash : Hashes, msg : Message, until : Nat] \cup {None}]
    <3>1. CASE PeekStale(t)
      <4>1. cache[k] \in Message
          BY <2>1, <3>1 DEF PeekStale, Stale, TypeOK
      <4>2. QED
          BY <2>1, <2>2, <3>1, <4>1, TurboInsertType DEF PeekStale
    <3>2. CASE ServeStale(t)
      <4>1. thread[t].msg \in Message
          BY <3>2, ThreadType DEF ServeStale
      <4>2. QED
          BY <2>1, <2>2, <3>2, <4>1, TurboInsertType DEF ServeStale
    <3>3. QED
        BY <1>3, <3>1, <3>2
  <2>4. queue' \in Seq(Keys) /\ Len(queue') <= MaxQueue
      BY <1>3, <2>1, EnqueueType DEF PeekStale, ServeStale
  <2>5. thread' \in [Threads -> ThreadState]
      BY <1>3, IdleType, ThreadUpdateType DEF PeekStale, ServeStale
  <2>6. QED
      BY <1>3, <2>3, <2>4, <2>5 DEF PeekStale, ServeStale, TypeOK
<1>4. CASE PeekMiss(t)
    BY <1>4, IdleType, ThreadUpdateType DEF PeekMiss, TypeOK
<1>5. CASE QueryStale(t)
  <2>1. k \in Keys /\ cache[k] \in Message
      BY <1>5, ThreadType DEF QueryStale, Stale, TypeOK
  <2>2. At("stale", k, cache[k]) \in ThreadState
      BY <2>1 DEF At, ThreadState
  <2>3. QED
      BY <1>5, <2>2, ThreadUpdateType DEF QueryStale, TypeOK
<1>6. CASE QueryMiss(t)
  <2>1. At("back", k, None) \in ThreadState
      BY <1>6, ThreadType DEF QueryMiss, At, ThreadState
  <2>2. QED
      BY <1>6, <2>1, ThreadUpdateType DEF QueryMiss, TypeOK
<1>7. ASSUME NEW reply \in Replies, BackReply(t, reply) PROVE TypeOK'
  <2>1. k \in Keys /\ now \in Nat
      BY <1>7, ThreadType DEF BackReply, TypeOK
  <2>2. CASE reply = None
    <3>1. At("fail", k, Failure(k)) \in ThreadState
        BY <2>1, FailureType DEF At, ThreadState
    <3>2. QED
        BY <1>7, <2>2, <3>1, ThreadUpdateType DEF BackReply, TypeOK
  <2>3. CASE reply # None /\ shouldCache(k, reply)
    <3>1. reply \in Reply
        BY <2>3, CacheAssumption
    <3>2. At("fill", k, Stored(reply)) \in ThreadState
        BY <2>1, <3>1, StoredType DEF At, ThreadState
    <3>3. QED
        BY <1>7, <2>3, <3>2, ThreadUpdateType DEF BackReply, TypeOK
  <2>4. CASE reply # None /\ ~shouldCache(k, reply)
      BY <1>7, <2>4, IdleType, ThreadUpdateType DEF BackReply, TypeOK
  <2>5. QED
      BY <2>2, <2>3, <2>4
<1>8. CASE FillCache(t) \/ FillFailure(t)
  <2>1. k \in Keys /\ thread[t].msg \in Message
      BY <1>8, ThreadType DEF FillCache, FillFailure
  <2>2. cache' \in [Keys -> Message \cup {None}]
      BY <1>8, <2>1 DEF FillCache, FillFailure, TypeOK
  <2>3. [thread[t] EXCEPT !.pc = "turbo"] = At("turbo", k, thread[t].msg)
      BY ThreadType DEF ThreadState, At
  <2>4. At("turbo", k, thread[t].msg) \in ThreadState
      BY <2>1 DEF At, ThreadState
  <2>5. thread' \in [Threads -> ThreadState]
      BY <1>8, <2>3, <2>4, IdleType DEF FillCache, FillFailure, TypeOK
  <2>6. QED
      BY <1>8, <2>2, <2>5 DEF FillCache, FillFailure, TypeOK
<1>9. CASE FillTurbo(t)
  <2>1. k \in Keys /\ thread[t].msg \in Message /\ thread[t].msg.exp \in Nat
      BY <1>9, ThreadType DEF FillTurbo, Message
  <2>2. turbo' \in [Slots -> [hash : Hashes, msg : Message, until : Nat] \cup {None}]
      BY <1>9, <2>1, TurboInsertType DEF FillTurbo
  <2>3. QED
      BY <1>9, <2>2, IdleType, ThreadUpdateType DEF FillTurbo, TypeOK
<1>10. QED
    BY <1>1, <1>2, <1>3, <1>4, <1>5, <1>6, <1>7, <1>8, <1>9 DEF Caller

LEMMA WriteRefreshedType ==
    ASSUME TypeOK, NEW r \in RefreshState, r.pc = "write", WriteRefreshed(r)
    PROVE  cache' \in [Keys -> Message \cup {None}]
<1>1. Stored(r.msg) \in Message /\ r.key \in Keys
    BY RefreshType, StoredType DEF TypeOK
<1>2. QED
    BY <1>1 DEF WriteRefreshed, TypeOK

LEMMA RefreshStepType ==
    ASSUME TypeOK, Refresh
    PROVE  TypeOK'
<1>0. worker \in RefreshState /\ preempt \in RefreshState
    BY DEF TypeOK
<1>1. CASE WorkerPop
  <2>1. Head(queue) \in Keys /\ Tail(queue) \in Seq(Keys) /\ Len(Tail(queue)) <= MaxQueue
    <3>1. MaxQueue \in Nat
        BY CacheAssumption
    <3>2. QED
        BY <1>1, <3>1 DEF WorkerPop, TypeOK
  <2>2. worker' \in RefreshState
      BY <1>1, <2>1 DEF WorkerPop, At, RefreshState
  <2>3. QED
      BY <1>1, <2>1, <2>2 DEF WorkerPop, TypeOK
<1>2. CASE WorkerWrite
    BY <1>0, <1>2, WriteRefreshedType, IdleType DEF WorkerWrite, TypeOK
<1>3. CASE PreemptWrite
    BY <1>0, <1>3, WriteRefreshedType, IdleType DEF PreemptWrite, TypeOK
<1>4. CASE PreemptCollect
    BY <1>4 DEF PreemptCollect, Cached, TypeOK
<1>5. ASSUME NEW k \in Keys, PreemptNext(k) PROVE TypeOK'
  <2>1. preempt' \in RefreshState
      BY <1>5 DEF PreemptNext, At, RefreshState
  <2>2. QED
      BY <1>5, <2>1 DEF PreemptNext, TypeOK
<1>6. CASE WorkerReply
    BY <1>0, <1>6, AnsweredType DEF WorkerReply, Outcomes, TypeOK
<1>7. CASE PreemptReply
    BY <1>0, <1>7, AnsweredType DEF PreemptReply, Outcomes, TypeOK
<1>8. QED
    BY <1>1, <1>2, <1>3, <1>4, <1>5, <1>6, <1>7 DEF Refresh

LEMMA TypeStep == TypeOK /\ [Next]_vars => TypeOK'
<1> SUFFICES ASSUME TypeOK, [Next]_vars PROVE TypeOK'
    OBVIOUS
<1>1. CASE gcCache
    BY <1>1 DEF gcCache, TypeOK
<1>2. CASE flushCache
    BY <1>2 DEF flushCache, TypeOK
<1>3. CASE Tick
    BY <1>3 DEF Tick, TypeOK
<1>4. CASE UNCHANGED vars
    BY <1>4 DEF vars, TypeOK
<1>5. QED
    BY <1>1, <1>2, <1>3, <1>4, CallerType, RefreshStepType DEF Next

LEMMA TypeInit == Init => TypeOK
<1>1. MaxQueue \in Nat
    BY CacheAssumption
<1>2. QED
    BY <1>1, IdleType DEF Init, TypeOK

-------------------------------------------------------------------------------
\* Every reachable state of the cache, its refreshers and its callers is well
\* typed, and the queue of stale refreshes never exceeds its maximum.
THEOREM TypeCorrect == Spec => []TypeOK
<1>1. QED
    BY TypeInit, TypeStep, PTL DEF Spec

\* The map never exceeds maxCacheSize, whatever misses, failures and evictions
\* interleave: the test and the insertion share one critical section.
THEOREM CacheLimit == Spec => []CacheWithinLimit
<1>1. Init => CacheWithinLimit
  <2>1. SUFFICES ASSUME Init PROVE Cardinality(Cached) <= MaxCacheSize
      BY DEF CacheWithinLimit
  <2>2. Cached = {}
      BY <2>1 DEF Init, Cached
  <2>3. QED
      BY <2>2, FS_EmptySet, CacheAssumption
<1>2. TypeOK /\ CacheWithinLimit /\ [Next]_vars => CacheWithinLimit'
    BY LimitStep DEF TypeOK
<1>3. QED
    BY <1>1, <1>2, TypeCorrect, PTL DEF Spec

-------------------------------------------------------------------------------
(* What the tiers, the callers and the refreshers hold.  Neither               *)
(* AnswersMatchQuestion nor StalenessBounded is inductive: a caller that has    *)
(* left L2 with a message, and a refresher that waits for the lock with a       *)
(* reply, write them later.                                                    *)

TurboContent ==
    \A s \in Slots : turbo[s] # None =>
        /\ Hash[turbo[s].msg.key] = turbo[s].hash
        /\ turbo[s].until <= turbo[s].msg.exp + StaleThreshold + TurboStaleTTL

CacheContent == \A k \in Keys : cache[k] # None => cache[k].key = k

ThreadContent ==
    \A t \in Threads :
        /\ thread[t].pc \in {"stale", "fill", "fail", "turbo"} => thread[t].msg.key = thread[t].key
        /\ thread[t].pc = "stale" => now < thread[t].msg.exp + StaleThreshold

RefreshContent ==
    /\ worker.pc = "write" => worker.msg.q = worker.key
    /\ preempt.pc = "write" => preempt.msg.q = preempt.key

ContentInv == TypeOK /\ TurboContent /\ CacheContent /\ ThreadContent /\ RefreshContent

LEMMA TTLType == StaleThreshold \in Nat /\ TurboStaleTTL \in Nat
BY CacheAssumption

LEMMA TurboInsertContent ==
    ASSUME TypeOK, TurboContent, NEW k \in Keys, NEW msg \in Message, NEW until \in Nat,
           msg.key = k, until <= msg.exp + StaleThreshold + TurboStaleTTL,
           turboInsert(Hash[k], msg, until)
    PROVE  TurboContent'
<1>1. SUFFICES ASSUME NEW s \in Slots, turbo'[s] # None
               PROVE  /\ Hash[turbo'[s].msg.key] = turbo'[s].hash
                      /\ turbo'[s].until <= turbo'[s].msg.exp + StaleThreshold + TurboStaleTTL
    BY DEF TurboContent
<1>2. CASE s = Slot[Hash[k]]
  <2>1. turbo'[s] = [hash |-> Hash[k], msg |-> msg, until |-> until]
      BY <1>2 DEF turboInsert, TypeOK
  <2>2. QED
      BY <2>1
<1>3. CASE s # Slot[Hash[k]]
  <2>1. turbo'[s] = turbo[s]
      BY <1>3 DEF turboInsert, TypeOK
  <2>2. QED
      BY <1>1, <2>1 DEF TurboContent
<1>4. QED
    BY <1>2, <1>3

\* A caller's step that leaves it with r keeps what callers hold.
LEMMA ThreadUpdateContent ==
    ASSUME TypeOK, ThreadContent, NEW t \in Threads, NEW r,
           thread' = [thread EXCEPT ![t] = r], now' = now,
           r.pc \in {"stale", "fill", "fail", "turbo"} => r.msg.key = r.key,
           r.pc = "stale" => now < r.msg.exp + StaleThreshold
    PROVE  ThreadContent'
<1>1. \A u \in Threads : thread'[u] = IF u = t THEN r ELSE thread[u]
    BY DEF TypeOK
<1>2. QED
    BY <1>1 DEF ThreadContent

LEMMA CallerContent ==
    ASSUME ContentInv, NEW t \in Threads, Caller(t)
    PROVE  TurboContent' /\ CacheContent' /\ ThreadContent'
<1> DEFINE k == thread[t].key
<1> USE DEF ContentInv
<1>0. Idle.pc = "idle"
    BY DEF Idle
<1>1. ASSUME NEW j \in Keys, TurboMiss(t, j) PROVE TurboContent' /\ CacheContent' /\ ThreadContent'
  <2>1. PICK pc \in {"peek", "query"} : thread' = [thread EXCEPT ![t] = At(pc, j, None)]
      BY <1>1 DEF TurboMiss
  <2>2. At(pc, j, None).pc \in {"peek", "query"}
      BY DEF At
  <2>3. ThreadContent'
      BY <1>1, <2>1, <2>2, ThreadUpdateContent DEF TurboMiss
  <2>4. QED
      BY <1>1, <2>3 DEF TurboMiss, TurboContent, CacheContent
<1>2. CASE FreshHit(t)
  <2>1. k \in Keys /\ cache[k] \in Message /\ cache[k].exp \in Nat /\ cache[k].key = k
      BY <1>2, ThreadType DEF FreshHit, Fresh, TypeOK, Message, CacheContent
  <2>2. cache[k].exp <= cache[k].exp + StaleThreshold + TurboStaleTTL
      BY <2>1, TTLType
  <2>3. TurboContent'
      BY <1>2, <2>1, <2>2, TurboInsertContent DEF FreshHit
  <2>4. ThreadContent'
      BY <1>0, <1>2, ThreadUpdateContent DEF FreshHit
  <2>5. QED
      BY <1>2, <2>3, <2>4 DEF FreshHit, CacheContent
<1>3. CASE PeekStale(t)
  <2>1. k \in Keys
      BY <1>3, ThreadType DEF PeekStale
  <2>2. cache[k] \in Message /\ cache[k].exp \in Nat /\ cache[k].key = k /\ now \in Nat
      BY <1>3, <2>1 DEF PeekStale, Stale, TypeOK, Message, CacheContent
  <2>3. now < cache[k].exp + StaleThreshold
      BY <1>3 DEF PeekStale, Stale
  <2>4. /\ now + TurboStaleTTL \in Nat
        /\ now + TurboStaleTTL <= cache[k].exp + StaleThreshold + TurboStaleTTL
      BY <2>2, <2>3, TTLType
  <2>5. TurboContent'
      BY <1>3, <2>1, <2>2, <2>4, TurboInsertContent DEF PeekStale
  <2>6. ThreadContent'
      BY <1>0, <1>3, ThreadUpdateContent DEF PeekStale
  <2>7. QED
      BY <1>3, <2>5, <2>6 DEF PeekStale, CacheContent
<1>4. CASE ServeStale(t)
  <2>1. k \in Keys /\ thread[t].msg \in Message
      BY <1>4, ThreadType DEF ServeStale
  <2>2. thread[t].msg.exp \in Nat /\ thread[t].msg.key = k /\ now \in Nat
      BY <1>4, <2>1 DEF ServeStale, TypeOK, Message, ThreadContent
  <2>3. now < thread[t].msg.exp + StaleThreshold
      BY <1>4 DEF ServeStale, ThreadContent
  <2>4. /\ now + TurboStaleTTL \in Nat
        /\ now + TurboStaleTTL <= thread[t].msg.exp + StaleThreshold + TurboStaleTTL
      BY <2>2, <2>3, TTLType
  <2>5. TurboContent'
      BY <1>4, <2>1, <2>2, <2>4, TurboInsertContent DEF ServeStale
  <2>6. ThreadContent'
      BY <1>0, <1>4, ThreadUpdateContent DEF ServeStale
  <2>7. QED
      BY <1>4, <2>5, <2>6 DEF ServeStale, CacheContent
<1>5. CASE PeekMiss(t)
  <2>1. ThreadContent'
      BY <1>0, <1>5, ThreadUpdateContent DEF PeekMiss
  <2>2. QED
      BY <1>5, <2>1 DEF PeekMiss, TurboContent, CacheContent
<1>6. CASE QueryStale(t)
  <2>1. k \in Keys /\ cache[k] # None /\ now < cache[k].exp + StaleThreshold
      BY <1>6, ThreadType DEF QueryStale, Stale
  <2>2. ThreadContent'
      BY <1>6, <2>1, ThreadUpdateContent DEF QueryStale, At, CacheContent
  <2>3. QED
      BY <1>6, <2>2 DEF QueryStale, TurboContent, CacheContent
<1>7. CASE QueryMiss(t)
  <2>1. ThreadContent'
      BY <1>7, ThreadUpdateContent DEF QueryMiss, At
  <2>2. QED
      BY <1>7, <2>1 DEF QueryMiss, TurboContent, CacheContent
<1>8. ASSUME NEW reply \in Replies, BackReply(t, reply) PROVE TurboContent' /\ CacheContent' /\ ThreadContent'
  <2>1. k \in Keys /\ now \in Nat
      BY <1>8, ThreadType DEF BackReply, TypeOK
  <2>2. ThreadContent'
    <3>1. CASE reply = None
      <4>1. Failure(k).key = k
          BY <2>1, FailureType
      <4>2. QED
          BY <1>8, <3>1, <4>1, ThreadUpdateContent DEF BackReply, At
    <3>2. CASE reply # None /\ shouldCache(k, reply)
      <4>1. Stored(reply).key = k
          BY <2>1, <3>2, StoredType, CacheAssumption DEF shouldCache
      <4>2. QED
          BY <1>8, <3>2, <4>1, ThreadUpdateContent DEF BackReply, At
    <3>3. CASE reply # None /\ ~shouldCache(k, reply)
        BY <1>0, <1>8, <3>3, ThreadUpdateContent DEF BackReply
    <3>4. QED
        BY <3>1, <3>2, <3>3
  <2>3. QED
      BY <1>8, <2>2 DEF BackReply, TurboContent, CacheContent
<1>9. CASE FillCache(t) \/ FillFailure(t)
  <2>1. k \in Keys /\ thread[t].msg.key = k
      BY <1>9, ThreadType DEF FillCache, FillFailure, ThreadContent
  <2>2. CacheContent'
      BY <1>9, <2>1 DEF FillCache, FillFailure, CacheContent, TypeOK
  <2>3. ThreadContent'
    <3> DEFINE r == [thread[t] EXCEPT !.pc = "turbo"]
    <3>1. r = At("turbo", k, thread[t].msg)
        BY ThreadType DEF ThreadState, At
    <3>2. thread' = [thread EXCEPT ![t] = r] \/ thread' = [thread EXCEPT ![t] = Idle]
        BY <1>9, ThreadType DEF FillCache, FillFailure, TypeOK
    <3>3. r.pc = "turbo" /\ r.msg.key = r.key
        BY <2>1, <3>1 DEF At
    <3>4. now' = now
        BY <1>9 DEF FillCache, FillFailure
    <3> HIDE DEF r
    <3>5. QED
        BY <1>0, <3>2, <3>3, <3>4, ThreadUpdateContent
  <2>4. QED
      BY <1>9, <2>2, <2>3 DEF FillCache, FillFailure, TurboContent
<1>10. CASE FillTurbo(t)
  <2>1. k \in Keys /\ thread[t].msg \in Message /\ thread[t].msg.exp \in Nat /\ thread[t].msg.key = k
      BY <1>10, ThreadType DEF FillTurbo, Message, ThreadContent
  <2>2. thread[t].msg.exp <= thread[t].msg.exp + StaleThreshold + TurboStaleTTL
      BY <2>1, TTLType
  <2>3. TurboContent'
      BY <1>10, <2>1, <2>2, TurboInsertContent DEF FillTurbo
  <2>4. ThreadContent'
      BY <1>0, <1>10, ThreadUpdateContent DEF FillTurbo
  <2>5. QED
      BY <1>10, <2>3, <2>4 DEF FillTurbo, CacheContent
<1>11. QED
    BY <1>1, <1>2, <1>3, <1>4, <1>5, <1>6, <1>7, <1>8, <1>9, <1>10 DEF Caller

\* A refresher keeps a reply only if it repeats the question it asked.
LEMMA AnsweredContent ==
    ASSUME NEW r, NEW reply, Answered(r, reply).pc = "write"
    PROVE  Answered(r, reply).msg.q = Answered(r, reply).key
<1>1. Idle.pc # "write"
    BY DEF Idle
<1>2. Answered(r, reply) = At("write", r.key, reply) /\ shouldCache(r.key, reply)
    BY <1>1 DEF Answered
<1>3. QED
    BY <1>2 DEF At, shouldCache

LEMMA CallerRefreshContent ==
    ASSUME RefreshContent, NEW t \in Threads, Caller(t)
    PROVE  RefreshContent'
<1>1. worker' = worker /\ preempt' = preempt
    BY DEF Caller, TurboMiss, FreshHit, PeekStale, PeekMiss, QueryStale, ServeStale,
           QueryMiss, BackReply, FillCache, FillFailure, FillTurbo
<1>2. QED
    BY <1>1 DEF RefreshContent

LEMMA WriteRefreshedContent ==
    ASSUME TypeOK, CacheContent, NEW r \in RefreshState, r.pc = "write", r.msg.q = r.key,
           WriteRefreshed(r)
    PROVE  CacheContent'
<1>1. r.key \in Keys /\ Stored(r.msg).key = r.key
    BY RefreshType, StoredType DEF TypeOK
<1>2. QED
    BY <1>1 DEF WriteRefreshed, CacheContent, TypeOK

LEMMA ContentStep == ContentInv /\ [Next]_vars => ContentInv'
<1> SUFFICES ASSUME ContentInv, [Next]_vars PROVE ContentInv'
    OBVIOUS
<1>0. TypeOK /\ TurboContent /\ CacheContent /\ ThreadContent /\ RefreshContent /\ TypeOK'
    BY TypeStep DEF ContentInv
<1>1. ASSUME NEW t \in Threads, Caller(t) PROVE ContentInv'
    BY <1>0, <1>1, CallerContent, CallerRefreshContent DEF ContentInv
<1>2. CASE Refresh
  <2>1. turbo' = turbo /\ thread' = thread /\ now' = now
      BY <1>2 DEF Refresh, WorkerPop, WorkerWrite, PreemptCollect, PreemptWrite, PreemptNext,
                  WorkerReply, PreemptReply
  <2>2. TurboContent' /\ ThreadContent'
      BY <1>0, <2>1 DEF TurboContent, ThreadContent
  <2>3. CacheContent'
    <3>1. CASE WorkerWrite
        BY <1>0, <3>1, WriteRefreshedContent DEF WorkerWrite, RefreshContent, TypeOK
    <3>2. CASE PreemptWrite
        BY <1>0, <3>2, WriteRefreshedContent DEF PreemptWrite, RefreshContent, TypeOK
    <3>3. CASE ~WorkerWrite /\ ~PreemptWrite
      <4>1. cache' = cache
          BY <1>2, <3>3 DEF Refresh, WorkerPop, PreemptCollect, PreemptNext, WorkerReply, PreemptReply
      <4>2. QED
          BY <1>0, <4>1 DEF CacheContent
    <3>4. QED
        BY <3>1, <3>2, <3>3
  <2>4. RefreshContent'
    <3>1. CASE WorkerReply \/ PreemptReply
        BY <1>0, <3>1, AnsweredContent DEF WorkerReply, PreemptReply, Outcomes, RefreshContent
    <3>2. CASE WorkerPop \/ WorkerWrite \/ PreemptWrite \/ PreemptCollect \/ \E k \in Keys : PreemptNext(k)
      <4>1. /\ worker' = worker \/ worker'.pc # "write"
            /\ preempt' = preempt \/ preempt'.pc # "write"
          BY <3>2 DEF WorkerPop, WorkerWrite, PreemptWrite, PreemptCollect, PreemptNext, Idle, At
      <4>2. QED
          BY <1>0, <4>1 DEF RefreshContent
    <3>3. QED
        BY <1>2, <3>1, <3>2 DEF Refresh
  <2>5. QED
      BY <1>0, <2>2, <2>3, <2>4 DEF ContentInv
<1>3. CASE gcCache \/ flushCache
  <2>1. CacheContent'
      BY <1>0, <1>3 DEF gcCache, flushCache, CacheContent
  <2>2. QED
      BY <1>0, <1>3, <2>1 DEF gcCache, flushCache, ContentInv, TurboContent, ThreadContent, RefreshContent
<1>4. CASE Tick
    BY <1>0, <1>4 DEF Tick, ContentInv, TurboContent, CacheContent, ThreadContent, RefreshContent
<1>5. CASE UNCHANGED vars
    BY <1>0, <1>5 DEF vars, ContentInv, TurboContent, CacheContent, ThreadContent, RefreshContent
<1>6. QED
    BY <1>1, <1>2, <1>3, <1>4, <1>5 DEF Next

LEMMA ContentInvariant == Spec => []ContentInv
<1>1. Init => ContentInv
    BY TypeInit DEF Init, ContentInv, TurboContent, CacheContent, ThreadContent, RefreshContent, Idle
<1>2. QED
    BY <1>1, ContentStep, PTL DEF Spec

-------------------------------------------------------------------------------
\* L2 answers a caller asking for k with data about k, L1 with data about a name of
\* the same hash, although keys share L1 slots, messages are copied between the
\* tiers outside the lock and the backend may answer another question.
THEOREM RightAnswers == Spec => []AnswersMatchQuestion
<1>1. ContentInv => AnswersMatchQuestion
  <2> SUFFICES ASSUME ContentInv, NEW k \in Keys
               PROVE  /\ \A a \in FromL1(k) : Hash[a.key] = Hash[k]
                      /\ \A a \in FromL2(k) : a.key = k
      BY DEF AnswersMatchQuestion
  <2>1. \A a \in FromL1(k) : Hash[a.key] = Hash[k]
      BY CacheAssumption DEF FromL1, turboLookup, ContentInv, TurboContent
  <2>2. \A a \in {cache[k] : x \in {y \in {k} : Fresh(y) \/ Stale(y)}} : a.key = k
      BY DEF Fresh, Stale, ContentInv, CacheContent
  <2>3. \A a \in {thread[t].msg : t \in {u \in Threads : thread[u].pc = "stale" /\ thread[u].key = k}} : a.key = k
      BY DEF ContentInv, ThreadContent
  <2>4. QED
      BY <2>1, <2>2, <2>3 DEF FromL2
<1>2. QED
    BY <1>1, ContentInvariant, PTL

\* What any tier may serve for a name is the data of that very name.
OwnAnswers == \A k \in Keys : \A a \in Servable(k) : a.key = k

\* The hash is all that stands between L1 and a wrong answer: among keys whose
\* hashes differ, a caller gets data of the very name it asked for.
THEOREM DistinctHashesSuffice ==
    ASSUME \A j, k \in Keys : Hash[j] = Hash[k] => j = k
    PROVE  Spec => []OwnAnswers
<1>1. TypeOK /\ AnswersMatchQuestion => OwnAnswers
  <2> SUFFICES ASSUME TypeOK, AnswersMatchQuestion, NEW k \in Keys, NEW a \in FromL1(k)
               PROVE  a.key = k
      BY DEF OwnAnswers, Servable, AnswersMatchQuestion
  <2>1. a.key \in Keys
      BY CacheAssumption DEF FromL1, turboLookup, TypeOK, Message
  <2>2. QED
      BY <2>1 DEF AnswersMatchQuestion
<1>2. QED
    BY <1>1, TypeCorrect, RightAnswers, PTL

\* No tier serves data later than the stale threshold plus the 60 seconds of a
\* stale L1 copy after it expired, for every setting of the TTLs.
THEOREM BoundedStaleness == Spec => []StalenessBounded
<1>1. ContentInv => StalenessBounded
  <2> SUFFICES ASSUME ContentInv, NEW k \in Keys, NEW a \in Servable(k)
               PROVE  now < a.exp + StaleThreshold + TurboStaleTTL
      BY DEF StalenessBounded
  <2>0. now \in Nat
      BY DEF ContentInv, TypeOK
  <2>1. CASE a \in FromL1(k)
    <3> DEFINE slot == turbo[Slot[Hash[k]]]
    <3>1. slot # None /\ now < slot.until /\ a = slot.msg /\ Slot[Hash[k]] \in Slots
        BY <2>1, CacheAssumption DEF FromL1, turboLookup
    <3>2. slot.until \in Nat /\ slot.msg.exp \in Nat
        BY <3>1 DEF ContentInv, TypeOK, Message
    <3>3. slot.until <= slot.msg.exp + StaleThreshold + TurboStaleTTL
        BY <3>1 DEF ContentInv, TurboContent
    <3>4. QED
        BY <2>0, <3>1, <3>2, <3>3, TTLType
  <2>2. CASE a \in {cache[k] : x \in {y \in {k} : Fresh(y) \/ Stale(y)}}
    <3>1. a = cache[k] /\ cache[k] # None /\ (Fresh(k) \/ Stale(k))
        BY <2>2 DEF Fresh, Stale
    <3>2. a.exp \in Nat
        BY <3>1 DEF ContentInv, TypeOK, Message
    <3>3. now < a.exp \/ now < a.exp + StaleThreshold
        BY <2>0, <3>1, <3>2 DEF Fresh, Stale, isExpired
    <3>4. QED
        BY <2>0, <3>2, <3>3, TTLType
  <2>3. CASE a \in {thread[t].msg : t \in {u \in Threads : thread[u].pc = "stale" /\ thread[u].key = k}}
    <3>1. PICK t \in Threads : a = thread[t].msg /\ thread[t].pc = "stale"
        BY <2>3
    <3>2. a.exp \in Nat /\ now < a.exp + StaleThreshold
        BY <3>1, ThreadType DEF ContentInv, ThreadContent, Message
    <3>3. QED
        BY <2>0, <3>2, TTLType
  <2>4. QED
      BY <2>1, <2>2, <2>3 DEF Servable, FromL2
<1>2. QED
    BY <1>1, ContentInvariant, PTL

-------------------------------------------------------------------------------
(* What may happen to an entry of the map *)

\* The steps that write to the map, and what they write.
LEMMA MapSteps ==
    ASSUME TypeOK, [Next]_vars
    PROVE  \/ cache' = cache
           \/ \E t \in Threads : FillCache(t)
           \/ \E t \in Threads : FillFailure(t)
           \/ \E r \in RefreshState : r.pc = "write" /\ WriteRefreshed(r)
           \/ gcCache \/ flushCache
<1>1. ASSUME NEW t \in Threads, Caller(t), ~FillCache(t), ~FillFailure(t) PROVE cache' = cache
    BY <1>1 DEF Caller, TurboMiss, FreshHit, PeekStale, PeekMiss, QueryStale, ServeStale,
                QueryMiss, BackReply, FillTurbo
<1>2. CASE Refresh
  <2>1. CASE WorkerWrite
      BY <2>1 DEF WorkerWrite, TypeOK
  <2>2. CASE PreemptWrite
      BY <2>2 DEF PreemptWrite, TypeOK
  <2>3. CASE ~WorkerWrite /\ ~PreemptWrite
      BY <1>2, <2>3 DEF Refresh, WorkerPop, PreemptCollect, PreemptNext, WorkerReply, PreemptReply
  <2>4. QED
      BY <2>1, <2>2, <2>3
<1>3. CASE Tick \/ UNCHANGED vars
    BY <1>3 DEF Tick, vars
<1>4. QED
    BY <1>1, <1>2, <1>3 DEF Next

\* A refresh replaces an entry by a message, or does nothing.
LEMMA RefreshWrites ==
    ASSUME TypeOK, NEW r \in RefreshState, r.pc = "write", WriteRefreshed(r), NEW k \in Keys
    PROVE  cache'[k] # None <=> cache[k] # None
<1>1. Stored(r.msg) \in Message /\ r.key \in Keys
    BY RefreshType, StoredType DEF TypeOK
<1>2. None \notin Message
    BY CacheAssumption
<1>3. QED
    BY <1>1, <1>2 DEF WriteRefreshed, TypeOK

\* A refresh that comes too late does not bring a collected, evicted or flushed entry
\* back: only a miss of query() adds a key to the map.
THEOREM NothingResurrected == Spec => NoResurrection
<1>1. TypeOK /\ [Next]_vars
        => [\A k \in Keys : cache[k] = None /\ cache'[k] # None
              => \E t \in Threads : thread[t].pc \in {"fill", "fail"} /\ thread[t].key = k]_vars
  <2> SUFFICES ASSUME TypeOK, [Next]_vars, NEW k \in Keys, cache[k] = None, cache'[k] # None
               PROVE  \E t \in Threads : thread[t].pc \in {"fill", "fail"} /\ thread[t].key = k
      OBVIOUS
  <2>0. cache \in [Keys -> Message \cup {None}]
      BY DEF TypeOK
  <2>1. ASSUME NEW t \in Threads, FillCache(t) PROVE thread[t].pc = "fill" /\ thread[t].key = k
    <3>1. thread[t].pc = "fill" /\ thread[t].key \in Keys
        BY <2>1, ThreadType DEF FillCache
    <3>2. k # thread[t].key => cache'[k] = None
      <4>1. CASE ~Full
          BY <2>0, <2>1, <4>1 DEF FillCache
      <4>2. CASE Full
        <5>1. PICK v \in Evictable :
                 cache' = [cache EXCEPT ![v] = None, ![thread[t].key] = thread[t].msg]
            BY <2>1, <4>2 DEF FillCache
        <5>2. v \in Keys
            BY EvictableCached DEF Cached
        <5>3. QED
            BY <2>0, <5>1, <5>2
      <4>3. QED
          BY <4>1, <4>2
    <3>3. QED
        BY <3>1, <3>2
  <2>2. ASSUME NEW t \in Threads, FillFailure(t) PROVE thread[t].pc = "fail" /\ thread[t].key = k
    <3>1. thread[t].pc = "fail" /\ cache' \in {cache, [cache EXCEPT ![thread[t].key] = thread[t].msg]}
        BY <2>2 DEF FillFailure
    <3>2. QED
        BY <2>0, <3>1
  <2>3. ASSUME NEW r \in RefreshState, r.pc = "write", WriteRefreshed(r) PROVE FALSE
      BY <2>3, RefreshWrites
  <2>4. CASE gcCache \/ flushCache
      BY <2>4 DEF gcCache, flushCache
  <2>5. QED
      BY <2>1, <2>2, <2>3, <2>4, MapSteps
<1>2. QED
    BY <1>1, TypeCorrect, PTL DEF Spec, NoResurrection

\* An entry that has not expired goes, other than by flushCache(), only from a full map,
\* and only if no other one that has not expired ends sooner.
THEOREM LiveEntriesStay == Spec => LiveEntryKept
<1>1. TypeOK /\ [Next]_vars
        => [\A k \in Keys :
              Fresh(k) /\ cache'[k] = None /\ (\E j \in Keys : cache'[j] # None)
              => Full /\ \A j \in Keys : Fresh(j) => cache[k].exp <= cache[j].exp]_vars
  <2> SUFFICES ASSUME TypeOK, [Next]_vars, NEW k \in Keys, Fresh(k), cache'[k] = None,
                      NEW i \in Keys, cache'[i] # None
               PROVE  Full /\ \A j \in Keys : Fresh(j) => cache[k].exp <= cache[j].exp
      OBVIOUS
  <2>0. cache \in [Keys -> Message \cup {None}] /\ cache[k] # None /\ None \notin Message
      BY CacheAssumption DEF TypeOK, Fresh
  <2>1. ASSUME NEW t \in Threads, FillCache(t)
        PROVE  Full /\ \A j \in Keys : Fresh(j) => cache[k].exp <= cache[j].exp
    <3>1. thread[t].key \in Keys /\ thread[t].msg \in Message
        BY <2>1, ThreadType DEF FillCache
    <3>2. Full
      <4>1. SUFFICES ASSUME ~Full PROVE FALSE
          OBVIOUS
      <4>2. cache' = [cache EXCEPT ![thread[t].key] = thread[t].msg]
          BY <2>1, <4>1 DEF FillCache
      <4>3. QED
          BY <2>0, <3>1, <4>2
    <3>3. PICK v \in Evictable : cache' = [cache EXCEPT ![v] = None, ![thread[t].key] = thread[t].msg]
        BY <2>1, <3>2 DEF FillCache
    <3>4. v = k
      <4>1. v \in Keys
          BY EvictableCached DEF Cached
      <4>2. QED
          BY <2>0, <3>1, <3>3, <4>1
    <3>5. k \in {j \in Cached : ~isExpired(cache[j])}
        BY DEF Fresh, Cached
    <3>6. \A j \in {j \in Cached : ~isExpired(cache[j])} : cache[k].exp <= cache[j].exp
        BY <3>4, <3>5 DEF Evictable
    <3>7. QED
        BY <3>2, <3>6 DEF Fresh, Cached
  <2>2. ASSUME NEW t \in Threads, FillFailure(t) PROVE FALSE
    <3>1. thread[t].key \in Keys /\ thread[t].msg \in Message
        BY <2>2, ThreadType DEF FillFailure
    <3>2. cache' \in {cache, [cache EXCEPT ![thread[t].key] = thread[t].msg]}
        BY <2>2 DEF FillFailure
    <3>3. QED
        BY <2>0, <3>1, <3>2
  <2>3. ASSUME NEW r \in RefreshState, r.pc = "write", WriteRefreshed(r) PROVE FALSE
      BY <2>0, <2>3, RefreshWrites
  <2>4. CASE gcCache
      BY <2>0, <2>4 DEF gcCache, Fresh
  <2>5. CASE flushCache
      BY <2>5 DEF flushCache
  <2>6. QED
      BY <2>0, <2>1, <2>2, <2>3, <2>4, <2>5, MapSteps
<1>2. QED
    BY <1>1, TypeCorrect, PTL DEF Spec, LiveEntryKept

-------------------------------------------------------------------------------
(* The cache as a store of answers.  What is in L1, in L2 or in a caller's     *)
(* hand after a step was there before, but for one answer just received.       *)

LEMMA KnownHas ==
    /\ \A s \in Slots : turbo[s] # None => turbo[s].msg \in Known
    /\ \A k \in Keys : cache[k] # None => cache[k] \in Known
    /\ \A t \in Threads : thread[t].msg # None => thread[t].msg \in Known
BY DEF Known, Cached

LEMMA KnownFrom ==
    ASSUME NEW S,
           \A s \in Slots : turbo'[s] # None => turbo'[s].msg \in S,
           \A k \in Keys : cache'[k] # None => cache'[k] \in S,
           \A t \in Threads : thread'[t].msg # None => thread'[t].msg \in S
    PROVE  Known' \subseteq S
BY DEF Known, Cached

LEMMA KnownType == ASSUME TypeOK PROVE Known \subseteq Message
<1>1. \A s \in Slots : turbo[s] # None => turbo[s].msg \in Message
    BY DEF TypeOK
<1>2. \A k \in Keys : cache[k] # None => cache[k] \in Message
    BY DEF TypeOK
<1>3. \A t \in Threads : thread[t].msg # None => thread[t].msg \in Message
    BY DEF TypeOK, ThreadState
<1>4. QED
    BY <1>1, <1>2, <1>3 DEF Known, Cached

LEMMA LongestBound ==
    LongestTTL \in Nat /\ MaxTTL <= LongestTTL /\ NegativeTTL <= LongestTTL /\ FailureTTL <= LongestTTL
<1> DEFINE T == {MaxTTL, NegativeTTL, FailureTTL}
<1>1. MaxTTL \in Nat /\ NegativeTTL \in Nat /\ FailureTTL \in Nat
    BY CacheAssumption
<1>2. \E n \in T : T \subseteq 0..n
  <2>1. CASE NegativeTTL <= MaxTTL /\ FailureTTL <= MaxTTL
      BY <1>1, <2>1
  <2>2. CASE MaxTTL <= NegativeTTL /\ FailureTTL <= NegativeTTL
      BY <1>1, <2>2
  <2>3. CASE MaxTTL <= FailureTTL /\ NegativeTTL <= FailureTTL
      BY <1>1, <2>3
  <2>4. QED
      BY <1>1, <2>1, <2>2, <2>3
<1>3. LongestTTL \in T /\ T \subseteq 0..LongestTTL
    BY <1>2 DEF LongestTTL
<1>4. QED
    BY <1>1, <1>3

\* An answer as it is received now.
Received(m) == m \in Message /\ m.ttl <= LongestTTL /\ m.exp = now + m.ttl

LEMMA StoredReceived ==
    ASSUME now \in Nat, NEW reply \in Reply
    PROVE  Received(Stored(reply))
<1>1. MinTTL \in Nat /\ MaxTTL \in Nat /\ NegativeTTL \in Nat /\ MinTTL <= MaxTTL
    BY CacheAssumption
<1>2. reply.ttl \in Nat
    BY DEF Reply
<1>3. computeCacheTTL(reply) <= LongestTTL
    BY <1>1, <1>2, LongestBound DEF computeCacheTTL, Bounded
<1>4. Stored(reply).ttl = computeCacheTTL(reply) /\ Stored(reply).exp = now + computeCacheTTL(reply)
    BY DEF Stored
<1>5. QED
    BY <1>3, <1>4, StoredType DEF Received

LEMMA FailureReceived ==
    ASSUME now \in Nat, NEW k \in Keys
    PROVE  Received(Failure(k))
<1>1. Failure(k).ttl = FailureTTL /\ Failure(k).exp = now + FailureTTL
    BY DEF Failure
<1>2. QED
    BY <1>1, LongestBound, FailureType DEF Received

\* A caller's step, given what it puts into L1, into the map and into its own hand.
LEMMA CallerCarries ==
    ASSUME TypeOK, NEW S, Known \subseteq S, NEW t \in Threads, NEW r \in ThreadState,
           thread' = [thread EXCEPT ![t] = r], r.msg = None \/ r.msg \in S,
           turbo' = turbo \/ \E k \in Keys, msg \in S, until \in Nat : turboInsert(Hash[k], msg, until),
           \A k \in Keys : cache'[k] = None \/ cache'[k] = cache[k] \/ cache'[k] \in S
    PROVE  Known' \subseteq S
<1>1. \A s \in Slots : turbo'[s] # None => turbo'[s].msg \in S
  <2>1. CASE turbo' = turbo
      BY <2>1, KnownHas
  <2>2. ASSUME NEW k \in Keys, NEW msg \in S, NEW until \in Nat, turboInsert(Hash[k], msg, until)
        PROVE  \A s \in Slots : turbo'[s] # None => turbo'[s].msg \in S
    <3>1. \A s \in Slots : turbo'[s] = turbo[s] \/ turbo'[s].msg = msg
        BY <2>2 DEF turboInsert, TypeOK
    <3>2. QED
        BY <3>1, KnownHas
  <2>3. QED
      BY <2>1, <2>2
<1>2. \A k \in Keys : cache'[k] # None => cache'[k] \in S
    BY KnownHas
<1>3. \A u \in Threads : thread'[u].msg # None => thread'[u].msg \in S
  <2>1. \A u \in Threads : thread'[u] = thread[u] \/ thread'[u] = r
      BY DEF TypeOK
  <2>2. QED
      BY <2>1, KnownHas
<1>4. QED
    BY <1>1, <1>2, <1>3, KnownFrom

LEMMA CallerKnown ==
    ASSUME TypeOK, NEW t \in Threads, Caller(t)
    PROVE  /\ now' = now
           /\ Known' \subseteq Known \/ \E m : Received(m) /\ Known' \subseteq Known \cup {m}
<1> DEFINE k == thread[t].key
<1>0. now \in Nat /\ now + TurboStaleTTL \in Nat
    BY TTLType DEF TypeOK
<1>1. now' = now
    BY DEF Caller, TurboMiss, FreshHit, PeekStale, PeekMiss, QueryStale, ServeStale, QueryMiss, BackReply,
           FillCache, FillFailure, FillTurbo
<1>2. ASSUME NEW j \in Keys, TurboMiss(t, j) PROVE Known' \subseteq Known
  <2>1. PICK pc \in {"peek", "query"} : thread' = [thread EXCEPT ![t] = At(pc, j, None)]
      BY <1>2 DEF TurboMiss
  <2>2. At(pc, j, None) \in ThreadState /\ At(pc, j, None).msg = None
      BY DEF At, ThreadState
  <2>3. turbo' = turbo /\ cache' = cache
      BY <1>2 DEF TurboMiss
  <2>4. QED
      BY <1>1, <2>1, <2>2, <2>3, CallerCarries
<1>3. CASE FreshHit(t) \/ PeekStale(t) \/ ServeStale(t) \/ FillTurbo(t)
  <2>1. k \in Keys
      BY <1>3, ThreadType DEF FreshHit, PeekStale, ServeStale, FillTurbo
  <2>2. Idle \in ThreadState /\ Idle.msg = None
      BY IdleType DEF Idle
  <2>3. thread' = [thread EXCEPT ![t] = Idle] /\ cache' = cache
      BY <1>3 DEF FreshHit, PeekStale, ServeStale, FillTurbo
  <2>4. \E msg \in Known, until \in Nat : turboInsert(Hash[k], msg, until)
    <3>1. CASE FreshHit(t) \/ PeekStale(t)
      <4>1. cache[k] \in Known /\ cache[k].exp \in Nat
          BY <2>1, <3>1, KnownHas DEF FreshHit, PeekStale, Fresh, Stale, TypeOK, Message
      <4>2. QED
          BY <1>0, <3>1, <4>1 DEF FreshHit, PeekStale
    <3>2. CASE ServeStale(t) \/ FillTurbo(t)
      <4>1. thread[t].msg \in Message /\ thread[t].msg # None /\ thread[t].msg.exp \in Nat
          BY <3>2, ThreadType, CacheAssumption DEF ServeStale, FillTurbo, Message
      <4>2. thread[t].msg \in Known
          BY <4>1, KnownHas
      <4>3. QED
          BY <1>0, <3>2, <4>1, <4>2 DEF ServeStale, FillTurbo
    <3>3. QED
        BY <1>3, <3>1, <3>2
  <2>5. QED
      BY <1>1, <2>1, <2>2, <2>3, <2>4, CallerCarries
<1>4. CASE PeekMiss(t) \/ QueryMiss(t)
  <2>1. PICK r \in {Idle, At("back", k, None)} : thread' = [thread EXCEPT ![t] = r]
      BY <1>4 DEF PeekMiss, QueryMiss
  <2>2. k \in Keys /\ turbo' = turbo /\ cache' = cache
      BY <1>4, ThreadType DEF PeekMiss, QueryMiss
  <2>3. r \in ThreadState /\ r.msg = None
      BY <2>1, <2>2, IdleType DEF Idle, At, ThreadState
  <2>4. QED
      BY <1>1, <2>1, <2>2, <2>3, CallerCarries
<1>5. CASE QueryStale(t)
  <2>1. k \in Keys /\ turbo' = turbo /\ cache' = cache /\ thread' = [thread EXCEPT ![t] = At("stale", k, cache[k])]
      BY <1>5, ThreadType DEF QueryStale
  <2>2. cache[k] \in Known /\ cache[k] \in Message
      BY <1>5, <2>1, KnownHas DEF QueryStale, Stale, TypeOK
  <2>3. At("stale", k, cache[k]) \in ThreadState /\ At("stale", k, cache[k]).msg = cache[k]
      BY <2>1, <2>2 DEF At, ThreadState
  <2>4. QED
      BY <1>1, <2>1, <2>2, <2>3, CallerCarries
\* The only step of a caller that brings something new.
<1>6. ASSUME NEW reply \in Replies, BackReply(t, reply)
      PROVE  Known' \subseteq Known \/ \E m : Received(m) /\ Known' \subseteq Known \cup {m}
  <2>1. k \in Keys /\ turbo' = turbo /\ cache' = cache
      BY <1>6, ThreadType DEF BackReply
  <2>2. CASE thread' = [thread EXCEPT ![t] = Idle]
    <3>1. Idle \in ThreadState /\ Idle.msg = None
        BY IdleType DEF Idle
    <3>2. QED
        BY <2>1, <2>2, <3>1, CallerCarries
  <2>3. ASSUME NEW m, Received(m), NEW pc \in {"fill", "fail"}, thread' = [thread EXCEPT ![t] = At(pc, k, m)]
        PROVE  Known' \subseteq Known \cup {m}
    <3>1. At(pc, k, m) \in ThreadState /\ At(pc, k, m).msg = m
        BY <2>1, <2>3 DEF At, ThreadState, Received
    <3>2. Known \subseteq Known \cup {m} /\ m \in Known \cup {m}
        OBVIOUS
    <3> DEFINE S == Known \cup {m}
    <3> HIDE DEF S
    <3>3. Known' \subseteq S
        BY <2>1, <2>3, <3>1, <3>2, CallerCarries DEF S
    <3>4. QED
        BY <3>3 DEF S
  <2>4. CASE reply = None
      BY <1>0, <1>6, <2>1, <2>3, <2>4, FailureReceived DEF BackReply
  <2>5. CASE reply # None
    <3>1. reply \in Reply
        BY <2>5, CacheAssumption
    <3>2. QED
        BY <1>0, <1>6, <2>2, <2>3, <2>5, <3>1, StoredReceived DEF BackReply
  <2>6. QED
      BY <2>4, <2>5
<1>7. CASE FillCache(t) \/ FillFailure(t)
  <2> DEFINE r == [thread[t] EXCEPT !.pc = "turbo"]
  <2>1. k \in Keys /\ thread[t].msg \in Message /\ thread[t].msg # None /\ turbo' = turbo
      BY <1>7, ThreadType, CacheAssumption DEF FillCache, FillFailure
  <2>2. thread[t].msg \in Known
      BY <2>1, KnownHas
  <2>3. r \in ThreadState /\ r.msg = thread[t].msg /\ Idle \in ThreadState /\ Idle.msg = None
      BY <1>7, <2>1, ThreadType, IdleType DEF FillCache, FillFailure, ThreadState, Idle
  <2>4. thread' = [thread EXCEPT ![t] = r] \/ thread' = [thread EXCEPT ![t] = Idle]
      BY <1>7 DEF FillCache, FillFailure, TypeOK
  <2>5. \A j \in Keys : cache'[j] = None \/ cache'[j] = cache[j] \/ cache'[j] \in Known
      BY <1>7, <2>1, <2>2 DEF FillCache, FillFailure, TypeOK
  <2> HIDE DEF r
  <2>6. QED
      BY <1>1, <2>1, <2>2, <2>3, <2>4, <2>5, CallerCarries
<1>8. QED
    BY <1>1, <1>2, <1>3, <1>4, <1>5, <1>6, <1>7 DEF Caller

\* A refresh brings its answer when it writes it; the rest only loses answers.
LEMMA OthersKnown ==
    ASSUME TypeOK, Refresh \/ gcCache \/ flushCache
    PROVE  /\ now' = now
           /\ Known' \subseteq Known \/ \E m : Received(m) /\ Known' \subseteq Known \cup {m}
<1>1. now' = now /\ turbo' = turbo /\ thread' = thread
    BY DEF Refresh, WorkerPop, WorkerWrite, PreemptCollect, PreemptWrite, PreemptNext, WorkerReply, PreemptReply,
           gcCache, flushCache
<1>2. ASSUME NEW S, Known \subseteq S, \A k \in Keys : cache'[k] = None \/ cache'[k] = cache[k] \/ cache'[k] \in S
      PROVE  Known' \subseteq S
  <2>1. \A k \in Keys : cache'[k] # None => cache'[k] \in S
      BY <1>2, KnownHas
  <2>2. /\ \A s \in Slots : turbo'[s] # None => turbo'[s].msg \in S
        /\ \A t \in Threads : thread'[t].msg # None => thread'[t].msg \in S
      BY <1>1, <1>2, KnownHas
  <2>3. QED
      BY <2>1, <2>2, KnownFrom
<1>3. ASSUME NEW r \in RefreshState, r.pc = "write", WriteRefreshed(r)
      PROVE  \E m : Received(m) /\ Known' \subseteq Known \cup {m}
  <2>1. r.key \in Keys /\ Received(Stored(r.msg))
      BY <1>3, RefreshType, StoredReceived DEF TypeOK
  <2>2. \A k \in Keys : cache'[k] = cache[k] \/ cache'[k] = Stored(r.msg)
      BY <1>3, <2>1 DEF WriteRefreshed, TypeOK
  <2>3. Known' \subseteq Known \cup {Stored(r.msg)}
      BY <1>2, <2>2
  <2>4. QED
      BY <2>1, <2>3
<1>4. CASE gcCache \/ flushCache
  <2>1. \A k \in Keys : cache'[k] = None \/ cache'[k] = cache[k]
      BY <1>4 DEF gcCache, flushCache
  <2>2. QED
      BY <1>1, <1>2, <2>1
<1>5. CASE Refresh
  <2>1. CASE WorkerWrite \/ PreemptWrite
      BY <1>1, <1>3, <2>1 DEF WorkerWrite, PreemptWrite, TypeOK
  <2>2. CASE ~WorkerWrite /\ ~PreemptWrite
    <3>1. cache' = cache
        BY <1>5, <2>2 DEF Refresh, WorkerPop, PreemptCollect, PreemptNext, WorkerReply, PreemptReply
    <3>2. QED
        BY <1>1, <1>2, <3>1
  <2>3. QED
      BY <2>1, <2>2
<1>6. QED
    BY <1>4, <1>5

\* With all its tiers, threads and refreshes the cache is a store of answers that
\* never change: each enters when it is received, with its own lifetime, and is
\* offered only for names of its own hash and at most the grace time after its expiry.
THEOREM CacheImplementsStore == Spec => ImplementsStore
<1>1. Init => Store!SInit
  <2> SUFFICES ASSUME Init PROVE now = 0 /\ Known = {}
      BY DEF Store!SInit
  <2>1. \A t \in Threads : thread[t].msg = None
      BY DEF Init, Idle
  <2>2. QED
      BY <2>1 DEF Init, Known, Cached
<1>2. TypeOK /\ [Next]_vars => [Store!SNext]_<<now, Known>>
  <2> SUFFICES ASSUME TypeOK, [Next]_vars PROVE Store!SNext \/ UNCHANGED <<now, Known>>
      OBVIOUS
  <2>1. ASSUME now' = now, Known' \subseteq Known \/ \E m : Received(m) /\ Known' \subseteq Known \cup {m}
        PROVE  Store!SNext
    <3>1. CASE Known' \subseteq Known
        BY <2>1, <3>1 DEF Store!SNext, Store!Lose
    <3>2. CASE ~ (Known' \subseteq Known)
      <4>1. PICK m : Received(m) /\ Known' \subseteq Known \cup {m}
          BY <2>1, <3>2
      <4>2. m \in Known'
          BY <3>2, <4>1
      <4>3. Store!Learn(m)
          BY <2>1, <4>1 DEF Store!Learn, Received
      <4>4. QED
          BY <4>2, <4>3 DEF Store!SNext
    <3>3. QED
        BY <3>1, <3>2
  <2>2. CASE \E t \in Threads : Caller(t)
      BY <2>1, <2>2, CallerKnown
  <2>3. CASE Refresh \/ gcCache \/ flushCache
      BY <2>1, <2>3, OthersKnown
  <2>4. CASE Tick
      BY <2>4 DEF Tick, Known, Cached, Store!SNext, Store!Pass
  <2>5. CASE UNCHANGED vars
      BY <2>5 DEF vars, Known, Cached
  <2>6. QED
      BY <2>2, <2>3, <2>4, <2>5 DEF Next
<1>3. TypeOK /\ AnswersMatchQuestion /\ StalenessBounded => Store!Offer
  <2> SUFFICES ASSUME TypeOK, AnswersMatchQuestion, StalenessBounded, NEW k \in Keys, NEW a \in Servable(k)
               PROVE  a \in Known /\ Hash[a.key] = Hash[k] /\ now < a.exp + (StaleThreshold + TurboStaleTTL)
      BY DEF Store!Offer
  <2>1. a \in Known
    <3>1. CASE a \in FromL1(k)
        BY <3>1, KnownHas, CacheAssumption DEF FromL1, turboLookup
    <3>2. CASE a \in {cache[k] : x \in {y \in {k} : Fresh(y) \/ Stale(y)}}
        BY <3>2, KnownHas DEF Fresh, Stale
    <3>3. CASE a \in {thread[t].msg : t \in {u \in Threads : thread[u].pc = "stale" /\ thread[u].key = k}}
      <4>1. PICK t \in Threads : a = thread[t].msg /\ thread[t].pc = "stale"
          BY <3>3
      <4>2. a # None
          BY <4>1, ThreadType, CacheAssumption
      <4>3. QED
          BY <4>1, <4>2, KnownHas
    <3>4. QED
        BY <3>1, <3>2, <3>3 DEF Servable, FromL2
  <2>2. a.exp \in Nat /\ now \in Nat
      BY <2>1, KnownType DEF Message, TypeOK
  <2>3. Hash[a.key] = Hash[k] /\ now < a.exp + StaleThreshold + TurboStaleTTL
      BY DEF AnswersMatchQuestion, StalenessBounded, Servable
  <2>4. QED
      BY <2>1, <2>2, <2>3, TTLType
<1>4. QED
    BY <1>1, <1>2, <1>3, TypeCorrect, RightAnswers, BoundedStaleness, PTL
    DEF Spec, ImplementsStore, Store!SSpec
===============================================================================
