-------------------------- MODULE MCCachingResolver --------------------------
(* Instances of CachingResolver for TLC. *)
EXTENDS CachingResolver, TLC

CONSTANTS k1, k2, k3, t1, t2, s1

\* k1 and k2 have the same hash; all hashes fall into the same L1 slot.
CollidingHash == [k \in Keys |-> IF k = k3 THEN 2 ELSE 1]
SharedSlot == [h \in Hashes |-> s1]

Positive(k, ttl) == [q |-> k, rcode |-> "NOERROR", ok |-> TRUE, empty |-> FALSE, ttl |-> ttl]
NXDomain(k) == [q |-> k, rcode |-> "NXDOMAIN", ok |-> TRUE, empty |-> FALSE, ttl |-> 0]

\* Answers, nullptr, and (an answer for another key) one that is not cached.
AnswersOrNull == {Positive(k, 2) : k \in Keys} \cup {None}
AnswersOrNXDomain == {Positive(k, 2) : k \in Keys} \cup {NXDomain(k) : k \in Keys}

\* Of the callers, the stale-refresh worker and the preemptive-refresh thread at
\* most two are under way at a time, so that every pair of them interleaves, and
\* two of them only before time 2, while the first answers live and go stale.
Busy ==
    {t \in Threads : thread[t].pc # "idle"}
        \cup {x \in {1} : worker.pc # "idle"}
        \cup {x \in {2} : preempt.pc # "idle" \/ todo # {}}
TwoAtATime == Cardinality(Busy) <= (IF now < 2 THEN 2 ELSE 1)

CacheSymmetry == Permutations({k1, k2}) \cup Permutations(Threads)
===============================================================================
