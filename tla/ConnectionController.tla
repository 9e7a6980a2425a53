------------------------- MODULE ConnectionController -------------------------
(***************************************************************************)
(* The keeper of upstream connections: managed_, the reconnect queue with  *)
(* its workers, the maintenance thread in run(), stop().  Left out:        *)
(* probeAllIdle(), the checks of a round of run() from another thread.     *)
(*                                                                         *)
(* What is done under mutex_ is one step (reconnectMutex_ is only taken on *)
(* its own or inside it); health checks and openFunc_ run without a lock.  *)
(* Streams are compared by address and never managed again once they have  *)
(* been unmanaged, so a reference to a stream names its connection and     *)
(* says whether the stream is still the managed one (live).  An entry of   *)
(* managed_ shares the flag connected of its connection.  Time is left     *)
(* out: any connection may have been idle for long enough to be checked.   *)
(***************************************************************************)
EXTENDS Integers, Sequences, FiniteSets, FiniteSetsExt

CONSTANTS
    Conns,        \* connections
    Workers,      \* RECONNECT_WORKERS threads in reconnectLoop()
    MaxRetries,   \* 5
    MaxChecks,    \* bound: connections found idle at once
    None

ASSUME ControllerAssumption ==
    /\ IsFiniteSet(Workers) /\ MaxRetries \in Nat
    /\ None \notin [conn : Conns, live : BOOLEAN, retries : Nat]

VARIABLES
    connected,    \* connected[c]: the flag both sides write
    managed,      \* managed_: connection and reconnectPending
    count,        \* connectedCount_
    queue,        \* reconnectQueue_: a stream and its retries
    worker,       \* worker[w]: where it is, and the work it has
    round,        \* what a round of run() has left to do
    stopping,     \* stop(): "no", "join" (the maintenance thread), "drain" (the workers), "done"
    shifted       \* history: managed_ shrank under the indices run() remembers

controller == <<connected, managed, count, queue, worker, round, stopping, shifted>>

\* The entry of managed_ a reference finds, if any.
Found(ref) == {i \in DOMAIN managed : ref.live /\ managed[i].conn = ref.conn}
Entries(c) == {i \in DOMAIN managed : managed[i].conn = c}
IsUp(i) == connected[managed[i].conn]
Work(c, n) == [conn |-> c, live |-> TRUE, retries |-> n]

ControllerInit ==
    /\ connected = [c \in Conns |-> FALSE]
    /\ managed = << >> /\ queue = << >>
    /\ count = 0
    /\ worker = [w \in Workers |-> [pc |-> "wait", work |-> None]]
    /\ round = [pc |-> "idle", checks |-> {}, recs |-> {}]
    /\ stopping = "no"
    /\ shifted = FALSE

-------------------------------------------------------------------------------
(* Calls of the resolver, as parts of its steps *)

\* manage() of a connection that has just been opened.
Manage(c) ==
    /\ managed' = Append(managed, [conn |-> c, pending |-> FALSE])
    /\ connected' = [connected EXCEPT ![c] = TRUE]
    /\ count' = count + 1
    /\ UNCHANGED <<queue, worker, round, stopping, shifted>>

Dead(ref, c) == IF ref # None /\ ref.conn = c THEN [ref EXCEPT !.live = FALSE] ELSE ref

\* s without its i-th element, and s without its elements for connection c.
Erased(s, i) == [j \in 1..(Len(s) - 1) |-> IF j < i THEN s[j] ELSE s[j + 1]]
Without(s, c) ==
    LET kept   == {i \in DOMAIN s : s[i].conn # c}
        nth(j) == CHOOSE i \in kept : Cardinality({k \in kept : k <= i}) = j
    IN  [j \in 1..Cardinality(kept) |-> s[nth(j)]]

\* unmanage(), and the close() that follows it: one entry is erased, and all the work.
UnmanageAndClose(c) ==
    /\ IF Entries(c) = {} THEN UNCHANGED <<managed, count>>
       ELSE LET i == Min(Entries(c)) IN
            /\ managed' = Erased(managed, i)
            /\ count' = IF IsUp(i) THEN count - 1 ELSE count
    /\ queue' = Without(queue, c)
    /\ connected' = [connected EXCEPT ![c] = FALSE]
    /\ worker' = [w \in Workers |-> [worker[w] EXCEPT !.work = Dead(@, c)]]
    /\ round' = [round EXCEPT !.checks = {Dead(k, c) : k \in @}]
    /\ shifted' = (shifted \/ \E i \in Entries(c), j \in round.recs : i <= j)
    /\ UNCHANGED stopping

\* Mutant: the count goes down whether or not the connection was up.
FailedUncounted(i) ==
    /\ connected' = [connected EXCEPT ![managed[i].conn] = FALSE]
    /\ count' = count - 1
    /\ managed' = [managed EXCEPT ![i].pending = TRUE]
    /\ queue' = IF managed[i].pending THEN queue ELSE Append(queue, Work(managed[i].conn, 0))

\* The connection of entry i is found broken: its flag goes down, and work is queued
\* unless the entry is marked already.
Failed(i) ==
    /\ connected' = [connected EXCEPT ![managed[i].conn] = FALSE]
    /\ count' = IF IsUp(i) THEN count - 1 ELSE count
    /\ managed' = [managed EXCEPT ![i].pending = TRUE]
    /\ queue' = IF managed[i].pending THEN queue ELSE Append(queue, Work(managed[i].conn, 0))

NotifyFailure(c) ==
    /\ IF Entries(c) = {} THEN UNCHANGED <<connected, count, managed, queue>>
       ELSE \E i \in Entries(c) : Failed(i)
    /\ UNCHANGED <<worker, round, stopping, shifted>>

-------------------------------------------------------------------------------
(* run() *)

Checkable == {i \in DOMAIN managed : ~managed[i].pending /\ IsUp(i)}
Down      == {i \in DOMAIN managed : ~managed[i].pending /\ ~IsUp(i)}
Remembered(is) == {[at |-> i, conn |-> managed[i].conn, live |-> TRUE] : i \in is}

\* A round with nothing left to do ends; running_ is tested between rounds only.
RoundGoesOn(checks, recs) ==
    round' = [pc |-> IF checks # {} \/ recs # {} THEN "busy" ELSE IF stopping = "no" THEN "idle" ELSE "gone",
              checks |-> checks, recs |-> recs]

\* The pass of run() under the lock: what to check, and what to reconnect.
RunScan(is) ==
    /\ round.pc = "idle"
    /\ is \subseteq Checkable /\ Cardinality(is) <= MaxChecks
    /\ RoundGoesOn(Remembered(is), Down)
    /\ managed' = [i \in DOMAIN managed |-> IF i \in Down THEN [managed[i] EXCEPT !.pending = TRUE]
                                                          ELSE managed[i]]
    /\ UNCHANGED <<connected, count, queue, worker, stopping, shifted>>

FirstCheck == CHOOSE k \in round.checks : \A other \in round.checks : k.at <= other.at

CheckPasses ==
    /\ round.checks # {}
    /\ connected[FirstCheck.conn]
    /\ RoundGoesOn(round.checks \ {FirstCheck}, round.recs)
    /\ UNCHANGED <<connected, managed, count, queue, worker, stopping, shifted>>

\* Here the index is compared with the stream before it is used.
CheckFails ==
    /\ round.checks # {}
    /\ LET k == FirstCheck IN
       \/ k.at \in Found(k) /\ Failed(k.at)
       \/ k.at \notin Found(k) /\ UNCHANGED <<connected, count, managed, queue>>
    /\ RoundGoesOn(round.checks \ {FirstCheck}, round.recs)
    /\ UNCHANGED <<worker, stopping, shifted>>

\* And here it is not: whatever entry has the index by now is queued.
RunEnqueues ==
    LET j == Min(round.recs) IN
    /\ round.checks = {} /\ round.recs # {}
    /\ queue' = IF j \in DOMAIN managed THEN Append(queue, Work(managed[j].conn, 0)) ELSE queue
    /\ RoundGoesOn({}, round.recs \ {j})
    /\ UNCHANGED <<connected, managed, count, worker, stopping, shifted>>

-------------------------------------------------------------------------------
(* reconnectLoop() and reconnectStream() *)

Rest(w) == [worker EXCEPT ![w] = [pc |-> "wait", work |-> None]]

\* Work is taken, and after the delay the stream is looked for: it is to be opened if
\* it is still managed, and down.  Work a worker has not looked at yet is as good as
\* in the queue, so the two are one step.
Pop(w) ==
    /\ worker[w].pc = "wait" /\ queue # << >>
    /\ worker' = IF \E i \in Found(Head(queue)) : ~IsUp(i)
                 THEN [worker EXCEPT ![w] = [pc |-> "open", work |-> Head(queue)]] ELSE worker
    /\ queue' = Tail(queue)
    /\ UNCHANGED <<connected, managed, count, round, stopping, shifted>>

OpenSucceeds(w) ==
    LET work == worker[w].work IN
    /\ worker[w].pc = "open"
    /\ \/ \E i \in Found(work) :
             /\ managed' = [managed EXCEPT ![i].pending = FALSE]
             /\ connected' = [connected EXCEPT ![work.conn] = TRUE]
             /\ count' = count + 1
       \/ Found(work) = {} /\ UNCHANGED <<managed, connected, count>>
    /\ worker' = Rest(w)
    /\ UNCHANGED <<queue, round, stopping, shifted>>

\* Mutant: after the last retry the entry stays marked.
OpenFailsForgotten(w) ==
    LET work == worker[w].work IN
    /\ worker[w].pc = "open"
    /\ queue' = IF Found(work) # {} /\ work.retries < MaxRetries
                THEN Append(queue, Work(work.conn, work.retries + 1)) ELSE queue
    /\ worker' = Rest(w)
    /\ UNCHANGED <<connected, count, managed, round, stopping, shifted>>

\* Mutant: the retries are not counted.
OpenFailsForEver(w) ==
    LET work == worker[w].work IN
    /\ worker[w].pc = "open"
    /\ queue' = IF Found(work) # {} THEN Append(queue, Work(work.conn, 0)) ELSE queue
    /\ worker' = Rest(w)
    /\ UNCHANGED <<connected, count, managed, round, stopping, shifted>>

\* Up to five retries; then the next round of run() may try again.
OpenFails(w) ==
    LET work == worker[w].work IN
    /\ worker[w].pc = "open"
    /\ \/ /\ Found(work) # {} /\ work.retries < MaxRetries
          /\ queue' = Append(queue, Work(work.conn, work.retries + 1))
          /\ UNCHANGED managed
       \/ \E i \in Found(work) :
             /\ work.retries >= MaxRetries
             /\ managed' = [managed EXCEPT ![i].pending = FALSE]
             /\ UNCHANGED queue
       \/ Found(work) = {} /\ UNCHANGED <<queue, managed>>
    /\ worker' = Rest(w)
    /\ UNCHANGED <<connected, count, round, stopping, shifted>>

-------------------------------------------------------------------------------
(* stop() *)

StopCalled ==
    /\ stopping = "no" /\ stopping' = "join"
    /\ UNCHANGED <<connected, managed, count, queue, worker, round, shifted>>

StopJoins ==
    /\ stopping = "join" /\ round.pc = "gone"
    /\ stopping' = "drain"
    /\ UNCHANGED <<connected, managed, count, queue, worker, round, shifted>>

\* A worker leaves when the queue is empty.
Leave(w) ==
    /\ stopping = "drain" /\ worker[w].pc = "wait" /\ queue = << >>
    /\ worker' = [worker EXCEPT ![w].pc = "gone"]
    /\ UNCHANGED <<connected, managed, count, queue, round, stopping, shifted>>

StopReturns ==
    /\ stopping = "drain" /\ \A w \in Workers : worker[w].pc = "gone"
    /\ stopping' = "done"
    /\ UNCHANGED <<connected, managed, count, queue, worker, round, shifted>>

-------------------------------------------------------------------------------
RunRound == (\E is \in SUBSET Checkable : RunScan(is)) \/ RunEnqueues
              \/ CheckPasses \/ CheckFails
Reconnect(w) == Pop(w) \/ OpenSucceeds(w) \/ OpenFails(w) \/ Leave(w)

ControllerStep ==
    \/ RunRound
    \/ \E w \in Workers : Reconnect(w)
    \/ StopJoins \/ StopReturns

-------------------------------------------------------------------------------
(* Properties *)

\* The work under way for the managed stream of a connection.
Hands(c) ==
    Cardinality({i \in DOMAIN queue : queue[i].conn = c})
      + Cardinality({w \in Workers : worker[w].work # None /\ worker[w].work.conn = c /\ worker[w].work.live})
      + Cardinality(round.recs \cap Entries(c))

\* "Triggers immediate background reconnect": a managed connection marked for
\* reconnection has exactly one reconnect under way, and one that is not marked has
\* none, so no two workers open the same stream and none is forgotten, unless
\* unmanage() shifted managed_ between the two passes of a round of run().
PendingIsServed ==
    ~shifted => \A i \in DOMAIN managed :
                   Hands(managed[i].conn) = IF managed[i].pending THEN 1 ELSE 0

\* connectedCount_, which countConnected() reports, is the number of managed
\* connections that are up, whatever finds them broken or reopens them at the same
\* time, with the same exception.
CountExact ==
    ~shifted => count = Cardinality({i \in DOMAIN managed : IsUp(i)})
===============================================================================
