------------------------------ MODULE DnsServer ------------------------------
(***************************************************************************)
(* The way of a query through dns_server.cpp: a UDP receiver (one of the   *)
(* udpWorker() threads, or the io_context thread in onUdpReceive()) peeks  *)
(* into the cache, hands the query to the pool or, when the pool's queue   *)
(* is full, resolves it itself; a pool worker routes it in handleQuery()   *)
(* and posts the reply to the io_context thread.  TCP has an accept thread *)
(* that reads the query, and a pool of its own.                            *)
(*                                                                         *)
(* The resolver is CachingResolver: an answer from it is "public", whether *)
(* it comes from the cache or from the upstream, and it may leave the name *)
(* in the cache (module CachingResolver).  The pools are the queues of     *)
(* module ThreadPool with a fixed number of workers.                       *)
(***************************************************************************)
EXTENDS Naturals, Sequences, FiniteSets, DomainMap

CONSTANTS
    UdpRequests, TcpRequests,  \* datagrams and connections, each used once
    Names,                     \* what a query asks, a sequence of labels
    Malformed,                 \* queries DnsMessage::parse() throws on
    HasUnqUpstream,            \* unqUpstream_ is not empty
    UdpWorkers,                \* threads in udpWorker()
    Io,                        \* the io_context thread, in onUdpReceive()
    QueueLimit, PoolSize,      \* dnsPool()
    TcpQueueLimit, TcpPoolSize \* tcpPool()

Requests  == UdpRequests \cup TcpRequests
Receivers == UdpWorkers \cup {Io}

ASSUME ServerAssumption ==
    /\ UdpRequests \cap TcpRequests = {}
    /\ Names \subseteq Seq(Labels) /\ Malformed \subseteq Names
    /\ Io \notin UdpWorkers
    /\ {QueueLimit, PoolSize, TcpQueueLimit, TcpPoolSize} \subseteq Nat \ {0}
    /\ None \notin Requests \cup Names

VARIABLES
    req,       \* req[r]: where the query is, what it asks, the answer it got
    holds,     \* holds[u]: the query receiver u is busy with
    ended,     \* udpWorker() threads that have left their loop
    queue,     \* dnsPool()'s tasks
    acceptor,  \* the connection the TCP accept thread reads from
    tcpQueue,  \* tcpPool()'s tasks
    cached     \* names CachingResolver can answer at once

vars == <<req, holds, ended, queue, acceptor, tcpQueue, cached>>

At(r, pc) == [req EXCEPT ![r].pc = pc]
Done(r, pc, ans) == [req EXCEPT ![r].pc = pc, ![r].ans = ans]
In(pc) == {r \in Requests : req[r].pc = pc}
Name(r) == req[r].name

\* resolver->query(): the answer may or may not be kept.
ResolverQuery(n) == cached' \in {cached, cached \cup {n}}

-------------------------------------------------------------------------------
Init ==
    /\ req = [r \in Requests |-> [pc |-> "client", name |-> None, ans |-> None]]
    /\ holds = [u \in Receivers |-> None]
    /\ ended = {}
    /\ queue = << >>
    /\ acceptor = None
    /\ tcpQueue = << >>
    /\ cached = {}

-------------------------------------------------------------------------------
(* udpWorker() and onUdpReceive() *)

Receive(u, r, n) ==
    /\ u \notin ended /\ holds[u] = None
    /\ req[r].pc = "client"
    /\ req' = [req EXCEPT ![r].pc = "held", ![r].name = n]
    /\ holds' = [holds EXCEPT ![u] = r]
    /\ UNCHANGED <<ended, queue, acceptor, tcpQueue, cached>>

\* The rate limiter turns the client away.
RateLimited(u) ==
    LET r == holds[u] IN
    /\ r # None /\ req[r].pc = "held"
    /\ req' = At(r, "dropped")
    /\ holds' = [holds EXCEPT ![u] = None]
    /\ UNCHANGED <<ended, queue, acceptor, tcpQueue, cached>>

\* peekCacheRaw() answers before anything else is looked at.
PeekHit(u) ==
    LET r == holds[u] IN
    /\ r # None /\ req[r].pc = "held"
    /\ Name(r) \in cached
    /\ req' = Done(r, "answered", "public")
    /\ holds' = [holds EXCEPT ![u] = None]
    /\ UNCHANGED <<ended, queue, acceptor, tcpQueue, cached>>

Enqueue(u) ==
    LET r == holds[u] IN
    /\ r # None /\ req[r].pc = "held"
    /\ Name(r) \notin cached
    /\ Len(queue) < QueueLimit
    /\ queue' = Append(queue, r)
    /\ req' = At(r, "queued")
    /\ holds' = [holds EXCEPT ![u] = None]
    /\ UNCHANGED <<ended, acceptor, tcpQueue, cached>>

\* Backpressure: the receiver goes on with the query itself.  A parse that throws
\* there ends a udpWorker(); onUdpReceive() catches it.
Backpressure(u) ==
    LET r == holds[u] IN
    /\ r # None /\ req[r].pc = "held"
    /\ Name(r) \notin cached
    /\ Len(queue) >= QueueLimit
    /\ \/ /\ Name(r) \notin Malformed
          /\ req' = At(r, "inline")
          /\ UNCHANGED <<holds, ended>>
       \/ /\ Name(r) \in Malformed
          /\ req' = At(r, "dropped")
          /\ holds' = [holds EXCEPT ![u] = None]
          /\ ended' = ended \cup ({u} \ {Io})
    /\ UNCHANGED <<queue, acceptor, tcpQueue, cached>>

\* Mutant: no reply when the resolver has none.
InlineSilent(u) ==
    LET r == holds[u] IN
    /\ r # None /\ req[r].pc = "inline"
    /\ req' = At(r, "dropped")
    /\ holds' = [holds EXCEPT ![u] = None]
    /\ UNCHANGED <<ended, queue, acceptor, tcpQueue, cached>>

\* The receiver's own resolver->query() returns.
InlineReply(u) ==
    LET r == holds[u] IN
    /\ r # None /\ req[r].pc = "inline"
    /\ ResolverQuery(Name(r))
    /\ req' = Done(r, "answered", "public")
    /\ holds' = [holds EXCEPT ![u] = None]
    /\ UNCHANGED <<ended, queue, acceptor, tcpQueue>>

-------------------------------------------------------------------------------
(* The pool *)

PoolTake ==
    /\ queue # << >>
    /\ Cardinality(In("run")) < PoolSize
    /\ req' = At(Head(queue), "run")
    /\ queue' = Tail(queue)
    /\ UNCHANGED <<holds, ended, acceptor, tcpQueue, cached>>

\* A suffix ".local", case and all; at most one dot.
IsLocal(n) == Len(n) >= 2 /\ n[Len(n)] = "local"
IsUnqualified(n) == Len(n) <= 2

Override == [n \in Names |-> {GetMostSpecific(n, o) : o \in Orders}]
Expected == [n \in Names |-> Nearest(n)]

\* The order of the tests in handleQuery().
Route(n, override) ==
    CASE IsLocal(n)                       -> "local"
      [] ~IsLocal(n) /\ override # None   -> override
      [] ~IsLocal(n) /\ override = None /\ IsUnqualified(n) /\ HasUnqUpstream -> "unqualified"
      [] OTHER                            -> "public"

\* handleQuery(): the reply, SERVFAIL if the chosen upstream does not answer, is
\* posted to the io_context.
HandleQuery(r) ==
    LET n == Name(r) IN
    /\ req[r].pc = "run"
    /\ \/ /\ n \in Malformed
          /\ req' = At(r, "dropped")
          /\ UNCHANGED cached
       \/ /\ n \notin Malformed
          /\ \E override \in Override[n] :
                LET to == Route(n, override) IN
                \/ /\ to = "public"
                   /\ req' = Done(r, "posted", to)
                   /\ ResolverQuery(n)
                \/ /\ to # "public"
                   /\ \E ans \in {to} \cup (IF to = "local" THEN {} ELSE {"servfail"}) :
                         req' = Done(r, "posted", ans)
                   /\ UNCHANGED cached
    /\ UNCHANGED <<holds, ended, queue, acceptor, tcpQueue>>

\* The io_context thread sends when it is not inside onUdpReceive().
Send(r) ==
    /\ req[r].pc = "posted"
    /\ holds[Io] = None
    /\ req' = At(r, "answered")
    /\ UNCHANGED <<holds, ended, queue, acceptor, tcpQueue, cached>>

-------------------------------------------------------------------------------
(* TCP *)

\* A client writes its query when it likes, if at all.
TcpClientWrites(r, n) ==
    /\ req[r].pc \in {"client", "reading"} /\ Name(r) = None
    /\ req' = [req EXCEPT ![r].name = n]
    /\ UNCHANGED <<holds, ended, queue, acceptor, tcpQueue, cached>>

TcpAccept(r) ==
    /\ acceptor = None
    /\ req[r].pc = "client"
    /\ acceptor' = r
    /\ req' = At(r, "reading")
    /\ UNCHANGED <<holds, ended, queue, tcpQueue, cached>>

\* The two blocking reads on the accept thread end: with the client's query,
\* which goes to the TCP pool or is refused, or with the end of the connection.
TcpRead ==
    LET r == acceptor IN
    /\ r # None /\ Name(r) # None
    /\ acceptor' = None
    /\ \/ /\ Name(r) \in Malformed
          /\ req' = At(r, "dropped")
          /\ UNCHANGED tcpQueue
       \/ /\ Name(r) \notin Malformed /\ Len(tcpQueue) < TcpQueueLimit
          /\ req' = At(r, "tcpqueued")
          /\ tcpQueue' = Append(tcpQueue, r)
       \/ /\ Name(r) \notin Malformed /\ Len(tcpQueue) >= TcpQueueLimit
          /\ req' = Done(r, "answered", "servfail")
          /\ UNCHANGED tcpQueue
    /\ UNCHANGED <<holds, ended, queue, cached>>

TcpClientCloses ==
    /\ acceptor # None /\ Name(acceptor) = None
    /\ req' = At(acceptor, "dropped")
    /\ acceptor' = None
    /\ UNCHANGED <<holds, ended, queue, tcpQueue, cached>>

TcpTake ==
    /\ tcpQueue # << >>
    /\ Cardinality(In("tcprun")) < TcpPoolSize
    /\ req' = At(Head(tcpQueue), "tcprun")
    /\ tcpQueue' = Tail(tcpQueue)
    /\ UNCHANGED <<holds, ended, queue, acceptor, cached>>

\* peekCacheRaw(), then resolver->query(): no routing.
TcpHandle(r) ==
    /\ req[r].pc = "tcprun"
    /\ ResolverQuery(Name(r))
    /\ req' = Done(r, "answered", "public")
    /\ UNCHANGED <<holds, ended, queue, acceptor, tcpQueue>>

\* An entry goes stale, is collected or evicted.
Expire(n) ==
    /\ n \in cached
    /\ cached' = cached \ {n}
    /\ UNCHANGED <<req, holds, ended, queue, acceptor, tcpQueue>>

-------------------------------------------------------------------------------
Receiver(u) == PeekHit(u) \/ Enqueue(u) \/ Backpressure(u) \/ InlineReply(u)

Pool == PoolTake \/ TcpTake

Next ==
    \/ \E u \in Receivers, r \in UdpRequests, n \in Names : Receive(u, r, n)
    \/ \E u \in Receivers : RateLimited(u) \/ Receiver(u)
    \/ Pool
    \/ \E r \in UdpRequests : HandleQuery(r) \/ Send(r)
    \/ \E r \in TcpRequests : TcpAccept(r) \/ TcpHandle(r)
    \/ \E r \in TcpRequests, n \in Names : TcpClientWrites(r, n)
    \/ TcpRead \/ TcpClientCloses
    \/ \E n \in Names : Expire(n)

Spec == Init /\ [][Next]_vars

\* Every thread of the server that can go on does; upstream calls end, by an
\* answer or by their timeouts.  Clients owe nothing: none has to send a query,
\* to write it once it is connected, or to close its connection.
Fairness ==
    /\ \A u \in Receivers : WF_vars(Receiver(u))
    /\ WF_vars(PoolTake) /\ WF_vars(TcpTake)
    /\ \A r \in UdpRequests : WF_vars(HandleQuery(r)) /\ WF_vars(Send(r))
    /\ \A r \in TcpRequests : WF_vars(TcpHandle(r))
    /\ WF_vars(\E r \in TcpRequests : TcpAccept(r))
    /\ WF_vars(TcpRead)

FairSpec == Spec /\ Fairness

-------------------------------------------------------------------------------
(* Properties *)

TypeOK ==
    /\ req \in [Requests ->
          [pc : {"client", "held", "inline", "queued", "run", "posted", "reading", "tcpqueued",
                 "tcprun", "answered", "dropped"},
           name : Names \cup {None},
           ans : {None, "public", "local", "unqualified", "servfail"} \cup {ValueOf(key) : key \in Keys}]]
    /\ holds \in [Receivers -> UdpRequests \cup {None}]
    /\ ended \subseteq UdpWorkers
    /\ queue \in Seq(UdpRequests) /\ Len(queue) <= QueueLimit
    /\ acceptor \in TcpRequests \cup {None}
    /\ tcpQueue \in Seq(TcpRequests) /\ Len(tcpQueue) <= TcpQueueLimit
    /\ cached \subseteq Names

\* Every well-formed query that got past the rate limiter is answered, by the
\* cache, by a pool or inline, though the io_context thread that sends the
\* pool's replies may itself be busy resolving, and receivers may end.
AdmittedIsAnswered ==
    \A r \in Requests :
        (/\ req[r].pc \in {"queued", "inline", "run", "posted", "tcpqueued", "tcprun"}
         /\ Name(r) \notin Malformed)
            ~> (req[r].pc = "answered")

\* "Most-specific-match lookup": what handleQuery() answers a name that has an entry
\* for itself or above it comes from the upstream of the nearest one, the last if it
\* is given twice, or is SERVFAIL; no other name is sent to such an upstream.
RoutedToNearest ==
    [][\A r \in UdpRequests :
         (req[r].pc = "run" /\ req'[r].pc = "posted" /\ ~IsLocal(Name(r)))
            => IF Expected[Name(r)] # None
               THEN req'[r].ans \in {Expected[Name(r)], "servfail"}
               ELSE req'[r].ans \in {"public", "unqualified", "servfail"}]_vars

\* "Per-domain upstream routing": a name with an override is answered by its
\* upstream or with SERVFAIL, never by the public resolver or its cache.
OverrideRespected ==
    \A r \in Requests :
        (Name(r) # None /\ ~IsLocal(Name(r)) /\ Expected[Name(r)] # None)
           => req[r].ans \in {None, Expected[Name(r)], "servfail"}
===============================================================================
