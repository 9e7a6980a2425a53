------------------------------ MODULE ServerStop ------------------------------
(***************************************************************************)
(* DnsServer::stop() against the threads of the server.  The udpWorker()   *)
(* threads and the TCP accept thread block in system calls that only data  *)
(* ends: stop() clears running_, closes the acceptor, tells the pool to    *)
(* stop, connects to 127.0.0.1 at its TCP port, sends one dummy datagram   *)
(* per worker to 127.0.0.1 at its UDP port, joins the receivers, the       *)
(* accept thread and the perf monitor, closes and resets the main UDP      *)
(* socket and stops the io_context.                                        *)
(*                                                                         *)
(* The workers' sockets and the main one share the port (SO_REUSEPORT),    *)
(* and the kernel picks the socket of each datagram by a hash of the       *)
(* sender's port; but the workers bind every interface and the main socket *)
(* the configured address, which it alone serves if it is a specific one.  *)
(* On Linux a thread that blocks in accept() keeps the socket listening    *)
(* after another has closed it, until accept() returns.                    *)
(*                                                                         *)
(* The io_context runs in a detached thread that stop() does not join, so  *)
(* onUdpReceive() may be anywhere when the main socket is reset.           *)
(*                                                                         *)
(* The pool's own threads are not joined here: see ThreadPool.             *)
(***************************************************************************)
EXTENDS Naturals, Sequences, FiniteSets

CONSTANTS
    UdpThreads,    \* the NUM_WORKERS threads in udpWorker()
    MainSocket,    \* the main socket, read by the io_context thread
    Addresses,     \* the addresses the configuration may name
    MaxQueries,    \* bound on client datagrams
    MaxClients     \* bound on TCP clients

Sockets == UdpThreads \cup {MainSocket}

\* Every interface (the default), 127.0.0.1, or one that 127.0.0.1 does not reach.
AddressKinds == {"any", "loopback", "other"}

VARIABLES
    addr,      \* addr_
    stopper,   \* where stop() is
    running,   \* running_
    kicks,     \* dummy datagrams sent
    buf,       \* buf[s]: datagrams in the buffer of socket s
    sent,      \* client datagrams so far
    wk,        \* the udpWorker() threads
    handler,   \* onUdpReceive() in the io_context thread
    topen,     \* tcpAcceptor_ is open
    backlog,   \* connections waiting to be accepted
    clients,   \* TCP clients so far
    acc,       \* the TCP accept thread
    perf,      \* the perf monitor thread
    flight,    \* tasks in the pool, queued or running
    posted     \* replies posted to the io_context and not yet sent

tcpVars == <<topen, backlog, clients, acc>>
udpVars == <<buf, sent, wk, handler>>
poolVars == <<flight, posted>>
stopVars == <<stopper, running, kicks>>
vars == <<addr, stopVars, udpVars, tcpVars, perf, poolVars>>

Init ==
    /\ addr \in Addresses
    /\ stopper = "none" /\ running = TRUE /\ kicks = 0
    /\ buf = [s \in Sockets |-> << >>] /\ sent = 0
    /\ wk = [u \in UdpThreads |-> "test"] /\ handler = "wait"
    /\ topen = TRUE /\ backlog = << >> /\ clients = 0 /\ acc = "test"
    /\ perf = "loop"
    /\ flight = 0 /\ posted = 0

\* Not enabled by the configuration.
Absent ==
    /\ addr = "any"
    /\ stopper = "closed" /\ running = FALSE /\ kicks = 0
    /\ buf = [s \in Sockets |-> << >>] /\ sent = 0
    /\ wk = [u \in UdpThreads |-> "gone"] /\ handler = "wait"
    /\ topen = FALSE /\ backlog = << >> /\ clients = 0 /\ acc = "gone"
    /\ perf = "gone"
    /\ flight = 0 /\ posted = 0

-------------------------------------------------------------------------------
(* Clients *)

\* Clients know every address of the host, so that any socket may be theirs.
ClientQuery(s) ==
    /\ stopper # "closed"
    /\ sent < MaxQueries
    /\ sent' = sent + 1
    /\ buf' = [buf EXCEPT ![s] = Append(@, "query")]
    /\ UNCHANGED <<addr, stopVars, wk, handler, tcpVars, perf, poolVars>>

\* The kernel completes connections as long as somebody keeps the socket.
Listening == topen \/ acc = "accept"

ClientConnects ==
    /\ Listening
    /\ clients < MaxClients
    /\ clients' = clients + 1
    /\ backlog' = Append(backlog, "client")
    /\ UNCHANGED <<addr, stopVars, udpVars, topen, acc, perf, poolVars>>

-------------------------------------------------------------------------------
(* udpWorker(): test running_, block in receive_from(), handle *)

WorkerTest(u) ==
    /\ wk[u] = "test"
    /\ wk' = [wk EXCEPT ![u] = IF running THEN "recv" ELSE "gone"]
    /\ UNCHANGED <<addr, stopVars, buf, sent, handler, tcpVars, perf, poolVars>>

\* A dummy datagram is too short and only leads back to the test; a query goes to
\* the pool, unless the worker answers it from the cache or inline.
WorkerReceive(u) ==
    /\ wk[u] = "recv"
    /\ buf[u] # << >>
    /\ buf' = [buf EXCEPT ![u] = Tail(@)]
    /\ wk' = [wk EXCEPT ![u] = "test"]
    /\ \/ flight' = flight
       \/ Head(buf[u]) = "query" /\ flight' = flight + 1
    /\ UNCHANGED <<addr, stopVars, sent, handler, tcpVars, perf, posted>>

-------------------------------------------------------------------------------
(* The io_context thread: onUdpReceive() and what it and the pool post *)

\* The pending receive completes.  There is no length test: a dummy datagram is
\* handled like a query.
IoReceive ==
    /\ handler = "wait" /\ stopper # "closed"
    /\ buf[MainSocket] # << >>
    /\ buf' = [buf EXCEPT ![MainSocket] = Tail(@)]
    /\ handler' = "begun"
    /\ UNCHANGED <<addr, stopVars, sent, wk, tcpVars, perf, poolVars>>

\* The rate limiter refuses the sender, or auto sock = udpSocket_, which stop()
\* may have reset.
HandlerTakes ==
    /\ handler = "begun"
    /\ handler' \in {"rearm", IF stopper = "closed" THEN "null" ELSE "has"}
    /\ UNCHANGED <<addr, stopVars, buf, sent, wk, tcpVars, perf, poolVars>>

\* The query becomes a task, or is answered from the cache or inline, or does not
\* parse; answering it dereferences sock.
HandlerActs ==
    /\ handler \in {"has", "null"}
    /\ \/ handler' = "rearm" /\ flight' \in {flight, flight + 1}
       \/ handler = "null" /\ handler' = "fault" /\ flight' = flight
    /\ UNCHANGED <<addr, stopVars, buf, sent, wk, tcpVars, perf, posted>>

\* startUdpReceive() dereferences udpSocket_.
HandlerRearms ==
    /\ handler = "rearm"
    /\ handler' = IF stopper = "closed" THEN "fault" ELSE "wait"
    /\ UNCHANGED <<addr, stopVars, buf, sent, wk, tcpVars, perf, poolVars>>

\* handleQuery() posts a reply, or returns without one.
PoolHandles ==
    /\ flight > 0
    /\ flight' = flight - 1
    /\ posted' \in {posted, posted + 1}
    /\ UNCHANGED <<addr, stopVars, udpVars, tcpVars, perf>>

IoSends ==
    /\ handler = "wait" /\ stopper # "closed"
    /\ posted > 0
    /\ posted' = posted - 1
    /\ UNCHANGED <<addr, stopVars, udpVars, tcpVars, perf, flight>>

-------------------------------------------------------------------------------
(* tcpAcceptLoop() *)

AcceptTest ==
    /\ acc = "test"
    /\ acc' = IF running THEN "enter" ELSE "gone"
    /\ UNCHANGED <<addr, stopVars, udpVars, topen, backlog, clients, perf, poolVars>>

\* accept() on a closed acceptor fails at once, on an open one it blocks.
AcceptEnter ==
    /\ acc = "enter"
    /\ acc' = IF topen THEN "accept" ELSE "gone"
    /\ UNCHANGED <<addr, stopVars, udpVars, topen, backlog, clients, perf, poolVars>>

\* stop()'s own connection is closed at once, so reading from it fails.  When the
\* acceptor is closed, the socket goes with the accept() that kept it, and whoever
\* else waited is reset.
Accept ==
    /\ acc = "accept"
    /\ backlog # << >>
    /\ backlog' = IF topen THEN Tail(backlog) ELSE << >>
    /\ acc' = IF Head(backlog) = "client" THEN "read" ELSE "test"
    /\ UNCHANGED <<addr, stopVars, udpVars, topen, clients, perf, poolVars>>

\* Any error of accept(), such as too many open files, ends the loop for good.
AcceptError ==
    /\ acc = "accept"
    /\ acc' = "gone"
    /\ UNCHANGED <<addr, stopVars, udpVars, topen, backlog, clients, perf, poolVars>>

\* The client writes its query or closes.
ClientActs ==
    /\ acc = "read"
    /\ acc' = "test"
    /\ UNCHANGED <<addr, stopVars, udpVars, topen, backlog, clients, perf, poolVars>>

PerfEnds ==
    /\ perf = "loop" /\ ~running
    /\ perf' = "gone"
    /\ UNCHANGED <<addr, stopVars, udpVars, tcpVars, poolVars>>

-------------------------------------------------------------------------------
(* stop() *)

StopBegins ==
    /\ stopper = "none"
    /\ running' = FALSE
    /\ stopper' = "close"
    /\ UNCHANGED <<addr, kicks, udpVars, tcpVars, perf, poolVars>>

\* tcpAcceptor_.close(ec), and dnsPool().shutdown(), which is ThreadPool's.
CloseAcceptor ==
    /\ stopper = "close"
    /\ stopper' = "tcp"
    /\ topen' = FALSE
    /\ backlog' = IF acc = "accept" THEN backlog ELSE << >>
    /\ UNCHANGED <<addr, running, kicks, udpVars, clients, acc, perf, poolVars>>

\* connect() to 127.0.0.1, which somebody must still listen on.
KickTcp ==
    /\ stopper = "tcp"
    /\ stopper' = "udp"
    /\ backlog' = IF Listening /\ addr # "other" THEN Append(backlog, "kick") ELSE backlog
    /\ UNCHANGED <<addr, running, kicks, udpVars, topen, clients, acc, perf, poolVars>>

\* The sockets that may get a datagram sent to 127.0.0.1.
Reached == CASE addr = "any" -> Sockets
             [] addr = "loopback" -> {MainSocket}
             [] addr = "other" -> UdpThreads

\* One datagram from a fresh port, to whichever of them the kernel's hash picks.
KickUdp ==
    /\ stopper = "udp"
    /\ kicks < Cardinality(UdpThreads)
    /\ kicks' = kicks + 1
    /\ \E s \in Reached : buf' = [buf EXCEPT ![s] = Append(@, "kick")]
    /\ UNCHANGED <<addr, stopper, running, sent, wk, handler, tcpVars, perf, poolVars>>

JoinBegins ==
    /\ stopper = "udp"
    /\ kicks = Cardinality(UdpThreads)
    /\ stopper' = "join"
    /\ UNCHANGED <<addr, running, kicks, udpVars, tcpVars, perf, poolVars>>

\* Mutant: the receivers are not joined.
CloseWithoutReceivers ==
    /\ stopper = "join"
    /\ acc = "gone"
    /\ perf = "gone"
    /\ stopper' = "closed"
    /\ UNCHANGED <<addr, running, kicks, udpVars, tcpVars, perf, poolVars>>

\* Every join has returned: close and reset the main socket, stop the io_context,
\* whose thread may be in the middle of onUdpReceive().
CloseAll ==
    /\ stopper = "join"
    /\ \A u \in UdpThreads : wk[u] = "gone"
    /\ acc = "gone"
    /\ perf = "gone"
    /\ stopper' = "closed"
    /\ UNCHANGED <<addr, running, kicks, udpVars, tcpVars, perf, poolVars>>

Stopper == CloseAcceptor \/ KickTcp \/ KickUdp \/ JoinBegins \/ CloseAll
Worker(u) == WorkerTest(u) \/ WorkerReceive(u)
IoThread == IoReceive \/ HandlerTakes \/ HandlerActs \/ HandlerRearms \/ IoSends
Acceptor == AcceptTest \/ AcceptEnter \/ Accept

-------------------------------------------------------------------------------
\* All but the call of stop(), which is main()'s: see MainProcess.
Next ==
    \/ \E s \in Sockets : ClientQuery(s)
    \/ ClientConnects \/ ClientActs \/ AcceptError
    \/ \E u \in UdpThreads : Worker(u)
    \/ IoThread \/ PoolHandles
    \/ Acceptor \/ PerfEnds
    \/ Stopper

\* The server's threads run; clients owe nothing.
Fairness ==
    /\ \A u \in UdpThreads : WF_vars(Worker(u))
    /\ WF_vars(IoThread) /\ WF_vars(PoolHandles)
    /\ WF_vars(Acceptor) /\ WF_vars(PerfEnds) /\ WF_vars(Stopper)

-------------------------------------------------------------------------------
(* Properties *)

StopTypeOK ==
    /\ addr \in AddressKinds
    /\ stopper \in {"none", "close", "tcp", "udp", "join", "closed"}
    /\ running \in BOOLEAN
    /\ kicks \in 0..Cardinality(UdpThreads)
    /\ buf \in [Sockets -> Seq({"query", "kick"})]
    /\ sent \in 0..MaxQueries
    /\ wk \in [UdpThreads -> {"test", "recv", "gone"}]
    /\ handler \in {"wait", "begun", "has", "null", "rearm", "fault"}
    /\ topen \in BOOLEAN
    /\ backlog \in Seq({"client", "kick"})
    /\ clients \in 0..MaxClients
    /\ acc \in {"test", "enter", "accept", "read", "gone"}
    /\ perf \in {"loop", "gone"}
    /\ flight \in Nat /\ posted \in Nat

\* A worker blocked in receive_from() with nothing to receive, and an accept thread
\* that neither stop() nor a client wakes.
Stuck == {u \in UdpThreads : wk[u] = "recv" /\ buf[u] = << >>}
AcceptStuck == acc = "accept" /\ backlog = << >>

\* onUdpReceive() was under way when the main socket was reset, and used it.
Crashed == handler = "fault"

\* The tasks of the pool, and the one that onUdpReceive() is about to make.
Underway == {h \in {"begun", "has", "null"} : handler = h}
Work == IF Underway = {} THEN flight ELSE flight + 1

\* Once the main socket is reset, nobody begins to handle a query, whose task would
\* use that socket: neither a receiver woken by a late datagram nor the io_context
\* thread.  Only what it was handling at that moment may still become a task.
NoWorkAfterClose == [][stopper = "closed" => Work' <= Work]_vars
===============================================================================
