------------------------------- MODULE FrontEnds -------------------------------
(***************************************************************************)
(* The two HTTP front ends that main() starts and stops next to DnsServer. *)
(*                                                                         *)
(* HttpsServer: a detached thread in a blocking accept(), one detached     *)
(* thread per connection, which forwards the query over UDP without a      *)
(* timeout.  stop() clears running_ and closes the acceptor; it neither    *)
(* wakes nor joins the listener, and a thread that blocks in accept() on   *)
(* Linux keeps the closed socket listening until it returns.               *)
(*                                                                         *)
(* MonitorServer: the same loop in a thread that stop() joins after it has *)
(* connected to 127.0.0.1 at its port to end the accept().  A request is   *)
(* answered at once (what it renders changes nothing), a stream goes on    *)
(* until the client leaves or running_ is cleared.                         *)
(***************************************************************************)
EXTENDS Naturals

CONSTANTS
    Clients,        \* connections to the HTTPS port
    MaxViews,       \* bound on connections to the monitor
    MonitorLocal    \* the monitor listens on 127.0.0.1 or on every interface

VARIABLES
    hrun, hopen,    \* HttpsServer: running_, the acceptor is open
    hstop,          \* HttpsServer::stop() was called
    hacc,           \* the thread in HttpsServer::listenAndServe()
    hreq,           \* hreq[c]: where connection c is
    late,           \* connections accepted after HttpsServer::stop()
    mrun,           \* MonitorServer: running_
    mon,            \* acceptThread_
    mback, views,   \* connections waiting for the monitor, and made so far
    stream          \* a thread in handleStream()

httpsVars   == <<hrun, hopen, hstop, hacc, hreq, late>>
monitorVars == <<mrun, mon, mback, views, stream>>
frontVars   == <<httpsVars, monitorVars>>

HttpsInit ==
    /\ hrun = TRUE /\ hopen = TRUE /\ hstop = FALSE /\ hacc = "test"
    /\ hreq = [c \in Clients |-> "none"] /\ late = 0

\* Not enabled by the configuration.
HttpsAbsent ==
    /\ hrun = FALSE /\ hopen = FALSE /\ hstop = TRUE /\ hacc = "gone"
    /\ hreq = [c \in Clients |-> "none"] /\ late = 0

MonitorInit ==
    /\ mrun = TRUE /\ mon = "test"
    /\ mback = 0 /\ stream = FALSE

-------------------------------------------------------------------------------
(* HttpsServer *)

\* The kernel completes connections as long as somebody keeps the socket.
HttpsConnect(c) ==
    /\ hreq[c] = "none"
    /\ hopen \/ hacc = "accept"
    /\ hreq' = [hreq EXCEPT ![c] = "backlog"]
    /\ UNCHANGED <<hrun, hopen, hstop, hacc, late, monitorVars>>

\* while (running_)
HttpsTest ==
    /\ hacc = "test"
    /\ hacc' = IF hrun THEN "enter" ELSE "gone"
    /\ UNCHANGED <<hrun, hopen, hstop, hreq, late, monitorVars>>

\* accept() on a closed acceptor fails at once, on an open one it blocks.
HttpsEnter ==
    /\ hacc = "enter"
    /\ hacc' = IF hopen THEN "accept" ELSE "gone"
    /\ UNCHANGED <<hrun, hopen, hstop, hreq, late, monitorVars>>

HttpsAccept(c) ==
    /\ hacc = "accept" /\ hreq[c] = "backlog"
    /\ hacc' = "test"
    /\ hreq' = [hreq EXCEPT ![c] = "read"]
    /\ late' = IF hstop THEN late + 1 ELSE late
    /\ UNCHANGED <<hrun, hopen, hstop, monitorVars>>

\* Any error of accept(), such as too many open files, ends the loop for good.
HttpsAcceptError ==
    /\ hacc = "accept"
    /\ hacc' = "gone"
    /\ UNCHANGED <<hrun, hopen, hstop, hreq, late, monitorVars>>

\* The connection's thread: a DNS message in a POST is forwarded, anything else is
\* refused with a status; a body that does not parse throws and is not answered.
HttpsRead(c) ==
    /\ hreq[c] = "read"
    /\ \E next \in {"forward", "answered", "dropped"} : hreq' = [hreq EXCEPT ![c] = next]
    /\ UNCHANGED <<hrun, hopen, hstop, hacc, late, monitorVars>>

\* Resolve and send, or fail: a failure is answered with SERVFAIL.
HttpsForward(c) ==
    /\ hreq[c] = "forward"
    /\ \E next \in {"wait", "answered"} : hreq' = [hreq EXCEPT ![c] = next]
    /\ UNCHANGED <<hrun, hopen, hstop, hacc, late, monitorVars>>

\* receive_from() returns, and what does not parse becomes SERVFAIL too; if the
\* datagram is lost, the thread waits for ever.
HttpsUpstream(c) ==
    /\ hreq[c] = "wait"
    /\ hreq' = [hreq EXCEPT ![c] = "answered"]
    /\ UNCHANGED <<hrun, hopen, hstop, hacc, late, monitorVars>>

\* Mutant: stop() only stops the io_context, which the listener does not run on.
HttpsStopIoOnly ==
    /\ hstop' = TRUE
    /\ UNCHANGED <<hrun, hopen, hacc, hreq, late, monitorVars>>

HttpsStop ==
    /\ hrun' = FALSE /\ hopen' = FALSE /\ hstop' = TRUE
    /\ UNCHANGED <<hacc, hreq, late, monitorVars>>

HttpsListener == HttpsTest \/ HttpsEnter \/ \E c \in Clients : HttpsAccept(c)

-------------------------------------------------------------------------------
(* MonitorServer *)

MonitorConnect ==
    /\ mrun /\ views < MaxViews
    /\ views' = views + 1 /\ mback' = mback + 1
    /\ UNCHANGED <<httpsVars, mrun, mon, stream>>

MonitorTest ==
    /\ mon = "test"
    /\ mon' = IF mrun THEN "accept" ELSE "gone"
    /\ UNCHANGED <<httpsVars, mrun, mback, views, stream>>

\* A client is served by a thread of its own, which may go on streaming.
MonitorAccept ==
    /\ mon = "accept" /\ mback > 0
    /\ mon' = "test" /\ mback' = mback - 1
    /\ stream' \in {stream, TRUE}
    /\ UNCHANGED <<httpsVars, mrun, views>>

\* The client leaves, or the loop of handleStream() sees running_ cleared.
StreamEnds ==
    /\ stream
    /\ stream' = FALSE
    /\ UNCHANGED <<httpsVars, mrun, mon, mback, views>>

\* Mutant: stop() does not connect to itself.
MonitorStopSilent ==
    /\ mrun' = FALSE
    /\ UNCHANGED <<httpsVars, mon, mback, views, stream>>

\* stop() up to the join.  Its own connection arrives only if the monitor
\* listens where it calls.
MonitorStop ==
    /\ mrun' = FALSE
    /\ mback' = IF MonitorLocal THEN mback + 1 ELSE mback
    /\ UNCHANGED <<httpsVars, mon, views, stream>>

MonitorListener == MonitorTest \/ MonitorAccept

-------------------------------------------------------------------------------
FrontNext ==
    \/ \E c \in Clients : \/ HttpsConnect(c) \/ HttpsRead(c)
                          \/ HttpsForward(c) \/ HttpsUpstream(c)
    \/ HttpsListener \/ HttpsAcceptError
    \/ MonitorConnect \/ MonitorListener \/ StreamEnds

FrontFairness ==
    /\ WF_frontVars(HttpsListener) /\ WF_frontVars(MonitorListener)

FrontTypeOK ==
    /\ {hrun, hopen, hstop, mrun, stream} \subseteq BOOLEAN
    /\ hacc \in {"test", "enter", "accept", "gone"}
    /\ hreq \in [Clients -> {"none", "backlog", "read", "forward", "wait", "answered", "dropped"}]
    /\ mon \in {"test", "accept", "gone"}
    /\ mback \in 0..(MaxViews + 1) /\ views \in 0..MaxViews
    /\ late \in Nat

\* After stop() the HTTPS port gives at most one more connection, however many
\* clients come: the one the blocked accept() returns.
AtMostOneLate == late <= 1
===============================================================================
