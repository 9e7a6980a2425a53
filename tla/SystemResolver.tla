---------------------------- MODULE SystemResolver ----------------------------
(***************************************************************************)
(* system_resolver.cpp: query() tries getaddrinfo(), raw UDP and DoH in    *)
(* turn, guided by three flags that a probe thread (and the first query)   *)
(* sets and that may be stale at any moment.  The flags are read one by    *)
(* one between calls that take seconds, while the probe thread and the     *)
(* network go on.                                                          *)
(*                                                                         *)
(* The network is a variable of its own: getaddrinfo() answers, fails or   *)
(* hangs (when the system resolver forwards back to this server); UDP and  *)
(* DoH upstreams are reachable or not.                                     *)
(***************************************************************************)
EXTENDS Naturals

CONSTANTS
    Threads,      \* callers of query()
    GaiEvery,     \* getaddrinfo() is probed again every 5 cycles ...
    GaiRetries,   \* ... at most 6 times
    MaxChanges,   \* bound on network changes
    None

ASSUME ResolverAssumption ==
    /\ {GaiEvery, GaiRetries} \subseteq Nat \ {0}
    /\ MaxChanges \in Nat
    /\ None \notin {"reply", "servfail"}

Network == [gai : {"ok", "fail", "hang"}, udp : BOOLEAN, doh : BOOLEAN]

VARIABLES
    net,          \* the network
    changes,      \* how often it has changed
    udpWorks,     \* udpWorks_
    gaiWorks,     \* getaddrinfoWorks_
    gaiTested,    \* getaddrinfoTested_
    probe,        \* where probeLoop() is
    cycles,       \* probeCycles modulo GaiEvery
    retries,      \* getaddrinfoRetries
    q             \* per caller: where query() is, what it has tried, its result

vars == <<net, changes, udpWorks, gaiWorks, gaiTested, probe, cycles, retries, q>>
flags == <<udpWorks, gaiWorks, gaiTested>>

\* first: getaddrinfo() had not been tested when the query looked; dohUp: DoH has
\* been reachable since the query began.
NoQuery == [pc |-> "idle", first |-> FALSE, dohUp |-> FALSE, ans |-> None]

Goto(t, pc) == [q EXCEPT ![t].pc = pc]
Return(t, ans) == [q EXCEPT ![t].pc = "done", ![t].ans = ans]

-------------------------------------------------------------------------------
\* The state after init(): the probe thread is at the top of probeLoop().
Init ==
    /\ net \in Network
    /\ changes = 0
    /\ udpWorks = FALSE
    /\ gaiWorks = FALSE
    /\ gaiTested = FALSE
    /\ probe = "start"
    /\ cycles = 0
    /\ retries = 0
    /\ q = [t \in Threads |-> NoQuery]

NetworkChanges(n) ==
    /\ changes < MaxChanges
    /\ n # net
    /\ net' = n
    /\ changes' = changes + 1
    /\ q' = [t \in Threads |-> [q[t] EXCEPT !.dohUp = @ /\ n.doh]]
    /\ UNCHANGED <<flags, probe, cycles, retries>>

-------------------------------------------------------------------------------
(* query() *)

\* The first decision: getaddrinfo() for A and AAAA, unless it is known not to
\* work.  While it is untested every query tries it.
Ask(t, address) ==
    /\ q[t].pc = "idle"
    /\ q' = [q EXCEPT ![t] = [NoQuery EXCEPT
                !.pc = IF address /\ (~gaiTested \/ gaiWorks) THEN "gai" ELSE "udpFlag",
                !.first = ~gaiTested,
                !.dohUp = net.doh]]
    /\ UNCHANGED <<net, changes, flags, probe, cycles, retries>>

\* getaddrinfo() returns addresses: a first query then sets both flags.
GaiAnswers(t) ==
    /\ q[t].pc = "gai"
    /\ net.gai = "ok"
    /\ gaiWorks' = (gaiWorks \/ q[t].first)
    /\ gaiTested' = (gaiTested \/ q[t].first)
    /\ q' = Return(t, "reply")
    /\ UNCHANGED <<net, changes, udpWorks, probe, cycles, retries>>

\* It returns nothing: no such name, or a failure.
GaiFails(t) ==
    /\ q[t].pc = "gai"
    /\ net.gai # "hang"
    /\ q' = Goto(t, "udpFlag")
    /\ UNCHANGED <<net, changes, flags, probe, cycles, retries>>

\* It hung and gives up by the system's own timeouts.
GaiHangs(t) ==
    /\ q[t].pc = "gai"
    /\ net.gai = "hang"
    /\ q' = Goto(t, "udpFlag")
    /\ UNCHANGED <<net, changes, flags, probe, cycles, retries>>

\* if (udpWorks_)
UdpFlag(t) ==
    /\ q[t].pc = "udpFlag"
    /\ q' = Goto(t, IF udpWorks THEN "udp" ELSE "doh")
    /\ UNCHANGED <<net, changes, flags, probe, cycles, retries>>

\* queryUdp() returns a reply that is returned; or SERVFAIL, or nullptr after the
\* timeouts of all servers.
UdpReply(t) ==
    /\ q[t].pc = "udp"
    /\ net.udp
    /\ q' = Return(t, "reply")
    /\ UNCHANGED <<net, changes, flags, probe, cycles, retries>>

\* Mutant: a failed strategy is the end of the query.
UdpGivesUp(t) ==
    /\ q[t].pc = "udp"
    /\ q' = Return(t, "servfail")
    /\ UNCHANGED <<net, changes, flags, probe, cycles, retries>>

UdpFails(t) ==
    /\ q[t].pc = "udp"
    /\ q' = Goto(t, "doh")
    /\ UNCHANGED <<net, changes, flags, probe, cycles, retries>>

\* queryDoh(): a reply of one of the upstreams, or nullptr.
Doh(t) ==
    /\ q[t].pc = "doh"
    /\ q' = IF net.doh THEN Return(t, "reply") ELSE Goto(t, "lastFlag")
    /\ UNCHANGED <<net, changes, flags, probe, cycles, retries>>

\* Mutant: a flag that came up meanwhile sends the query round again.
LastFlagRetries(t) ==
    /\ q[t].pc = "lastFlag"
    /\ q' = Goto(t, IF udpWorks THEN "udpFlag" ELSE "lastUdp")
    /\ UNCHANGED <<net, changes, flags, probe, cycles, retries>>

\* if (!udpWorks_): the flag is read again.
LastFlag(t) ==
    /\ q[t].pc = "lastFlag"
    /\ q' = IF udpWorks THEN Return(t, "servfail") ELSE Goto(t, "lastUdp")
    /\ UNCHANGED <<net, changes, flags, probe, cycles, retries>>

\* One more queryUdp(), which packet loss may defeat on a working network too.
LastUdp(t) ==
    /\ q[t].pc = "lastUdp"
    /\ \E ans \in IF net.udp THEN {"reply", "servfail"} ELSE {"servfail"} :
          q' = Return(t, ans)
    /\ UNCHANGED <<net, changes, flags, probe, cycles, retries>>

\* The caller goes on to its next query.
NextQuery(t) ==
    /\ q[t].pc = "done"
    /\ q' = [q EXCEPT ![t] = NoQuery]
    /\ UNCHANGED <<net, changes, flags, probe, cycles, retries>>

Query(t) ==
    \/ GaiAnswers(t) \/ GaiFails(t) \/ UdpFlag(t) \/ UdpReply(t) \/ UdpFails(t)
    \/ Doh(t) \/ LastFlag(t) \/ LastUdp(t)

-------------------------------------------------------------------------------
(* probeLoop() *)

\* probeUdp(): one packet to each server and two seconds for the answer, so loss of
\* packets (~through) makes a network that is up look down.
ProbeUdp(through) == net.udp /\ through

\* The first UDP probe; getaddrinfo() follows unless a query has tested it.
ProbeStart(through) ==
    /\ probe = "start"
    /\ udpWorks' = ProbeUdp(through)
    /\ probe' = IF gaiTested THEN "sleep" ELSE "gai"
    /\ UNCHANGED <<net, changes, gaiWorks, gaiTested, cycles, retries, q>>

\* wait_for(2s): ready, or timed out.  The future of std::async() blocks in its
\* destructor until the call returns, after the flags are set.
ProbeGai ==
    /\ probe = "gai"
    /\ gaiWorks' = (net.gai = "ok")
    /\ gaiTested' = TRUE
    /\ probe' = IF net.gai = "hang" THEN "future" ELSE "sleep"
    /\ UNCHANGED <<net, changes, udpWorks, cycles, retries, q>>

FutureReturns ==
    /\ probe = "future"
    /\ probe' = "sleep"
    /\ UNCHANGED <<net, changes, flags, cycles, retries, q>>

\* Mutant: the flag is only ever set.
ProbeCycleUpOnly(through) ==
    LET again == ~gaiWorks /\ retries < GaiRetries /\ cycles + 1 = GaiEvery IN
    /\ probe = "sleep"
    /\ udpWorks' = (udpWorks \/ ProbeUdp(through))
    /\ cycles' = (cycles + 1) % GaiEvery
    /\ retries' = IF again THEN retries + 1 ELSE retries
    /\ probe' = IF again THEN "gaiAgain" ELSE "sleep"
    /\ UNCHANGED <<net, changes, gaiWorks, gaiTested, q>>

\* Every 60 seconds: the UDP flag follows the probe; every GaiEvery cycles
\* getaddrinfo() is tried again, if it is down and retries are left.
ProbeCycle(through) ==
    LET again == ~gaiWorks /\ retries < GaiRetries /\ cycles + 1 = GaiEvery IN
    /\ probe = "sleep"
    /\ udpWorks' = ProbeUdp(through)
    /\ cycles' = (cycles + 1) % GaiEvery
    /\ retries' = IF again THEN retries + 1 ELSE retries
    /\ probe' = IF again THEN "gaiAgain" ELSE "sleep"
    /\ UNCHANGED <<net, changes, gaiWorks, gaiTested, q>>

ProbeGaiAgain ==
    /\ probe = "gaiAgain"
    /\ gaiWorks' = (gaiWorks \/ net.gai = "ok")
    /\ probe' = IF net.gai = "hang" THEN "future" ELSE "sleep"
    /\ UNCHANGED <<net, changes, udpWorks, gaiTested, cycles, retries, q>>

Probe == (\E through \in BOOLEAN : ProbeStart(through) \/ ProbeCycle(through))
           \/ ProbeGai \/ ProbeGaiAgain

-------------------------------------------------------------------------------
Next ==
    \/ \E n \in Network : NetworkChanges(n)
    \/ \E t \in Threads : Query(t) \/ GaiHangs(t) \/ NextQuery(t)
    \/ \E t \in Threads, address \in BOOLEAN : Ask(t, address)
    \/ Probe \/ FutureReturns

Spec == Init /\ [][Next]_vars

\* Sockets and libcurl have timeouts, so every call of query() returns and the
\* probe goes on; nobody has to ask and the network has to do nothing.  HangsEnd:
\* a getaddrinfo() that hangs gives up after the timeouts of the system.  SomeGetThrough:
\* packets are not lost in every cycle of the probe for ever.
Fairness == WF_vars(Probe) /\ \A t \in Threads : WF_vars(Query(t))
HangsEnd == WF_vars(FutureReturns) /\ \A t \in Threads : WF_vars(GaiHangs(t))
SomeGetThrough == SF_vars(ProbeCycle(TRUE))

FairSpec == Spec /\ Fairness /\ HangsEnd /\ SomeGetThrough

-------------------------------------------------------------------------------
(* Properties *)

TypeOK ==
    /\ net \in Network
    /\ changes \in 0..MaxChanges
    /\ {udpWorks, gaiWorks, gaiTested} \subseteq BOOLEAN
    /\ probe \in {"start", "gai", "future", "sleep", "gaiAgain"}
    /\ cycles \in 0..(GaiEvery - 1)
    /\ retries \in 0..GaiRetries
    /\ q \in [Threads ->
          [pc : {"idle", "gai", "udpFlag", "udp", "doh", "lastFlag", "lastUdp", "done"},
           first : BOOLEAN, dohUp : BOOLEAN, ans : {None, "reply", "servfail"}]]

\* However stale the flags are and however they change during the query, a query
\* is not refused if DoH was reachable all along.
AnsweredIfDohUp == \A t \in Threads : q[t].ans = "servfail" => ~q[t].dohUp

\* Every query returns, on every network, whatever the flags do meanwhile.
QueryReturns == \A t \in Threads : (q[t].pc # "idle") ~> (q[t].pc = "done")

\* The UDP flag follows the network, whatever getaddrinfo() does to the probe thread
\* and whatever packets are lost: if UDP is gone for good the flag goes down and stays
\* down, and while UDP is back for good the flag comes up again after every loss that
\* takes it down.
UdpFlagAdapts ==
    /\ <>[]~net.udp => <>[]~udpWorks
    /\ <>[]net.udp => []<>udpWorks
===============================================================================
