------------------------- MODULE SystemResolverProofs -------------------------
(***************************************************************************)
(* No query is refused while DoH is reachable, for every number of callers *)
(* and changes of the network, and whatever the probe makes of the flags.  *)
(***************************************************************************)
EXTENDS SystemResolver, TLAPS

QueryType ==
    [pc : {"idle", "gai", "udpFlag", "udp", "doh", "lastFlag", "lastUdp", "done"},
     first : BOOLEAN, dohUp : BOOLEAN, ans : {None, "reply", "servfail"}]

QueryStep(t) == Query(t) \/ GaiHangs(t) \/ NextQuery(t)

\* A step of query() leaves every query one of its kind.
LEMMA QueryKeepsType ==
    ASSUME q \in [Threads -> QueryType], NEW t \in Threads, QueryStep(t)
    PROVE  q' \in [Threads -> QueryType]
<1>1. ASSUME NEW pc \in {"udpFlag", "udp", "doh", "lastFlag", "lastUdp"}
      PROVE  Goto(t, pc) \in [Threads -> QueryType]
  BY <1>1 DEF Goto, QueryType
<1>2. ASSUME NEW ans \in {"reply", "servfail"}
      PROVE  Return(t, ans) \in [Threads -> QueryType]
  BY <1>2 DEF Return, QueryType
<1>3. [q EXCEPT ![t] = NoQuery] \in [Threads -> QueryType]
  BY DEF NoQuery, QueryType
<1>4. \/ \E pc \in {"udpFlag", "udp", "doh", "lastFlag", "lastUdp"} : q' = Goto(t, pc)
      \/ \E ans \in {"reply", "servfail"} : q' = Return(t, ans)
      \/ q' = [q EXCEPT ![t] = NoQuery]
  BY DEF QueryStep, Query, GaiAnswers, GaiFails, GaiHangs, UdpFlag, UdpReply, UdpFails, Doh,
         LastFlag, LastUdp, NextQuery
<1> QED
  BY <1>1, <1>2, <1>3, <1>4

LEMMA TypeInit == Init => TypeOK
<1> SUFFICES ASSUME Init PROVE TypeOK
  OBVIOUS
<1>1. NoQuery \in [pc : {"idle", "gai", "udpFlag", "udp", "doh", "lastFlag", "lastUdp", "done"},
                   first : BOOLEAN, dohUp : BOOLEAN, ans : {None, "reply", "servfail"}]
  BY DEF NoQuery
<1>2. 0 \in 0..MaxChanges /\ 0 \in 0..(GaiEvery - 1) /\ 0 \in 0..GaiRetries
  BY ResolverAssumption
<1> QED
  BY <1>1, <1>2 DEF Init, TypeOK

LEMMA TypeStep == TypeOK /\ [Next]_vars => TypeOK'
<1> SUFFICES ASSUME TypeOK, [Next]_vars PROVE TypeOK'
  OBVIOUS
<1> USE DEF TypeOK
<1>1. ASSUME NEW n \in Network, NetworkChanges(n) PROVE TypeOK'
  <2>1. changes' \in 0..MaxChanges
    BY <1>1, ResolverAssumption DEF NetworkChanges
  <2>2. n.doh \in BOOLEAN
    BY DEF Network
  <2> QED
    BY <1>1, <2>1, <2>2 DEF NetworkChanges, flags
<1>2. ASSUME NEW t \in Threads, QueryStep(t) PROVE TypeOK'
  <2>1. q \in [Threads -> QueryType] /\ q[t] \in QueryType
    BY DEF QueryType
  <2>2. q' \in [Threads -> QueryType]
    BY <1>2, <2>1, QueryKeepsType
  <2>3. UNCHANGED <<net, changes, udpWorks, probe, cycles, retries>>
    BY <1>2 DEF QueryStep, Query, GaiAnswers, GaiFails, GaiHangs, UdpFlag, UdpReply, UdpFails, Doh,
                LastFlag, LastUdp, NextQuery, flags
  <2>4. gaiWorks' \in BOOLEAN /\ gaiTested' \in BOOLEAN
    BY <1>2 DEF QueryStep, Query, GaiAnswers, GaiFails, GaiHangs, UdpFlag, UdpReply, UdpFails, Doh,
                LastFlag, LastUdp, NextQuery, flags
  <2> QED
    BY <2>2, <2>3, <2>4 DEF QueryType
<1>3. ASSUME NEW t \in Threads, NEW address \in BOOLEAN, Ask(t, address) PROVE TypeOK'
  <2>1. net.doh \in BOOLEAN
    BY DEF Network
  <2> QED
    BY <1>3, <2>1 DEF Ask, NoQuery, flags
<1>4. CASE Probe \/ FutureReturns
  <2>1. net.udp \in BOOLEAN
    BY DEF Network
  <2>2. ASSUME NEW through \in BOOLEAN, ProbeCycle(through) PROVE TypeOK'
    <3>1. cycles' \in 0..(GaiEvery - 1) /\ retries' \in 0..GaiRetries
      BY <2>2, ResolverAssumption DEF ProbeCycle
    <3> QED
      BY <2>1, <2>2, <3>1 DEF ProbeCycle, ProbeUdp
  <2>3. ASSUME NEW through \in BOOLEAN, ProbeStart(through) PROVE TypeOK'
    BY <2>1, <2>3 DEF ProbeStart, ProbeUdp
  <2>4. CASE ProbeGai \/ ProbeGaiAgain \/ FutureReturns
    BY <2>4 DEF ProbeGai, ProbeGaiAgain, FutureReturns, flags
  <2> QED
    BY <1>4, <2>2, <2>3, <2>4 DEF Probe
<1>5. CASE UNCHANGED vars
  BY <1>5 DEF vars
<1> QED
  BY <1>1, <1>2, <1>3, <1>4, <1>5 DEF Next, QueryStep

\* Type correctness: the flags, the place of the probe and its counters of retries.
THEOREM TypeCorrect == Spec => []TypeOK
BY TypeInit, TypeStep, PTL DEF Spec

-------------------------------------------------------------------------------
\* What a query knows of DoH: dohUp is only still set if DoH is reachable now, a query
\* that has got past queryDoh() has seen it down, and only a query that has
\* got past it is refused.
PastDoh == {"lastFlag", "lastUdp"}

DohSeen ==
    \A t \in Threads :
        /\ q[t].pc \in {"gai", "udpFlag", "udp", "doh"} \cup PastDoh => (q[t].dohUp => net.doh)
        /\ q[t].pc \in PastDoh => ~q[t].dohUp
        /\ q[t].ans = "servfail" => ~q[t].dohUp

LEMMA DohSeenInit == Init => DohSeen
<1> SUFFICES ASSUME Init, NEW t \in Threads
             PROVE  q[t].pc = "idle" /\ q[t].dohUp = FALSE
  BY DEF DohSeen, PastDoh
<1> QED
  BY DEF Init, NoQuery

LEMMA DohSeenStep ==
    ASSUME TypeOK, DohSeen, [Next]_vars
    PROVE  DohSeen'
<1>1. ASSUME NEW n \in Network, NetworkChanges(n) PROVE DohSeen'
  BY <1>1 DEF NetworkChanges, DohSeen, TypeOK, PastDoh
<1>2. ASSUME NEW t \in Threads, QueryStep(t) PROVE DohSeen'
  <2>1. q \in [Threads -> QueryType] /\ q[t] \in QueryType
    BY DEF TypeOK, QueryType
  <2>2. net' = net
    BY <1>2 DEF QueryStep, Query, GaiAnswers, GaiFails, GaiHangs, UdpFlag, UdpReply, UdpFails, Doh,
                LastFlag, LastUdp, NextQuery
  <2> USE <2>1, <2>2 DEF QueryType, DohSeen, PastDoh
  <2>3. CASE GaiAnswers(t) \/ UdpReply(t)
    BY <2>3 DEF GaiAnswers, UdpReply, Return
  <2>4. CASE GaiFails(t) \/ GaiHangs(t) \/ UdpFails(t)
    BY <2>4 DEF GaiFails, GaiHangs, UdpFails, Goto
  <2>5. CASE UdpFlag(t)
    BY <2>5 DEF UdpFlag, Goto
  \* queryDoh() fails only if DoH is down, and then it was not up all along.
  <2>6. CASE Doh(t)
    BY <2>6 DEF Doh, Goto, Return
  <2>7. CASE LastFlag(t)
    BY <2>7 DEF LastFlag, Goto, Return
  <2>8. CASE LastUdp(t)
    BY <2>8 DEF LastUdp, Return
  <2>9. CASE NextQuery(t)
    BY <2>9 DEF NextQuery, NoQuery
  <2> QED
    BY <1>2, <2>3, <2>4, <2>5, <2>6, <2>7, <2>8, <2>9 DEF QueryStep, Query
<1>3. ASSUME NEW t \in Threads, NEW address \in BOOLEAN, Ask(t, address) PROVE DohSeen'
  BY <1>3, ResolverAssumption DEF Ask, NoQuery, DohSeen, TypeOK, PastDoh
<1>4. CASE Probe \/ FutureReturns
  BY <1>4 DEF Probe, ProbeStart, ProbeGai, ProbeCycle, ProbeGaiAgain, FutureReturns, DohSeen, PastDoh
<1>5. CASE UNCHANGED vars
  BY <1>5 DEF vars, DohSeen, PastDoh
<1> QED
  BY <1>1, <1>2, <1>3, <1>4, <1>5 DEF Next, QueryStep

\* No query is refused if DoH was reachable all along, whatever the three flags said
\* each time it read them.
THEOREM NotRefusedWhileDohUp == Spec => []AnsweredIfDohUp
<1>1. TypeOK /\ DohSeen /\ [Next]_vars => DohSeen'
  BY DohSeenStep
<1>2. DohSeen => AnsweredIfDohUp
  BY DEF DohSeen, AnsweredIfDohUp
<1> QED
  BY <1>1, <1>2, DohSeenInit, TypeCorrect, PTL DEF Spec
===============================================================================
