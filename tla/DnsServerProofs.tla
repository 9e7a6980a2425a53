--------------------------- MODULE DnsServerProofs ---------------------------
(***************************************************************************)
(* Routing for every list of overrides, every name and every order in      *)
(* which the hash table gives its entries; then the shutdown of the        *)
(* process around the server (module MainProcess), for every number of     *)
(* workers, clients, signals and polls and every configuration.            *)
(***************************************************************************)
EXTENDS DnsServer, MainProcess, TLAPS, FiniteSetTheorems, FunctionTheorems, WellFoundedInduction

-------------------------------------------------------------------------------
(* Finding the most specific entry *)

\* A nonempty set of numbers has a least one, which stands in for induction below.
LEMMA LeastElement ==
    ASSUME NEW T \in SUBSET Nat, T # {}
    PROVE  \E x \in T : \A y \in T : x <= y
<1> DEFINE R == {ss \in Nat \X Nat : ss[1] < ss[2]}
<1>1. IsWellFoundedOn(R, Nat)
  BY NatLessThanWellFounded DEF OpToRel
<1>2. \E x \in T : \A y \in T : ~ (<<y, x>> \in R)
  <2> HIDE DEF R
  <2> QED
    BY <1>1, WFMin
<1>3. \A x, y \in T : ~ (<<y, x>> \in R) => x <= y
  OBVIOUS
<1> QED
  BY <1>2, <1>3

LEMMA FiniteKeys == IsFiniteSet(Keys) /\ Cardinality(Keys) \in Nat
<1> DEFINE canon == [i \in Written |-> Canonicalize(Flag[i].domain)]
<1>1. IsFiniteSet(Written)
  <2>1. IsFiniteSet(1..Len(Flag)) /\ Written \in SUBSET (1..Len(Flag))
    BY FS_Interval, DomainAssumption DEF Written
  <2> QED
    BY <2>1, FS_Subset
<1>2. canon \in Surjection(Written, Keys)
  BY DEF Keys, Surjection
<1> HIDE DEF canon
<1> QED
  BY <1>1, <1>2, FS_Surjection, FS_CardinalityType

\* The states of the loop of getMostSpecific() over an order.
Start == [count |-> 0, val |-> None]
Turn(d, order, f, i) == IF i = 0 THEN Start ELSE BetterOf(d, f[i - 1], order[i])
IsRun(d, order, f, n) == f = [i \in 0..n |-> Turn(d, order, f, i)]

\* The recursion has a solution: one for n turns is extended by one turn.
LEMMA RunExists ==
    ASSUME NEW d, NEW order, NEW n \in Nat
    PROVE  \E f : IsRun(d, order, f, n)
<1> DEFINE bad == {m \in Nat : ~ \E f : IsRun(d, order, f, m)}
<1> SUFFICES ASSUME bad # {} PROVE FALSE
  OBVIOUS
<1>1. PICK m \in bad : \A y \in bad : m <= y
  BY LeastElement
<1>2. m # 0
  <2> DEFINE f == [i \in 0..0 |-> Start]
  <2>1. IsRun(d, order, f, 0)
    BY DEF IsRun, Turn
  <2> QED
    BY <1>1, <2>1
<1>3. m \in Nat /\ m - 1 \in Nat /\ m - 1 \notin bad
  BY <1>1, <1>2
<1>4. PICK g : IsRun(d, order, g, m - 1)
  BY <1>3
<1> DEFINE f == [i \in 0..m |-> IF i = m THEN BetterOf(d, g[m - 1], order[m]) ELSE g[i]]
<1>5. ASSUME NEW i \in 0..m PROVE f[i] = Turn(d, order, f, i)
  <2>1. CASE i = m
    <3>1. f[i - 1] = g[m - 1] /\ i # 0
      BY <1>2, <1>3, <2>1
    <3> QED
      BY <2>1, <3>1 DEF Turn
  <2>2. CASE i # m
    <3>1. i \in 0..(m - 1)
      BY <1>3, <2>2
    <3>2. g[i] = Turn(d, order, g, i)
      BY <1>4, <3>1 DEF IsRun
    <3>3. i # 0 => f[i - 1] = g[i - 1]
      BY <1>3, <3>1
    <3> QED
      BY <2>2, <3>2, <3>3 DEF Turn
  <2> QED
    BY <2>1, <2>2
<1>6. f = [i \in 0..m |-> Turn(d, order, f, i)]
  BY <1>5, Zenon
<1> QED
  BY <1>1, <1>6 DEF IsRun

\* getMostSpecific() ends in the last state of such a run.
LEMMA LoopRuns ==
    ASSUME NEW name, NEW order, Len(order) \in Nat
    PROVE  \E f : /\ IsRun(Canonicalize(name), order, f, Len(order))
                  /\ GetMostSpecific(name, order) = f[Len(order)].val
<1> DEFINE d == Canonicalize(name)
           best == CHOOSE f : f = [i \in 0..Len(order) |->
                                     IF i = 0 THEN [count |-> 0, val |-> None]
                                     ELSE BetterOf(d, f[i - 1], order[i])]
<1>1. best = CHOOSE f : IsRun(d, order, f, Len(order))
  BY DEF IsRun, Turn, Start
<1>2. IsRun(d, order, best, Len(order))
  BY <1>1, RunExists
<1>3. GetMostSpecific(name, order) = best[Len(order)].val
  BY DEF GetMostSpecific
<1> QED
  BY <1>2, <1>3

\* What the loop knows after i turns: whatever matched so far has no more labels than
\* its best, which is one of those that matched.
Best(d, order, b, i) ==
    /\ b.count \in Nat
    /\ \A j \in 1..i : IsSubDomain(d, order[j]) => CountLabels(order[j]) <= b.count
    /\ \/ b = Start
       \/ \E j \in 1..i : /\ IsSubDomain(d, order[j])
                          /\ b = [count |-> CountLabels(order[j]), val |-> ValueOf(order[j])]

LEMMA KeysAreNames == Keys \subseteq Seq(Labels)
BY DomainAssumption DEF Keys, Written, Canonicalize

LEMMA LabelsCount == \A key \in Keys : CountLabels(key) \in Nat \ {0}
BY KeysAreNames DEF CountLabels

LEMMA LoopKeepsBest ==
    ASSUME NEW d, NEW order \in Orders, NEW f, NEW n \in Nat, n = Cardinality(Keys),
           IsRun(d, order, f, n)
    PROVE  Best(d, order, f[n], n)
<1> DEFINE bad == {i \in 0..n : ~ Best(d, order, f[i], i)}
<1> SUFFICES ASSUME bad # {} PROVE FALSE
  OBVIOUS
<1>0. bad \in SUBSET Nat
  OBVIOUS
<1>1. PICK m \in bad : \A y \in bad : m <= y
  <2> HIDE DEF bad
  <2> QED
    BY <1>0, LeastElement
<1>2. \A i \in 0..n : f[i] = Turn(d, order, f, i)
  BY DEF IsRun
<1>3. m # 0
  <2>1. f[0] = Start
    BY <1>2 DEF Turn
  <2>2. 1..0 = {} /\ Start.count \in Nat
    BY DEF Start
  <2>3. Best(d, order, f[0], 0)
    BY <2>1, <2>2 DEF Best
  <2> QED
    BY <1>1, <2>3
<1>4. m \in 1..n /\ m - 1 \in 0..n /\ m - 1 \notin bad
  BY <1>1, <1>3
<1>5. order[m] \in Keys
  BY <1>4 DEF Orders
<1>6. CountLabels(order[m]) \in Nat
  BY <1>5, LabelsCount
<1>7. Best(d, order, f[m - 1], m - 1)
  BY <1>4
<1>8. f[m] = BetterOf(d, f[m - 1], order[m])
  BY <1>2, <1>3, <1>4 DEF Turn
<1>9. 1..m = (1..(m - 1)) \cup {m}
  BY <1>4
<1>10. CASE IsSubDomain(d, order[m]) /\ CountLabels(order[m]) > f[m - 1].count
  <2>1. f[m] = [count |-> CountLabels(order[m]), val |-> ValueOf(order[m])]
    BY <1>8, <1>10 DEF BetterOf
  <2>2. \A j \in 1..m : IsSubDomain(d, order[j]) => CountLabels(order[j]) <= CountLabels(order[m])
    <3> SUFFICES ASSUME NEW j \in 1..m, IsSubDomain(d, order[j])
                 PROVE  CountLabels(order[j]) <= CountLabels(order[m])
      OBVIOUS
    <3>1. order[j] \in Keys
      BY <1>4 DEF Orders
    <3>2. CountLabels(order[j]) \in Nat
      BY <3>1, LabelsCount
    <3> QED
      BY <1>6, <1>7, <1>9, <1>10, <3>2 DEF Best
  <2>3. Best(d, order, f[m], m)
    BY <1>6, <1>9, <1>10, <2>1, <2>2 DEF Best
  <2> QED
    BY <1>1, <2>3
<1>11. CASE ~ (IsSubDomain(d, order[m]) /\ CountLabels(order[m]) > f[m - 1].count)
  <2>1. f[m] = f[m - 1]
    BY <1>8, <1>11 DEF BetterOf
  <2>2. IsSubDomain(d, order[m]) => CountLabels(order[m]) <= f[m].count
    BY <1>6, <1>7, <1>11, <2>1 DEF Best
  <2>3. Best(d, order, f[m], m)
    BY <1>7, <1>9, <2>1, <2>2 DEF Best
  <2> QED
    BY <1>1, <2>3
<1> QED
  BY <1>10, <1>11

\* The keys a name matches are its suffixes.
LEMMA SuffixMatches ==
    ASSUME NEW name \in Seq(Labels), NEW k \in {1} \cup DOMAIN name
    PROVE  /\ Canonicalize(Suffix(name, k)) \in Seq(Labels)
           /\ Len(Canonicalize(Suffix(name, k))) = Len(name) - k + 1
           /\ IsSubDomain(Canonicalize(name), Canonicalize(Suffix(name, k)))
<1> DEFINE l == Len(name) - k + 1
           key == Canonicalize(Suffix(name, k))
<1>1. Len(name) \in Nat /\ l \in Nat /\ k \in Nat /\ k >= 1 /\ DOMAIN name = 1..Len(name)
  OBVIOUS
<1>2. Suffix(name, k) \in Seq(Labels) /\ Len(Suffix(name, k)) = l
  BY <1>1 DEF Suffix
<1>3. \A i \in 1..l : Suffix(name, k)[i] = name[k + i - 1]
  BY <1>1 DEF Suffix
<1>4. key = [i \in 1..l |-> Lower[Suffix(name, k)[i]]]
  BY <1>2 DEF Canonicalize
<1>5. key \in Seq(Labels) /\ Len(key) = l
  BY <1>1, <1>2, <1>4, DomainAssumption
<1>6. Canonicalize(name) = [i \in 1..Len(name) |-> Lower[name[i]]] /\ Len(Canonicalize(name)) = Len(name)
  BY <1>1 DEF Canonicalize
<1>7. CASE k = 1
  <2>1. key = Canonicalize(name)
    BY <1>1, <1>3, <1>4, <1>6, <1>7
  <2> QED
    BY <1>5, <2>1 DEF IsSubDomain
<1>8. CASE k # 1
  <2>1. k \in 2..Len(name) /\ l >= 1 /\ l < Len(name)
    BY <1>1, <1>8
  <2>2. \A i \in DOMAIN key : key[i] = Canonicalize(name)[Len(name) - l + i]
    <3> SUFFICES ASSUME NEW i \in 1..l PROVE key[i] = Canonicalize(name)[Len(name) - l + i]
      BY <1>4
    <3>1. key[i] = Lower[name[k + i - 1]]
      BY <1>3, <1>4
    <3>2. Len(name) - l + i = k + i - 1 /\ k + i - 1 \in 1..Len(name)
      BY <1>1, <2>1
    <3> QED
      BY <1>6, <3>1, <3>2
  <2>3. key # << >>
    BY <1>5, <2>1
  <2> QED
    BY <1>5, <1>6, <2>1, <2>2, <2>3 DEF IsSubDomain
<1> QED
  BY <1>7, <1>8

LEMMA MatchIsSuffix ==
    ASSUME NEW name \in Seq(Labels), NEW key \in Seq(Labels), IsSubDomain(Canonicalize(name), key)
    PROVE  /\ Len(name) - Len(key) + 1 \in {1} \cup DOMAIN name
           /\ key = Canonicalize(Suffix(name, Len(name) - Len(key) + 1))
           /\ key = << >> => name = << >>
<1> DEFINE k == Len(name) - Len(key) + 1
           d == Canonicalize(name)
           end == Canonicalize(Suffix(name, k))
<1>1. Len(name) \in Nat /\ Len(key) \in Nat /\ DOMAIN name = 1..Len(name) /\ DOMAIN key = 1..Len(key)
  OBVIOUS
<1>2. d = [i \in 1..Len(name) |-> Lower[name[i]]] /\ Len(d) = Len(name)
  BY <1>1 DEF Canonicalize
<1>3. /\ k \in {1} \cup DOMAIN name /\ (key = << >> => name = << >>)
      /\ \A i \in 1..Len(key) : key[i] = d[Len(name) - Len(key) + i]
  <2>1. CASE d = key
    BY <1>1, <1>2, <2>1
  <2>2. CASE d # key
    <3>1. /\ key # << >> /\ Len(key) < Len(name)
          /\ \A i \in DOMAIN key : key[i] = d[Len(name) - Len(key) + i]
      BY <1>2, <2>2 DEF IsSubDomain
    <3>2. Len(key) # 0
      BY <3>1
    <3> QED
      BY <1>1, <3>1, <3>2
  <2> QED
    BY <2>1, <2>2
<1>4. end \in Seq(Labels) /\ Len(end) = Len(key)
  <2>1. k \in {1} \cup DOMAIN name
    BY <1>3
  <2>2. Len(name) - k + 1 = Len(key)
    BY <1>1
  <2> HIDE DEF k
  <2>3. end \in Seq(Labels) /\ Len(end) = Len(name) - k + 1
    BY <2>1, SuffixMatches
  <2> QED
    BY <2>2, <2>3
<1>5. \A i \in 1..Len(key) : end[i] = d[k + i - 1]
  <2>1. k \in Nat /\ k >= 1 /\ Len(Suffix(name, k)) = Len(key)
    BY <1>1, <1>3 DEF Suffix
  <2>2. \A i \in 1..Len(key) : Suffix(name, k)[i] = name[k + i - 1]
    BY <1>1, <1>3 DEF Suffix
  <2>3. Suffix(name, k) \in Seq(Labels)
    BY <1>1, <1>3 DEF Suffix
  <2>4. end = [i \in 1..Len(key) |-> Lower[Suffix(name, k)[i]]]
    BY <2>1, <2>3 DEF Canonicalize
  <2> QED
    BY <1>1, <1>2, <2>1, <2>2, <2>4
<1>6. \A i \in 1..Len(key) : end[i] = key[i]
  BY <1>1, <1>3, <1>5
<1>7. end = key
  BY <1>1, <1>4, <1>6
<1> QED
  BY <1>3, <1>7

\* getMostSpecific() finds the nearest ancestor with an entry, and its last entry, in
\* whatever order the table is walked.
THEOREM LookupIsNearest ==
    ASSUME NEW name \in Seq(Labels), NEW order \in Orders
    PROVE  GetMostSpecific(name, order) = Nearest(name)
<1> DEFINE d == Canonicalize(name)
           n == Cardinality(Keys)
           Place(key) == Len(name) - Len(key) + 1
           End(k) == Canonicalize(Suffix(name, k))
<1>1. n \in Nat /\ Len(order) = n
  BY FiniteKeys DEF Orders
<1>2. PICK f : IsRun(d, order, f, n) /\ GetMostSpecific(name, order) = f[n].val
  BY <1>1, LoopRuns
<1>3. Best(d, order, f[n], n)
  BY <1>1, <1>2, LoopKeepsBest
<1>4. ASSUME NEW k \in Ancestors(name)
      PROVE  /\ k \in {1} \cup DOMAIN name /\ End(k) \in Keys /\ IsSubDomain(d, End(k))
             /\ Len(End(k)) = Len(name) - k + 1
             /\ CountLabels(End(k)) <= f[n].count
  <2>1. k \in {1} \cup DOMAIN name /\ End(k) \in Keys
    BY DEF Ancestors
  <2>2. IsSubDomain(d, End(k)) /\ Len(End(k)) = Len(name) - k + 1
    BY <2>1, SuffixMatches
  <2>3. PICK j \in 1..n : order[j] = End(k)
    BY <2>1 DEF Orders
  <2> QED
    BY <1>3, <2>1, <2>2, <2>3 DEF Best
<1>5. ASSUME NEW j \in 1..n, IsSubDomain(d, order[j])
      PROVE  /\ order[j] \in Keys /\ Place(order[j]) \in Ancestors(name)
             /\ order[j] = End(Place(order[j]))
             /\ order[j] = << >> => name = << >>
  <2>1. order[j] \in Keys /\ order[j] \in Seq(Labels)
    BY KeysAreNames DEF Orders
  <2>2. /\ Place(order[j]) \in {1} \cup DOMAIN name /\ order[j] = End(Place(order[j]))
        /\ order[j] = << >> => name = << >>
    BY <1>5, <2>1, MatchIsSuffix
  <2> QED
    BY <2>1, <2>2 DEF Ancestors
<1>6. CASE Ancestors(name) = {}
  <2>1. f[n] = Start
    BY <1>3, <1>5, <1>6 DEF Best
  <2> QED
    BY <1>2, <1>6, <2>1 DEF Start, Nearest
<1>7. CASE Ancestors(name) # {}
  <2> DEFINE m == Min(Ancestors(name))
  <2>1. Ancestors(name) \in SUBSET Nat
    BY DEF Ancestors
  <2>2. m \in Ancestors(name) /\ \A k \in Ancestors(name) : m <= k
    <3>1. \E x \in Ancestors(name) : \A y \in Ancestors(name) : x <= y
      BY <1>7, <2>1, LeastElement
    <3> QED
      BY <3>1 DEF Min
  <2> HIDE DEF m
  <2>3. /\ m \in Nat /\ End(m) \in Keys /\ Len(End(m)) = Len(name) - m + 1
        /\ CountLabels(End(m)) <= f[n].count
    BY <1>4, <2>1, <2>2
  <2>4. f[n] # Start
    <3>1. CountLabels(End(m)) \in Nat \ {0}
      BY <2>3, LabelsCount
    <3> HIDE DEF End
    <3> QED
      BY <2>3, <3>1 DEF Start
  <2>5. PICK j \in 1..n : /\ IsSubDomain(d, order[j])
                          /\ f[n] = [count |-> CountLabels(order[j]), val |-> ValueOf(order[j])]
    BY <1>3, <2>4 DEF Best
  <2> DEFINE key == order[j]
             k == Place(key)
  <2>6. key \in Keys /\ k \in Ancestors(name) /\ key = End(k) /\ (key = << >> => name = << >>)
    BY <1>5, <2>5
  <2>7. key \in Seq(Labels) /\ End(m) \in Seq(Labels)
    BY <2>3, <2>6, KeysAreNames
  <2>8. m <= k /\ Len(key) \in Nat /\ Len(name) \in Nat /\ k = Len(name) - Len(key) + 1
    <3>1. m <= k
      <4> HIDE DEF k, key, End
      <4> QED
        BY <2>2, <2>6
    <3>2. Len(key) \in Nat /\ Len(name) \in Nat
      BY <2>7
    <3> QED
      BY <3>1, <3>2
  <2>9. CountLabels(End(m)) <= CountLabels(key)
    BY <2>3, <2>5
  <2>10. k = m
    <3>1. CASE name = << >>
      <4>1. Ancestors(name) \subseteq {1}
        BY <3>1 DEF Ancestors
      <4> QED
        BY <2>2, <2>6, <4>1
    <3>2. CASE name # << >>
      <4>1. key # << >>
        BY <2>6, <3>2
      <4>2. CountLabels(key) = Len(key)
        BY <4>1 DEF CountLabels
      <4>3. End(m) # << >>
        <5>1. Len(key) >= 1
          BY <2>7, <2>8, <4>1
        <5> HIDE DEF End, k, key
        <5>2. Len(End(m)) >= 1
          BY <2>3, <2>8, <5>1
        <5> QED
          BY <5>2
      <4>4. CountLabels(End(m)) = Len(End(m))
        BY <4>3 DEF CountLabels
      <4>5. Len(name) - m + 1 <= Len(key)
        BY <2>3, <2>9, <4>2, <4>4
      <4> QED
        BY <2>3, <2>8, <4>5
    <3> QED
      BY <3>1, <3>2
  <2>11. GetMostSpecific(name, order) = ValueOf(End(m))
    <3>1. f[n].val = ValueOf(key)
      BY <2>5
    <3> QED
      BY <1>2, <2>6, <2>10, <3>1
  <2> QED
    BY <1>7, <2>11 DEF Nearest, m
<1> QED
  BY <1>6, <1>7

-------------------------------------------------------------------------------
(* The way of a query *)

Places == {"client", "held", "inline", "queued", "run", "posted", "reading", "tcpqueued",
           "tcprun", "answered", "dropped"}
Answers == {None, "public", "local", "unqualified", "servfail"} \cup {ValueOf(key) : key \in Keys}
Request == [pc : Places, name : Names \cup {None}, ans : Answers]

\* Where a name is sent is one of the answers of the type.
LEMMA RouteType ==
    ASSUME NEW n \in Names, NEW override \in Override[n]
    PROVE  /\ override = Expected[n]
           /\ Route(n, override) \in Answers
<1>1. n \in Seq(Labels)
  BY ServerAssumption
<1>2. PICK o \in Orders : override = GetMostSpecific(n, o)
  BY DEF Override
<1>3. override = Expected[n] /\ override = Nearest(n)
  BY <1>1, <1>2, LookupIsNearest DEF Expected
<1>4. override # None => override \in {ValueOf(key) : key \in Keys}
  <2> SUFFICES ASSUME override # None PROVE override \in {ValueOf(key) : key \in Keys}
    OBVIOUS
  <2>1. Ancestors(n) # {} /\ override = ValueOf(Canonicalize(Suffix(n, Min(Ancestors(n)))))
    BY <1>3 DEF Nearest
  <2>2. Ancestors(n) \in SUBSET Nat
    BY <1>1 DEF Ancestors
  <2>3. Min(Ancestors(n)) \in Ancestors(n)
    <3>1. \E x \in Ancestors(n) : \A y \in Ancestors(n) : x <= y
      BY <2>1, <2>2, LeastElement
    <3> QED
      BY <3>1 DEF Min
  <2> QED
    BY <2>1, <2>3 DEF Ancestors
<1>5. Route(n, override) \in Answers
  BY <1>4 DEF Route, Answers
<1> QED
  BY <1>3, <1>5

\* What becomes of the requests when one of them is moved or answered.
LEMMA Moved ==
    ASSUME TypeOK, NEW r \in Requests, NEW pc \in Places
    PROVE  /\ At(r, pc) \in [Requests -> Request]
           /\ At(r, pc)[r].pc = pc /\ At(r, pc)[r].name = req[r].name
           /\ \A s \in Requests : s # r => At(r, pc)[s] = req[s]
           /\ \A ans \in Answers :
                 /\ Done(r, pc, ans) \in [Requests -> Request]
                 /\ Done(r, pc, ans)[r].pc = pc /\ Done(r, pc, ans)[r].name = req[r].name
                 /\ Done(r, pc, ans)[r].ans = ans
                 /\ \A s \in Requests : s # r => Done(r, pc, ans)[s] = req[s]
<1>1. req \in [Requests -> Request]
  BY DEF TypeOK, Request, Places, Answers
<1>2. req[r] \in Request
  BY <1>1
<1> QED
  BY <1>1, <1>2 DEF At, Done, Request

\* A datagram that has been received has a name, and only such are queued; so has a
\* connection with a task in the TCP pool.
HasName(r) == req[r].name \in Names
Queued ==
    /\ \A i \in DOMAIN queue : req[queue[i]].pc # "client"
    /\ \A i \in DOMAIN tcpQueue : HasName(tcpQueue[i])
Named ==
    /\ \A r \in UdpRequests : req[r].pc # "client" => HasName(r)
    /\ \A r \in TcpRequests : req[r].pc = "tcprun" => HasName(r)

\* A step that gives no datagram a place without a name.
LEMMA NamesKept ==
    ASSUME TypeOK, Named, NEW r \in Requests, NEW pc \in Places, pc # "client",
           r \in UdpRequests => req[r].pc # "client", pc = "tcprun" => HasName(r),
           \/ req' = At(r, pc)
           \/ \E ans \in Answers : req' = Done(r, pc, ans)
    PROVE  /\ req' \in [Requests -> Request] /\ Named'
           /\ \A s \in Requests : req'[s].name = req[s].name
           /\ req'[r].pc = pc /\ \A s \in Requests : s # r => req'[s] = req[s]
           /\ Queued => \A i \in DOMAIN queue : req'[queue[i]].pc # "client"
<1>1. /\ req' \in [Requests -> Request] /\ req'[r].pc = pc /\ req'[r].name = req[r].name
      /\ \A s \in Requests : s # r => req'[s] = req[s]
  BY Moved
<1>2. \A i \in DOMAIN queue : queue[i] \in Requests
  BY DEF TypeOK, Requests
<1> QED
  BY <1>1, <1>2 DEF Named, HasName, Requests, Queued

LEMMA InitInv == Init => TypeOK /\ Named /\ Queued
<1> SUFFICES ASSUME Init PROVE TypeOK /\ Named /\ Queued
  OBVIOUS
<1>1. req \in [Requests -> Request] /\ \A r \in Requests : req[r].pc = "client"
  BY DEF Init, Request, Places, Answers
<1>2. holds \in [Receivers -> UdpRequests \cup {None}] /\ ended = {} /\ acceptor = None /\ cached = {}
  BY DEF Init
<1>3. queue \in Seq(UdpRequests) /\ Len(queue) <= QueueLimit
  BY ServerAssumption DEF Init
<1>4. tcpQueue \in Seq(TcpRequests) /\ Len(tcpQueue) <= TcpQueueLimit
  BY ServerAssumption DEF Init
<1> QED
  BY <1>1, <1>2, <1>3, <1>4 DEF Init, TypeOK, Named, Queued, Requests, Request, Places, Answers

\* The steps of a receiver.
LEMMA ReceiverStep ==
    ASSUME TypeOK, Named, Queued, NEW u \in Receivers, RateLimited(u) \/ Receiver(u)
    PROVE  /\ TypeOK' /\ Named' /\ Queued'
           /\ \A s \in Requests : req[s].pc = "run" => req'[s] = req[s]
<1> DEFINE r == holds[u]
<1>1. r # None => r \in UdpRequests /\ r \in Requests
  BY DEF TypeOK, Requests
<1>2. /\ req \in [Requests -> Request] /\ holds \in [Receivers -> UdpRequests \cup {None}]
      /\ ended \subseteq UdpWorkers /\ queue \in Seq(UdpRequests) /\ Len(queue) <= QueueLimit
      /\ acceptor \in TcpRequests \cup {None}
      /\ tcpQueue \in Seq(TcpRequests) /\ Len(tcpQueue) <= TcpQueueLimit
      /\ cached \subseteq Names
  BY DEF TypeOK, Request, Places, Answers
<1>3. r # None /\ req[r].pc \in {"held", "inline"}
  BY DEF RateLimited, Receiver, PeekHit, Enqueue, Backpressure, InlineReply
<1>4. Name(r) \in Names
  BY <1>1, <1>3 DEF Named, HasName, Name
<1>5. \E pc \in Places \ {"client", "run", "tcprun"} :
         req' = At(r, pc) \/ \E ans \in Answers : req' = Done(r, pc, ans)
  BY DEF RateLimited, Receiver, PeekHit, Enqueue, Backpressure, InlineReply, Places, Answers
<1>6. /\ req' \in [Requests -> Request] /\ Named'
      /\ \A s \in Requests : s # r => req'[s] = req[s]
      /\ \A i \in DOMAIN queue : req'[queue[i]].pc # "client"
      /\ \A s \in Requests : req'[s].name = req[s].name
  BY <1>1, <1>3, <1>5, NamesKept
<1>7. holds' \in [Receivers -> UdpRequests \cup {None}] /\ ended' \subseteq UdpWorkers
  BY <1>2 DEF RateLimited, Receiver, PeekHit, Enqueue, Backpressure, InlineReply, Receivers
<1>8. queue' \in Seq(UdpRequests) /\ Len(queue') <= QueueLimit
  <2>1. CASE Enqueue(u)
    BY <1>1, <1>2, <1>3, <2>1, ServerAssumption DEF Enqueue
  <2>2. CASE ~ Enqueue(u)
    BY <1>2, <2>2 DEF RateLimited, Receiver, PeekHit, Backpressure, InlineReply
  <2> QED
    BY <2>1, <2>2
<1>9. /\ acceptor' = acceptor /\ tcpQueue' = tcpQueue /\ cached' \subseteq Names
  BY <1>2, <1>4 DEF RateLimited, Receiver, PeekHit, Enqueue, Backpressure, InlineReply, ResolverQuery
<1>10. TypeOK'
  BY <1>2, <1>6, <1>7, <1>8, <1>9 DEF TypeOK, Request, Places, Answers
<1>11. \A i \in DOMAIN queue' : req'[queue'[i]].pc # "client"
  <2>1. CASE Enqueue(u)
    <3>1. queue' = Append(queue, r) /\ req' = At(r, "queued") /\ req'[r].pc = "queued"
      BY <1>1, <1>3, <2>1, Moved DEF Enqueue, Places
    <3>2. \A i \in DOMAIN queue' : queue'[i] = r \/ (i \in DOMAIN queue /\ queue'[i] = queue[i])
      BY <1>1, <1>2, <1>3, <3>1
    <3> QED
      BY <1>6, <3>1, <3>2
  <2>2. CASE ~ Enqueue(u)
    <3>1. queue' = queue
      BY <2>2 DEF RateLimited, Receiver, PeekHit, Backpressure, InlineReply
    <3> QED
      BY <1>6, <3>1
  <2> QED
    BY <2>1, <2>2
<1>12. \A i \in DOMAIN tcpQueue' : req'[tcpQueue'[i]].name \in Names
  <2>1. \A i \in DOMAIN tcpQueue : tcpQueue[i] \in Requests
    BY <1>2 DEF Requests
  <2> QED
    BY <1>6, <1>9, <2>1 DEF HasName, Queued
<1> QED
  BY <1>1, <1>3, <1>6, <1>10, <1>11, <1>12 DEF Queued, HasName

\* No datagram that a pool worker has gets its reply.
NoReply == \A s \in UdpRequests : req[s].pc = "run" => req'[s].pc # "posted"

\* The other steps that move one request.
LEMMA RequestStep ==
    ASSUME TypeOK, Named, Queued, NEW r \in Requests, NEW pc \in Places \ {"client", "posted"},
           r \in UdpRequests => req[r].pc # "client", pc = "tcprun" => HasName(r),
           \/ req' = At(r, pc)
           \/ \E ans \in Answers : req' = Done(r, pc, ans),
           holds' = holds, ended' = ended, cached' \subseteq Names,
           queue' = queue \/ (queue # << >> /\ queue' = Tail(queue)),
           acceptor' \in TcpRequests \cup {None},
           tcpQueue' \in Seq(TcpRequests), Len(tcpQueue') <= TcpQueueLimit,
           \A i \in DOMAIN tcpQueue' : HasName(tcpQueue'[i])
    PROVE  TypeOK' /\ Named' /\ Queued' /\ NoReply
<1>1. /\ req' \in [Requests -> Request] /\ Named' /\ req'[r].pc = pc
      /\ \A s \in Requests : s # r => req'[s] = req[s]
      /\ \A i \in DOMAIN queue : req'[queue[i]].pc # "client"
      /\ \A s \in Requests : req'[s].name = req[s].name
  BY NamesKept DEF Queued
<1>2. queue \in Seq(UdpRequests) /\ Len(queue) <= QueueLimit
  BY DEF TypeOK
<1>3. /\ queue' \in Seq(UdpRequests) /\ Len(queue') <= QueueLimit
      /\ \A i \in DOMAIN queue' : \E j \in DOMAIN queue : queue'[i] = queue[j]
  <2>1. CASE queue' = queue
    BY <1>2, <2>1
  <2>2. CASE queue # << >> /\ queue' = Tail(queue)
    <3>1. /\ queue' \in Seq(UdpRequests) /\ Len(queue') = Len(queue) - 1
          /\ \A i \in 1..(Len(queue) - 1) : queue'[i] = queue[i + 1]
      BY <1>2, <2>2
    <3>2. DOMAIN queue' = 1..(Len(queue) - 1) /\ DOMAIN queue = 1..Len(queue) /\ Len(queue) \in Nat
      BY <1>2, <3>1
    <3>3. \A i \in DOMAIN queue' : i + 1 \in DOMAIN queue /\ queue'[i] = queue[i + 1]
      BY <3>1, <3>2
    <3> QED
      BY <1>2, <3>1, <3>2, <3>3, ServerAssumption
  <2> QED
    BY <2>1, <2>2
<1>4. TypeOK'
  BY <1>1, <1>3 DEF TypeOK, Request, Places, Answers
<1>5. Queued'
  <2>1. \A i \in DOMAIN tcpQueue' : tcpQueue'[i] \in Requests
    BY DEF Requests
  <2> QED
    BY <1>1, <1>3, <2>1 DEF Queued, HasName
<1>6. NoReply
  BY <1>1 DEF NoReply, Requests
<1> QED
  BY <1>1, <1>4, <1>5, <1>6

LEMMA PoolStep ==
    ASSUME TypeOK, Named, Queued, Pool
    PROVE  TypeOK' /\ Named' /\ Queued' /\ NoReply
<1>1. CASE PoolTake
  <2>1. Head(queue) \in UdpRequests /\ Head(queue) \in Requests /\ req[Head(queue)].pc # "client"
    BY <1>1 DEF PoolTake, TypeOK, Requests, Queued
  <2>2. req' = At(Head(queue), "run") /\ "run" \in Places \ {"client", "posted"}
    BY <1>1 DEF PoolTake, Places
  <2>3. /\ holds' = holds /\ ended' = ended /\ cached' \subseteq Names
        /\ queue # << >> /\ queue' = Tail(queue) /\ acceptor' \in TcpRequests \cup {None}
        /\ tcpQueue' \in Seq(TcpRequests) /\ Len(tcpQueue') <= TcpQueueLimit
        /\ \A i \in DOMAIN tcpQueue' : HasName(tcpQueue'[i])
    BY <1>1 DEF PoolTake, TypeOK, Queued
  <2> QED
    BY <2>1, <2>2, <2>3, RequestStep
<1>2. CASE TcpTake
  <2>1. /\ tcpQueue \in Seq(TcpRequests) /\ tcpQueue # << >> /\ Len(tcpQueue) <= TcpQueueLimit
        /\ Head(tcpQueue) \in TcpRequests /\ HasName(Head(tcpQueue))
    BY <1>2 DEF TcpTake, TypeOK, Queued
  <2>2. Head(tcpQueue) \in Requests /\ Head(tcpQueue) \notin UdpRequests
    BY <2>1, ServerAssumption DEF Requests
  <2>3. req' = At(Head(tcpQueue), "tcprun") /\ "tcprun" \in Places \ {"client", "posted"}
    BY <1>2 DEF TcpTake, Places
  <2>4. tcpQueue' \in Seq(TcpRequests) /\ Len(tcpQueue') = Len(tcpQueue) - 1
    BY <1>2, <2>1 DEF TcpTake
  <2>5. Len(tcpQueue') <= TcpQueueLimit
    BY <2>1, <2>4, ServerAssumption
  <2>6. \A i \in DOMAIN tcpQueue' : HasName(tcpQueue'[i])
    <3> SUFFICES ASSUME NEW i \in DOMAIN tcpQueue' PROVE HasName(tcpQueue'[i])
      OBVIOUS
    <3>1. i + 1 \in DOMAIN tcpQueue /\ tcpQueue'[i] = tcpQueue[i + 1]
      BY <1>2, <2>1, <2>4 DEF TcpTake
    <3> QED
      BY <3>1 DEF Queued
  <2>7. /\ holds' = holds /\ ended' = ended /\ cached' \subseteq Names
        /\ queue' = queue /\ acceptor' \in TcpRequests \cup {None}
    BY <1>2 DEF TcpTake, TypeOK
  <2> QED
    BY <2>1, <2>2, <2>3, <2>4, <2>5, <2>6, <2>7, RequestStep
<1> QED
  BY <1>1, <1>2 DEF Pool

LEMMA TcpStep ==
    ASSUME TypeOK, Named, Queued,
           \/ \E r \in TcpRequests : TcpAccept(r) \/ TcpHandle(r)
           \/ TcpRead \/ TcpClientCloses
    PROVE  TypeOK' /\ Named' /\ Queued' /\ NoReply
<1>1. \A r \in TcpRequests : r \in Requests /\ r \notin UdpRequests
  BY ServerAssumption DEF Requests
<1>2. /\ acceptor \in TcpRequests \cup {None} /\ tcpQueue \in Seq(TcpRequests)
      /\ Len(tcpQueue) <= TcpQueueLimit /\ cached \subseteq Names
      /\ \A i \in DOMAIN tcpQueue : HasName(tcpQueue[i])
  BY DEF TypeOK, Queued
<1>3. /\ "public" \in Answers /\ "servfail" \in Answers
      /\ {"reading", "answered", "dropped", "tcpqueued"} \subseteq Places \ {"client", "posted"}
  BY DEF Answers, Places
<1>4. ASSUME NEW r \in TcpRequests, TcpAccept(r) PROVE TypeOK' /\ Named' /\ Queued' /\ NoReply
  <2>1. /\ req' = At(r, "reading") /\ holds' = holds /\ ended' = ended /\ cached' \subseteq Names
        /\ queue' = queue /\ acceptor' \in TcpRequests \cup {None} /\ tcpQueue' = tcpQueue
    BY <1>2, <1>4 DEF TcpAccept
  <2> QED
    BY <1>1, <1>2, <1>3, <2>1, RequestStep
<1>5. ASSUME NEW r \in TcpRequests, TcpHandle(r) PROVE TypeOK' /\ Named' /\ Queued' /\ NoReply
  <2>1. Name(r) \in Names
    BY <1>5 DEF TcpHandle, Named, HasName, Name
  <2>2. /\ req' = Done(r, "answered", "public") /\ holds' = holds /\ ended' = ended
        /\ queue' = queue /\ acceptor' = acceptor /\ tcpQueue' = tcpQueue
        /\ cached' \subseteq Names
    BY <1>2, <1>5, <2>1 DEF TcpHandle, ResolverQuery
  <2> QED
    BY <1>1, <1>2, <1>3, <2>2, RequestStep
<1>6. CASE TcpRead \/ TcpClientCloses
  <2> DEFINE r == acceptor
  <2>1. r \in TcpRequests
    BY <1>2, <1>6 DEF TcpRead, TcpClientCloses
  <2>2. /\ holds' = holds /\ ended' = ended /\ cached' \subseteq Names
        /\ queue' = queue /\ acceptor' \in TcpRequests \cup {None}
    BY <1>2, <1>6 DEF TcpRead, TcpClientCloses
  <2>3. \E pc \in {"answered", "dropped", "tcpqueued"} :
           req' = At(r, pc) \/ \E ans \in Answers : req' = Done(r, pc, ans)
    BY <1>3, <1>6 DEF TcpRead, TcpClientCloses
  <2>4. CASE tcpQueue' = tcpQueue
    BY <1>1, <1>2, <1>3, <2>1, <2>2, <2>3, <2>4, RequestStep
  <2>5. CASE tcpQueue' # tcpQueue
    <3>1. tcpQueue' = Append(tcpQueue, r) /\ Len(tcpQueue) < TcpQueueLimit /\ Name(r) # None
      BY <1>6, <2>5 DEF TcpRead, TcpClientCloses
    <3>2. HasName(r)
      BY <1>1, <2>1, <3>1 DEF TypeOK, HasName, Name
    <3>3. tcpQueue' \in Seq(TcpRequests) /\ Len(tcpQueue') <= TcpQueueLimit
      BY <1>2, <2>1, <3>1, ServerAssumption
    <3>4. \A i \in DOMAIN tcpQueue' : tcpQueue'[i] = r \/ (i \in DOMAIN tcpQueue /\ tcpQueue'[i] = tcpQueue[i])
      BY <1>2, <2>1, <3>1
    <3>5. \A i \in DOMAIN tcpQueue' : HasName(tcpQueue'[i])
      BY <1>2, <3>2, <3>4
    <3> QED
      BY <1>1, <1>3, <2>1, <2>2, <2>3, <3>3, <3>5, RequestStep
  <2> QED
    BY <2>4, <2>5
<1> QED
  BY <1>4, <1>5, <1>6

\* The steps that give a request its name.
LEMMA ArrivalStep ==
    ASSUME TypeOK, Named, Queued,
           \/ \E u \in Receivers, r \in UdpRequests, n \in Names : Receive(u, r, n)
           \/ \E r \in TcpRequests, n \in Names : TcpClientWrites(r, n)
    PROVE  TypeOK' /\ Named' /\ Queued' /\ NoReply
<1>2. req \in [Requests -> Request]
  BY DEF TypeOK, Request, Places, Answers
<1>3. PICK r \in Requests, n \in Names, pc \in Places \ {"run", "posted", "tcprun"} :
         /\ req' \in [Requests -> Request] /\ req'[r].pc = pc /\ req'[r].name = n
         /\ \A s \in Requests : s # r => req'[s] = req[s]
         /\ req[r].pc \in {"client", "reading"}
         /\ r \in UdpRequests => pc # "client"
         /\ req[r].pc # "client" => pc # "client"
  <2>1. CASE \E u \in Receivers, r \in UdpRequests, n \in Names : Receive(u, r, n)
    <3>1. PICK u \in Receivers, r \in UdpRequests, n \in Names : Receive(u, r, n)
      BY <2>1
    <3>2. r \in Requests /\ "held" \in Places \ {"run", "posted", "tcprun"} /\ req[r].pc = "client"
      BY <3>1 DEF Receive, Requests, Places
    <3>3. /\ req' \in [Requests -> Request] /\ req'[r].pc = "held" /\ req'[r].name = n
          /\ \A s \in Requests : s # r => req'[s] = req[s]
      BY <1>2, <3>1, <3>2 DEF Receive, Request
    <3> QED
      BY <3>2, <3>3
  <2>2. CASE \E r \in TcpRequests, n \in Names : TcpClientWrites(r, n)
    <3>1. PICK r \in TcpRequests, n \in Names : TcpClientWrites(r, n)
      BY <2>2
    <3>2. r \in Requests /\ r \notin UdpRequests
      BY ServerAssumption DEF Requests
    <3>3. /\ req' \in [Requests -> Request] /\ req'[r].pc = req[r].pc /\ req'[r].name = n
          /\ \A s \in Requests : s # r => req'[s] = req[s]
      BY <1>2, <3>1, <3>2 DEF TcpClientWrites, Request
    <3>4. req[r].pc \in {"client", "reading"} /\ req[r].pc \in Places \ {"run", "posted", "tcprun"}
      BY <3>1 DEF TcpClientWrites, Places
    <3> QED
      BY <3>2, <3>3, <3>4
  <2> QED
    BY <2>1, <2>2
<1>4. /\ holds' \in [Receivers -> UdpRequests \cup {None}]
      /\ ended' = ended /\ queue' = queue /\ acceptor' = acceptor /\ tcpQueue' = tcpQueue /\ cached' = cached
  BY DEF TypeOK, Receive, TcpClientWrites
<1>5. TypeOK'
  BY <1>3, <1>4 DEF TypeOK, Request, Places, Answers
<1>6. Named' /\ NoReply
  BY <1>3 DEF Named, NoReply, HasName, Requests
<1>7. /\ \A i \in DOMAIN queue : queue[i] \in Requests
      /\ \A i \in DOMAIN tcpQueue : tcpQueue[i] \in Requests
  BY DEF TypeOK, Requests
<1>8. Queued'
  BY <1>3, <1>4, <1>7 DEF Queued, HasName
<1> QED
  BY <1>5, <1>6, <1>8

\* handleQuery(): the reply it posts is of the upstream it should be.
RoutedReply(r) ==
    (req'[r].pc = "posted" /\ ~IsLocal(Name(r)))
       => IF Expected[Name(r)] # None
          THEN req'[r].ans \in {Expected[Name(r)], "servfail"}
          ELSE req'[r].ans \in {"public", "unqualified", "servfail"}

LEMMA HandleStep ==
    ASSUME TypeOK, Named, Queued, NEW r \in UdpRequests, HandleQuery(r)
    PROVE  /\ TypeOK' /\ Named' /\ Queued' /\ RoutedReply(r)
           /\ \A s \in Requests : s # r => req'[s] = req[s]
<1> DEFINE n == Name(r)
<1>1. n \in Names /\ r \in Requests /\ req[r].pc = "run"
  BY DEF HandleQuery, Named, HasName, Name, Requests
<1>2. /\ holds' = holds /\ ended' = ended /\ queue' = queue /\ acceptor' = acceptor
      /\ tcpQueue' = tcpQueue /\ cached' \subseteq Names
  BY <1>1 DEF HandleQuery, ResolverQuery, TypeOK
<1>3. \/ req' = At(r, "dropped")
      \/ \E override \in Override[n] : \E ans \in {Route(n, override), "servfail"} : req' = Done(r, "posted", ans)
  BY DEF HandleQuery
<1>4. ASSUME NEW pc \in {"dropped", "posted"}, req' = At(r, pc) \/ \E ans \in Answers : req' = Done(r, pc, ans)
      PROVE  TypeOK' /\ Named' /\ Queued' /\ \A s \in Requests : s # r => req'[s] = req[s]
  <2>1. pc \in Places /\ pc # "client" /\ pc # "tcprun"
    BY DEF Places
  <2>2. /\ req' \in [Requests -> Request] /\ Named' /\ \A s \in Requests : s # r => req'[s] = req[s]
        /\ \A s \in Requests : req'[s].name = req[s].name
        /\ \A i \in DOMAIN queue : req'[queue[i]].pc # "client"
    BY <1>1, <1>4, <2>1, NamesKept
  <2>3. TypeOK'
    BY <1>2, <2>2 DEF TypeOK, Request, Places, Answers
  <2>4. \A i \in DOMAIN tcpQueue : tcpQueue[i] \in Requests
    BY DEF TypeOK, Requests
  <2> QED
    BY <1>2, <2>2, <2>3, <2>4 DEF Queued, HasName
<1>5. CASE req' = At(r, "dropped")
  <2>1. req'[r].pc = "dropped"
    BY <1>1, <1>5, Moved DEF Places
  <2> QED
    BY <1>4, <1>5, <2>1 DEF RoutedReply
<1>6. ASSUME NEW override \in Override[n], NEW ans \in {Route(n, override), "servfail"},
             req' = Done(r, "posted", ans)
      PROVE  /\ TypeOK' /\ Named' /\ Queued' /\ RoutedReply(r)
             /\ \A s \in Requests : s # r => req'[s] = req[s]
  <2>1. override = Expected[n] /\ ans \in Answers
    BY <1>1, RouteType DEF Answers
  <2>2. req'[r].ans = ans
    BY <1>1, <1>6, <2>1, Moved DEF Places
  <2>3. RoutedReply(r)
    BY <2>1, <2>2 DEF RoutedReply, Route
  <2> QED
    BY <1>4, <1>6, <2>1, <2>3
<1> QED
  BY <1>3, <1>5, <1>6

LEMMA SendStep ==
    ASSUME TypeOK, Named, Queued, NEW r \in UdpRequests, Send(r)
    PROVE  TypeOK' /\ Named' /\ Queued' /\ NoReply
<1>1. /\ r \in Requests /\ req[r].pc # "client" /\ req' = At(r, "answered")
      /\ "answered" \in Places \ {"client", "posted"}
  BY DEF Send, Requests, Places
<1>2. /\ holds' = holds /\ ended' = ended /\ queue' = queue /\ cached' \subseteq Names
      /\ acceptor' \in TcpRequests \cup {None}
      /\ tcpQueue' \in Seq(TcpRequests) /\ Len(tcpQueue') <= TcpQueueLimit
      /\ \A i \in DOMAIN tcpQueue' : HasName(tcpQueue'[i])
  BY DEF Send, TypeOK, Queued
<1> QED
  BY <1>1, <1>2, RequestStep

LEMMA NextStep ==
    ASSUME TypeOK, Named, Queued, [Next]_vars
    PROVE  /\ TypeOK' /\ Named' /\ Queued'
           /\ \A r \in UdpRequests : req[r].pc = "run" => RoutedReply(r)
<1>1. ASSUME NoReply PROVE \A r \in UdpRequests : req[r].pc = "run" => RoutedReply(r)
  BY <1>1 DEF NoReply, RoutedReply
<1>2. CASE \/ \E u \in Receivers, r \in UdpRequests, n \in Names : Receive(u, r, n)
           \/ \E r \in TcpRequests, n \in Names : TcpClientWrites(r, n)
  BY <1>1, <1>2, ArrivalStep
<1>3. ASSUME NEW u \in Receivers, RateLimited(u) \/ Receiver(u)
      PROVE  /\ TypeOK' /\ Named' /\ Queued'
             /\ \A r \in UdpRequests : req[r].pc = "run" => RoutedReply(r)
  <2>1. TypeOK' /\ Named' /\ Queued' /\ \A s \in Requests : req[s].pc = "run" => req'[s] = req[s]
    BY <1>3, ReceiverStep
  <2>2. NoReply
    BY <2>1 DEF NoReply, Requests
  <2> QED
    BY <1>1, <2>1, <2>2
<1>4. CASE Pool
  BY <1>1, <1>4, PoolStep
<1>5. ASSUME NEW r \in UdpRequests, HandleQuery(r)
      PROVE  /\ TypeOK' /\ Named' /\ Queued'
             /\ \A s \in UdpRequests : req[s].pc = "run" => RoutedReply(s)
  BY <1>5, HandleStep DEF RoutedReply, Requests
<1>6. ASSUME NEW r \in UdpRequests, Send(r)
      PROVE  /\ TypeOK' /\ Named' /\ Queued'
             /\ \A s \in UdpRequests : req[s].pc = "run" => RoutedReply(s)
  BY <1>1, <1>6, SendStep
<1>7. CASE (\E r \in TcpRequests : TcpAccept(r) \/ TcpHandle(r)) \/ TcpRead \/ TcpClientCloses
  BY <1>1, <1>7, TcpStep
<1>8. CASE (\E n \in Names : Expire(n)) \/ UNCHANGED vars
  <2>1. /\ req' = req /\ holds' = holds /\ ended' = ended /\ queue' = queue /\ acceptor' = acceptor
        /\ tcpQueue' = tcpQueue /\ cached' \subseteq Names
    BY <1>8 DEF Expire, vars, TypeOK
  <2> QED
    BY <2>1 DEF TypeOK, Named, Queued, HasName, RoutedReply
<1> QED
  BY <1>2, <1>3, <1>4, <1>5, <1>6, <1>7, <1>8 DEF Next

\* Every state of the server has its type: in particular both queues keep their
\* bounds, and a receiver or the accept thread is busy with a request of its own kind.
THEOREM TypeCorrect == Spec => []TypeOK
<1>1. Init => TypeOK /\ Named /\ Queued
  BY InitInv
<1>2. TypeOK /\ Named /\ Queued /\ [Next]_vars => (TypeOK /\ Named /\ Queued)'
  BY NextStep
<1> QED
  BY <1>1, <1>2, PTL DEF Spec

\* What handleQuery() answers comes from the upstream of the nearest override of the
\* name, for every list of overrides, every name and every order of the hash table.
THEOREM Routed == Spec => RoutedToNearest
<1>1. Init => TypeOK /\ Named /\ Queued
  BY InitInv
<1>2. TypeOK /\ Named /\ Queued /\ [Next]_vars => (TypeOK /\ Named /\ Queued)'
  BY NextStep
<1> DEFINE A == \A r \in UdpRequests :
                  (req[r].pc = "run" /\ req'[r].pc = "posted" /\ ~IsLocal(Name(r)))
                     => IF Expected[Name(r)] # None
                        THEN req'[r].ans \in {Expected[Name(r)], "servfail"}
                        ELSE req'[r].ans \in {"public", "unqualified", "servfail"}
<1>3. TypeOK /\ Named /\ Queued /\ [Next]_vars => [A]_vars
  <2> SUFFICES ASSUME TypeOK, Named, Queued, [Next]_vars PROVE A
    OBVIOUS
  <2>1. \A r \in UdpRequests : req[r].pc = "run" => RoutedReply(r)
    BY NextStep
  <2> QED
    BY <2>1 DEF RoutedReply
<1>4. Spec => [][A]_vars
  BY <1>1, <1>2, <1>3, PTL DEF Spec
<1> QED
  BY <1>4 DEF RoutedToNearest

-------------------------------------------------------------------------------
(* The shutdown of the process *)

\* HttpsServer's listener: after stop() it finds running_ cleared, and once it has
\* accepted a late client it is on its way out.
Listener ==
    /\ hstop => ~hrun
    /\ late # 0 => late = 1 /\ ~hrun /\ hacc \in {"test", "gone"}

\* What CloseAll waited for stays so.
Closed ==
    stopper = "closed" => /\ \A u \in UdpThreads : wk[u] = "gone"
                          /\ acc = "gone" /\ perf = "gone"

\* How far main() is, and what it has waited for by then.
Joined ==
    /\ main \in {"monitor", "join", "tuner", "exit"} => stopper = "closed"
    /\ main \in {"tuner", "exit"} => mon = "gone"
    /\ main = "exit" => tuner = "gone"

LEMMA ProcessInitInv == ProcessInit => Listener /\ Closed /\ Joined
<1> SUFFICES ASSUME ProcessInit PROVE Listener /\ Closed /\ Joined
  OBVIOUS
<1>1. Listener
  BY DEF ProcessInit, Front!HttpsInit, Front!HttpsAbsent, Listener
<1>2. Closed
  <2>1. CASE Dns!Init
    BY <2>1 DEF Dns!Init, Closed
  <2>2. CASE Dns!Absent
    BY <2>2 DEF Dns!Absent, Closed
  <2> QED
    BY <2>1, <2>2 DEF ProcessInit
<1>3. Joined
  BY DEF ProcessInit, Joined
<1> QED
  BY <1>1, <1>2, <1>3

\* What a step may do to the pool once the server is closed: the handler that was
\* under way enqueues its task, the pool handles one, or nothing.
LateWork ==
    \/ flight' = flight /\ (Dns!Underway = {} => Dns!Underway' = {})
    \/ flight' = flight - 1 /\ handler' = handler
    \/ flight' = flight + 1 /\ Dns!Underway # {} /\ Dns!Underway' = {}

\* The steps of DnsServer's threads and of its stop().
LEMMA ServerStep ==
    ASSUME Closed, Dns!Next \/ Dns!StopBegins
    PROVE  /\ Closed'
           /\ stopper = "closed" => stopper' = "closed" /\ LateWork
<1> USE DEF Dns!stopVars, Dns!udpVars, Dns!tcpVars, Dns!poolVars
<1>0. handler' = handler => Dns!Underway' = Dns!Underway
  BY DEF Dns!Underway
<1>1. CASE \E s \in Dns!Sockets : Dns!ClientQuery(s)
  BY <1>1 DEF Dns!ClientQuery, Closed
<1>2. CASE Dns!ClientConnects \/ Dns!ClientActs \/ Dns!AcceptError
  BY <1>0, <1>2 DEF Dns!ClientConnects, Dns!ClientActs, Dns!AcceptError, Closed, LateWork
<1>3. CASE \E u \in UdpThreads : Dns!Worker(u)
  <2>1. PICK u \in UdpThreads : wk[u] \in {"test", "recv"}
    BY <1>3 DEF Dns!Worker, Dns!WorkerTest, Dns!WorkerReceive
  <2>2. stopper # "closed" /\ stopper' = stopper
    BY <1>3, <2>1 DEF Dns!Worker, Dns!WorkerTest, Dns!WorkerReceive, Closed
  <2> QED
    BY <2>2 DEF Closed
<1>4. CASE Dns!IoReceive
  BY <1>4 DEF Dns!IoReceive, Closed
<1>5. CASE Dns!HandlerTakes \/ Dns!HandlerRearms
  BY <1>5 DEF Dns!HandlerTakes, Dns!HandlerRearms, Dns!Underway, Closed, LateWork
<1>6. CASE Dns!HandlerActs
  BY <1>6 DEF Dns!HandlerActs, Dns!Underway, Closed, LateWork
<1>7. CASE Dns!PoolHandles
  BY <1>7 DEF Dns!PoolHandles, Closed, LateWork
<1>8. CASE Dns!IoSends
  BY <1>8 DEF Dns!IoSends, Closed
<1>9. CASE Dns!Acceptor
  BY <1>0, <1>9 DEF Dns!Acceptor, Dns!AcceptTest, Dns!AcceptEnter, Dns!Accept, Closed, LateWork
<1>10. CASE Dns!PerfEnds
  BY <1>0, <1>10 DEF Dns!PerfEnds, Closed, LateWork
<1>11. CASE Dns!Stopper \/ Dns!StopBegins
  <2>1. CASE Dns!CloseAll
    BY <2>1 DEF Dns!CloseAll, Closed
  <2>2. CASE ~ Dns!CloseAll
    <3>1. stopper # "closed" /\ stopper' # "closed"
      BY <1>11, <2>2 DEF Dns!Stopper, Dns!StopBegins, Dns!CloseAcceptor, Dns!KickTcp, Dns!KickUdp,
                         Dns!JoinBegins
    <3> QED
      BY <3>1 DEF Closed
  <2> QED
    BY <2>1, <2>2
<1> QED
  BY <1>1, <1>2, <1>3, <1>4, <1>5, <1>6, <1>7, <1>8, <1>9, <1>10, <1>11 DEF Dns!Next, Dns!IoThread

\* The steps of the front ends: a listener that is gone stays gone.
LEMMA FrontStep ==
    ASSUME Listener, Front!FrontNext
    PROVE  Listener' /\ (mon = "gone" => mon' = "gone")
<1> USE DEF Front!httpsVars, Front!monitorVars
<1>1. CASE \E c \in Clients : \/ Front!HttpsConnect(c) \/ Front!HttpsRead(c)
                              \/ Front!HttpsForward(c) \/ Front!HttpsUpstream(c)
  BY <1>1 DEF Front!HttpsConnect, Front!HttpsRead, Front!HttpsForward,
              Front!HttpsUpstream, Listener
<1>2. CASE Front!HttpsTest \/ Front!HttpsEnter \/ Front!HttpsAcceptError
  BY <1>2 DEF Front!HttpsTest, Front!HttpsEnter, Front!HttpsAcceptError, Listener
<1>3. CASE \E c \in Clients : Front!HttpsAccept(c)
  BY <1>3 DEF Front!HttpsAccept, Listener
<1>4. CASE Front!MonitorConnect \/ Front!MonitorListener \/ Front!StreamEnds
  <2>1. UNCHANGED Front!httpsVars
    BY <1>4, Zenon DEF Front!MonitorConnect, Front!MonitorListener, Front!MonitorTest,
                       Front!MonitorAccept, Front!StreamEnds
  <2>2. mon' = mon \/ mon \in {"test", "accept"}
    BY <1>4, Zenon DEF Front!MonitorConnect, Front!MonitorListener, Front!MonitorTest,
                       Front!MonitorAccept, Front!StreamEnds
  <2> QED
    BY <2>1, <2>2 DEF Listener
<1> QED
  BY <1>1, <1>2, <1>3, <1>4 DEF Front!FrontNext, Front!HttpsListener

\* A step of the process keeps the three, and gives a closed server no new work.
LEMMA ProcessStep ==
    ASSUME Listener, Closed, Joined, [ProcessNext]_processVars
    PROVE  /\ Listener' /\ Closed' /\ Joined'
           /\ stopper = "closed" => LateWork
<1> USE DEF dnsVars, frontVars, mainVars
<1>0. UNCHANGED <<handler, flight>> => LateWork
  BY DEF LateWork, Dns!Underway
<1>1. CASE \/ Sighup \/ Sigterm \/ WatchdogFires \/ RecordLoad
           \/ TunerEnds \/ LoopTest \/ Reloaded \/ Poll
  <2>1. UNCHANGED <<dnsVars, frontVars>>
    BY <1>1 DEF Sighup, Sigterm, WatchdogFires, RecordLoad, TunerEnds,
                LoopTest, Reloaded, Poll
  <2>2. \/ main' = main /\ (tuner' = tuner \/ main # "exit")
        \/ main' \in {"loop", "reload", "drain", "dns"}
    BY <1>1 DEF Sighup, Sigterm, WatchdogFires, RecordLoad, TunerEnds,
                LoopTest, Reloaded, Poll, ToDrain
  <2> QED
    BY <1>0, <2>1, <2>2 DEF Listener, Closed, Joined
<1>2. CASE StopDns
  <2>1. Closed' /\ (stopper = "closed" => LateWork)
    BY <1>0, <1>2, ServerStep DEF StopDns, Closed
  <2>2. Listener' /\ Joined'
    BY <1>2 DEF StopDns, Goes, Listener, Joined
  <2> QED
    BY <2>1, <2>2
<1>3. CASE StopHttps
  BY <1>0, <1>3 DEF StopHttps, Goes, Front!HttpsStop, Front!monitorVars,
              Listener, Closed, Joined
<1>4. CASE StopMonitor
  BY <1>0, <1>4 DEF StopMonitor, Goes, Front!MonitorStop, Front!httpsVars,
              Listener, Closed, Joined
<1>5. CASE JoinMonitor \/ Return
  BY <1>0, <1>5 DEF JoinMonitor, Return, Goes, Listener, Closed, Joined
<1>6. CASE Dns!Next /\ UNCHANGED <<frontVars, mainVars>>
  BY <1>6, ServerStep DEF Listener, Joined
<1>7. CASE Front!FrontNext /\ UNCHANGED <<dnsVars, mainVars>>
  BY <1>0, <1>7, FrontStep DEF Closed, Joined
<1>8. CASE UNCHANGED processVars
  BY <1>0, <1>8 DEF processVars, Listener, Closed, Joined
<1> QED
  BY <1>1, <1>2, <1>3, <1>4, <1>5, <1>6, <1>7, <1>8 DEF ProcessNext, Main

\* Tasks in the pool are counted down to zero at most.
LEMMA FlightType ==
    ASSUME flight \in Nat, [ProcessNext]_processVars
    PROVE  flight' \in Nat
<1> USE DEF dnsVars, Dns!stopVars, Dns!udpVars, Dns!tcpVars, Dns!poolVars
<1>1. CASE Dns!Next
  <2>1. \/ flight' = flight \/ flight' = flight + 1 \/ (flight > 0 /\ flight' = flight - 1)
    BY <1>1 DEF Dns!Next, Dns!ClientQuery, Dns!ClientConnects, Dns!ClientActs, Dns!AcceptError,
                Dns!Worker, Dns!WorkerTest, Dns!WorkerReceive,
                Dns!IoThread, Dns!IoReceive, Dns!HandlerTakes, Dns!HandlerActs, Dns!HandlerRearms,
                Dns!PoolHandles, Dns!IoSends, Dns!Acceptor, Dns!AcceptTest, Dns!AcceptEnter,
                Dns!Accept, Dns!PerfEnds, Dns!Stopper, Dns!CloseAcceptor, Dns!KickTcp,
                Dns!KickUdp, Dns!JoinBegins, Dns!CloseAll
  <2> QED
    BY <2>1
<1>2. CASE ~ Dns!Next
  <2>1. flight' = flight
    BY <1>2 DEF ProcessNext, processVars, Sighup, Sigterm, WatchdogFires,
                RecordLoad, TunerEnds, Main, LoopTest, Reloaded,
                Poll, StopDns, Dns!StopBegins, StopHttps, StopMonitor,
                JoinMonitor, Return
  <2> QED
    BY <2>1
<1> QED
  BY <1>1, <1>2

\* HttpsServer::stop() neither wakes nor joins its listener, yet for any number of
\* clients at most one is accepted afterwards.
THEOREM OneLateClient == ProcessSpec => []AtMostOneLate
<1> DEFINE Inv == Listener /\ Closed /\ Joined
<1>1. ProcessInit => Inv
  BY ProcessInitInv
<1>2. Inv /\ [ProcessNext]_processVars => Inv'
  BY ProcessStep
<1>3. Inv => AtMostOneLate
  BY DEF Listener, AtMostOneLate, Front!AtMostOneLate
<1> QED
  BY <1>1, <1>2, <1>3, PTL DEF ProcessSpec

\* After stop() has reset the main socket nobody begins to handle a query for the
\* pool, for any number of workers and any datagrams still under way; the handler of
\* the io_context thread, which stop() does not join, may still enqueue the one it had.
THEOREM ClosedTakesNoWork == ProcessSpec => NoWorkAfterClose
<1> DEFINE Inv == Listener /\ Closed /\ Joined /\ flight \in Nat
<1>1. ProcessInit => Inv
  BY ProcessInitInv DEF ProcessInit, Dns!Init, Dns!Absent
<1>2. Inv /\ [ProcessNext]_processVars => Inv'
  BY ProcessStep, FlightType
<1>3. Inv /\ [ProcessNext]_processVars => [stopper = "closed" => Dns!Work' <= Dns!Work]_Dns!vars
  <2>1. ASSUME Inv, [ProcessNext]_processVars, stopper = "closed" PROVE Dns!Work' <= Dns!Work
    <3>1. LateWork /\ flight \in Nat /\ flight' \in Nat
      BY <2>1, ProcessStep, FlightType
    <3>2. handler' = handler => Dns!Underway' = Dns!Underway
      BY DEF Dns!Underway
    <3> HIDE DEF Inv
    <3>3. CASE flight' = flight - 1 /\ handler' = handler
      BY <3>1, <3>2, <3>3 DEF Dns!Work
    <3>4. CASE flight' = flight /\ (Dns!Underway = {} => Dns!Underway' = {})
      BY <3>1, <3>4 DEF Dns!Work
    <3>5. CASE flight' = flight + 1 /\ Dns!Underway # {} /\ Dns!Underway' = {}
      BY <3>1, <3>5 DEF Dns!Work
    <3> QED
      BY <3>1, <3>3, <3>4, <3>5 DEF LateWork
  <2> QED
    BY <2>1
<1> QED
  BY <1>1, <1>2, <1>3, PTL DEF ProcessSpec, NoWorkAfterClose, Dns!NoWorkAfterClose

\* No signal, drain or reload lets main() return past a thread that it should have
\* joined, whichever servers the configuration enables.
THEOREM ExitIsClean == ProcessSpec => []NothingRunsAtExit
<1> DEFINE Inv == Listener /\ Closed /\ Joined
<1>1. ProcessInit => Inv
  BY ProcessInitInv
<1>2. Inv /\ [ProcessNext]_processVars => Inv'
  BY ProcessStep
<1>3. Inv => NothingRunsAtExit
  BY DEF Closed, Joined, NothingRunsAtExit
<1> QED
  BY <1>1, <1>2, <1>3, PTL DEF ProcessSpec
===============================================================================
