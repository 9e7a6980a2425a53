-------------------------- MODULE RateLimiterProofs --------------------------
(***************************************************************************)
(* The bounds of the rate limiter for every number of receiver threads, of *)
(* clients, every limit and every length of the window.                    *)
(*                                                                         *)
(* Requests are sorted by the window that counted them.  What makes the    *)
(* bounds hold is that windows begin more than Window apart, and that a    *)
(* thread late for its window has read the clock before the next began:    *)
(* there are as many of those as threads but the one that began it.        *)
(***************************************************************************)
EXTENDS RateLimiter, FiniteSetTheorems, TLAPS

\* The calls of a client under way, with a reading from t to u, and with one before t.
Pending(c, t, u) == {th \in Threads : call[th].client = c /\ t <= call[th].at /\ call[th].at <= u}
Late(c, t)       == {th \in Threads : call[th].client = c /\ call[th].at < t}

\* A reading is of the past, and never of the clock's first second; so the entry of a
\* client that has been heard of is not of the epoch.
Readings ==
    /\ now > Window
    /\ \A c \in Clients : entry[c].last <= now /\ (entry[c].count = 0 => entry[c].last = 0)
    /\ \A th \in Threads : call[th].client # None => Window < call[th].at /\ call[th].at <= now
    /\ \A th \in Threads : call[th].client = None => call[th].at = 0

\* The logs are finite, whatever the second one looks at.
Logged == \A c \in Clients : \A t, u \in Nat : IsFiniteSet(Requests(admitted, c, t, u))
                                               /\ IsFiniteSet(Requests(asked, c, t, u))

\* The requests admitted from t to t + Window, by where the client's window stands:
\* it is long over, it began before t, within that time, or after it.
Admissions(c, t) ==
    LET last  == entry[c].last
        count == entry[c].count
        n     == During(admitted, c, t, t + Window)
    IN  /\ last + Window < t => n = 0
        /\ last < t /\ t <= last + Window => n = 0 \/ (n < count /\ n < Limit)
        /\ t <= last /\ last <= t + Window => n < count + Limit /\ n < 2 * Limit
        /\ t + Window < last =>
               n + Cardinality(Pending(c, t, t + Window)) < 2 * Limit + Cardinality(Threads) - 1

Admitted == \A c \in Clients : \A t \in Times : Admissions(c, t)

\* The count is of requests of the window, of late ones, and no other.
Counted ==
    \A c \in Clients :
        entry[c].count = 0 \/ entry[c].count + Cardinality(Late(c, entry[c].last))
            < During(asked, c, entry[c].last, entry[c].last + Window) + Cardinality(Threads)

IInv == Readings /\ Logged /\ Admitted /\ Counted

-------------------------------------------------------------------------------
(* Facts about the logs and the calls *)

LEMMA InRequests ==
    ASSUME NEW log, NEW c, NEW t, NEW u, NEW p
    PROVE  p \in Requests(log, c, t, u)
             <=> \E i \in Times : t <= i /\ i <= u /\ p \in {i} \X (1..log[c][i])
BY DEF Requests

\* One more request of client c, with the reading r.
Plus(log, c, r) == [log EXCEPT ![c][r] = @ + 1]

LEMMA OneMore ==
    ASSUME NEW log \in [Clients -> [Times -> Nat]], NEW c \in Clients, NEW r \in Times,
           NEW t \in Nat, NEW u \in Nat,
           IsFiniteSet(Requests(log, c, t, u))
    PROVE  /\ IsFiniteSet(Requests(Plus(log, c, r), c, t, u))
           /\ During(Plus(log, c, r), c, t, u) = During(log, c, t, u) + (IF t <= r /\ r <= u THEN 1 ELSE 0)
           /\ During(log, c, t, u) \in Nat
<1> DEFINE p == <<r, log[c][r] + 1>>
           new == Plus(log, c, r)
<1>1. /\ log[c][r] \in Nat /\ new[c][r] = log[c][r] + 1
      /\ \A i \in Times : i # r => new[c][i] = log[c][i]
      /\ r \in Nat
  BY RateAssumption DEF Times, Plus
<1> HIDE DEF new
<1>2. 1..new[c][r] = (1..log[c][r]) \cup {log[c][r] + 1} /\ log[c][r] + 1 \notin 1..log[c][r]
  <2>1. \A n \in Nat : 1..(n + 1) = (1..n) \cup {n + 1} /\ n + 1 \notin 1..n
    OBVIOUS
  <2> QED
    BY <1>1, <2>1
<1>3. {r} \X (1..new[c][r]) = ({r} \X (1..log[c][r])) \cup {p}
  BY <1>2
<1>4. p \notin Requests(log, c, t, u)
  <2> SUFFICES ASSUME NEW i \in Times, p \in {i} \X (1..log[c][i]) PROVE FALSE
    BY InRequests
  <2>1. i = r
    OBVIOUS
  <2> QED
    BY <1>2, <2>1
<1> HIDE DEF p
<1>5. CASE t <= r /\ r <= u
  <2>1. \A q : q \in Requests(new, c, t, u) <=> q \in Requests(log, c, t, u) \/ q = p
    <3> SUFFICES ASSUME NEW q
                 PROVE  q \in Requests(new, c, t, u) <=> q \in Requests(log, c, t, u) \/ q = p
      OBVIOUS
    <3>1. q \in Requests(new, c, t, u)
            <=> \E i \in Times : t <= i /\ i <= u /\ q \in {i} \X (1..new[c][i])
      BY InRequests
    <3>2. q \in Requests(log, c, t, u)
            <=> \E i \in Times : t <= i /\ i <= u /\ q \in {i} \X (1..log[c][i])
      BY InRequests
    <3>3. \A i \in Times : i # r => {i} \X (1..new[c][i]) = {i} \X (1..log[c][i])
      BY <1>1
    <3>4. q \in {r} \X (1..new[c][r]) <=> q \in {r} \X (1..log[c][r]) \/ q = p
      BY <1>3
    <3> QED
      BY <1>5, <3>1, <3>2, <3>3, <3>4, Zenon
  <2>2. Requests(new, c, t, u) = Requests(log, c, t, u) \cup {p}
    BY <2>1
  <2>3. /\ IsFiniteSet(Requests(new, c, t, u))
        /\ Cardinality(Requests(new, c, t, u)) = Cardinality(Requests(log, c, t, u)) + 1
    BY <1>4, <2>2, FS_AddElement
  <2>4. Cardinality(Requests(log, c, t, u)) \in Nat
    BY FS_CardinalityType
  <2> QED
    BY <1>5, <2>3, <2>4 DEF During, new
<1>6. CASE ~(t <= r /\ r <= u)
  <2>1. \A i \in Times : t <= i /\ i <= u => new[c][i] = log[c][i]
    BY <1>1, <1>6
  <2>2. ASSUME NEW q PROVE q \in Requests(new, c, t, u) <=> q \in Requests(log, c, t, u)
    <3>1. q \in Requests(new, c, t, u)
            <=> \E i \in Times : t <= i /\ i <= u /\ q \in {i} \X (1..new[c][i])
      BY InRequests
    <3>2. q \in Requests(log, c, t, u)
            <=> \E i \in Times : t <= i /\ i <= u /\ q \in {i} \X (1..log[c][i])
      BY InRequests
    <3> QED
      BY <2>1, <3>1, <3>2, Zenon
  <2>3. Requests(new, c, t, u) = Requests(log, c, t, u)
    BY <2>2
  <2>4. Cardinality(Requests(log, c, t, u)) \in Nat
    BY FS_CardinalityType
  <2> QED
    BY <1>6, <2>3, <2>4 DEF During, new
<1> QED
  BY <1>5, <1>6

\* The log of another client.
LEMMA OthersLog ==
    ASSUME NEW log \in [Clients -> [Times -> Nat]], NEW c \in Clients, NEW r \in Times,
           NEW d \in Clients, d # c, NEW t, NEW u
    PROVE  Requests(Plus(log, c, r), d, t, u) = Requests(log, d, t, u)
<1>1. Plus(log, c, r)[d] = log[d]
  BY DEF Plus
<1> QED
  BY <1>1 DEF Requests

LEMMA SomeThreads ==
    ASSUME NEW T \in SUBSET Threads
    PROVE  /\ IsFiniteSet(T) /\ Cardinality(T) \in Nat /\ Cardinality(Threads) \in Nat
           /\ Cardinality(T) <= Cardinality(Threads)
           /\ \A th \in Threads : th \notin T => Cardinality(T) < Cardinality(Threads)
<1>1. /\ IsFiniteSet(T) /\ Cardinality(T) \in Nat /\ Cardinality(Threads) \in Nat
      /\ Cardinality(T) <= Cardinality(Threads)
      /\ Cardinality(Threads) = Cardinality(T) => Threads = T
  BY RateAssumption, FS_Subset, FS_CardinalityType
<1> QED
  BY <1>1

\* A call ends.
LEMMA CallEnds ==
    ASSUME TypeOK, NEW th \in Threads, call' = [call EXCEPT ![th] = NoCall], NEW c \in Clients, NEW t, NEW u
    PROVE  /\ Pending(c, t, u)' = Pending(c, t, u) \ {th}
           /\ Late(c, t)' = Late(c, t) \ {th}
<1>1. /\ call'[th].client = None /\ None # c
      /\ \A v \in Threads : v # th => call'[v] = call[v]
  BY RateAssumption DEF TypeOK, NoCall
<1> QED
  BY <1>1 DEF Pending, Late

\* A call begins, with the present reading.
LEMMA CallBegins ==
    ASSUME TypeOK, Readings, NEW th \in Threads, NEW d \in Clients, call[th] = NoCall,
           call' = [call EXCEPT ![th] = [client |-> d, at |-> now]],
           NEW c \in Clients, NEW t \in Nat
    PROVE  /\ \A u \in Nat : u < now => Pending(c, t, u)' = Pending(c, t, u)
           /\ t <= now => Late(c, t)' = Late(c, t)
<1>1. /\ call'[th].client = d /\ call'[th].at = now /\ call[th].client = None /\ None # c
      /\ \A v \in Threads : v # th => call'[v] = call[v]
  BY RateAssumption DEF TypeOK, NoCall
<1>2. now \in Nat
  BY DEF TypeOK, Times
<1> QED
  BY <1>1, <1>2 DEF Pending, Late

-------------------------------------------------------------------------------
(* allow(), once it has the mutex *)

\* What is new of the client's entry.
LEMMA AllowEntry ==
    ASSUME TypeOK, Readings, NEW th \in Threads, Allow(th)
    PROVE  LET c == call[th].client
               r == call[th].at
           IN  /\ c \in Clients /\ r \in Times /\ Window < r /\ r <= now
               /\ entry' \in [Clients -> [last : Times, count : Nat]]
               /\ \A d \in Clients : d # c => entry'[d] = entry[d]
               /\ \/ /\ r - entry[c].last > Window
                     /\ entry'[c].last = r /\ entry'[c].count = 1
                  \/ /\ r - entry[c].last <= Window
                     /\ entry'[c].last = entry[c].last /\ entry'[c].count = entry[c].count + 1
               /\ asked' = Plus(asked, c, r)
               /\ admitted' = IF entry'[c].count > Limit THEN admitted ELSE Plus(admitted, c, r)
               /\ call' = [call EXCEPT ![th] = NoCall] /\ UNCHANGED now
<1> DEFINE c == call[th].client
           r == call[th].at
           e == Reset(entry[c], r)
<1>1. /\ call[th] # NoCall
      /\ entry' = [entry EXCEPT ![c] = [e EXCEPT !.count = @ + 1]]
      /\ asked' = Plus(asked, c, r)
      /\ admitted' = IF e.count + 1 > Limit THEN admitted ELSE Plus(admitted, c, r)
      /\ call' = [call EXCEPT ![th] = NoCall] /\ UNCHANGED now
  BY DEF Allow, Plus
<1>2. c \in Clients /\ r \in Times /\ Window < r /\ r <= now
  <2>1. call[th] \in [client : Clients \cup {None}, at : Times]
    BY DEF TypeOK
  <2>2. c # None
    BY <1>1, <2>1 DEF Readings, NoCall
  <2> QED
    BY <2>1, <2>2 DEF Readings
<1>3. entry[c] \in [last : Times, count : Nat] /\ entry \in [Clients -> [last : Times, count : Nat]]
  BY <1>2 DEF TypeOK
<1>4. /\ e \in [last : Times, count : Nat]
      /\ \/ r - entry[c].last > Window /\ e.last = r /\ e.count = 0
         \/ r - entry[c].last <= Window /\ e.last = entry[c].last /\ e.count = entry[c].count
  <2> HIDE DEF c, r
  <2>1. CASE r - entry[c].last > Window
    BY <1>2, <2>1 DEF Reset
  <2>2. CASE ~(r - entry[c].last > Window)
    <3>1. e = entry[c]
      BY <2>2 DEF Reset
    <3> QED
      BY <1>2, <1>3, <2>2, <3>1, RateAssumption DEF Times
  <2> QED
    BY <2>1, <2>2
<1> HIDE DEF c, r, e
<1>5. /\ entry'[c] = [e EXCEPT !.count = @ + 1]
      /\ \A d \in Clients : d # c => entry'[d] = entry[d]
  BY <1>1, <1>2, <1>3
<1>6. /\ entry'[c] \in [last : Times, count : Nat]
      /\ entry'[c].last = e.last /\ entry'[c].count = e.count + 1
  BY <1>4, <1>5
<1>7. entry' \in [Clients -> [last : Times, count : Nat]]
  BY <1>1, <1>2, <1>3, <1>5, <1>6
<1> QED
  BY <1>1, <1>2, <1>4, <1>5, <1>6, <1>7 DEF c, r

LEMMA AllowAdmits ==
    ASSUME TypeOK, IInv, NEW th \in Threads, Allow(th),
           NEW c, NEW r, c = call[th].client, r = call[th].at
    PROVE  Admitted' /\ Logged' /\ Counted'
<1> DEFINE last == entry[c].last
           count == entry[c].count
<1> USE DEF IInv
<1>1. /\ c \in Clients /\ r \in Times /\ Window < r /\ r <= now
      /\ entry' \in [Clients -> [last : Times, count : Nat]]
      /\ \A d \in Clients : d # c => entry'[d] = entry[d]
      /\ \/ r - last > Window /\ entry'[c].last = r /\ entry'[c].count = 1
         \/ r - last <= Window /\ entry'[c].last = last /\ entry'[c].count = count + 1
      /\ asked' = Plus(asked, c, r)
      /\ admitted' = IF entry'[c].count > Limit THEN admitted ELSE Plus(admitted, c, r)
      /\ call' = [call EXCEPT ![th] = NoCall]
  BY AllowEntry
<1>2. th \in Threads /\ call[th].client = c /\ call[th].at = r
  OBVIOUS
<1>3. last \in Nat /\ count \in Nat /\ last <= now /\ (count = 0 => last = 0) /\ now \in Nat /\ r \in Nat
  BY <1>1 DEF TypeOK, Readings, Times
<1> HIDE DEF last, count
<1>4. asked \in [Clients -> [Times -> Nat]] /\ admitted \in [Clients -> [Times -> Nat]]
  BY DEF TypeOK
<1>5. ASSUME NEW t \in Nat, NEW u \in Nat
      PROVE  /\ IsFiniteSet(Requests(asked', c, t, u)) /\ IsFiniteSet(Requests(admitted', c, t, u))
             /\ During(asked, c, t, u) \in Nat /\ During(admitted, c, t, u) \in Nat
             /\ During(asked', c, t, u) = During(asked, c, t, u) + (IF t <= r /\ r <= u THEN 1 ELSE 0)
             /\ During(admitted', c, t, u)
                  = During(admitted, c, t, u) + (IF t <= r /\ r <= u /\ ~(entry'[c].count > Limit) THEN 1 ELSE 0)
  <2>1. IsFiniteSet(Requests(asked, c, t, u)) /\ IsFiniteSet(Requests(admitted, c, t, u))
    BY <1>1, <1>5 DEF Logged
  <2>2. /\ IsFiniteSet(Requests(asked', c, t, u)) /\ During(asked, c, t, u) \in Nat
        /\ During(asked', c, t, u) = During(asked, c, t, u) + (IF t <= r /\ r <= u THEN 1 ELSE 0)
    BY <1>1, <1>4, <2>1, OneMore
  <2>3. CASE entry'[c].count > Limit
    <3>1. admitted' = admitted
      BY <1>1, <2>3
    <3>2. During(admitted, c, t, u) \in Nat
      BY <2>1, FS_CardinalityType DEF During
    <3> QED
      BY <2>1, <2>2, <2>3, <3>1, <3>2
  <2>4. CASE ~(entry'[c].count > Limit)
    <3>1. admitted' = Plus(admitted, c, r)
      BY <1>1, <2>4
    <3>2. /\ IsFiniteSet(Requests(admitted', c, t, u)) /\ During(admitted, c, t, u) \in Nat
          /\ During(admitted', c, t, u) = During(admitted, c, t, u) + (IF t <= r /\ r <= u THEN 1 ELSE 0)
      <4>1. /\ IsFiniteSet(Requests(Plus(admitted, c, r), c, t, u)) /\ During(admitted, c, t, u) \in Nat
            /\ During(Plus(admitted, c, r), c, t, u)
                 = During(admitted, c, t, u) + (IF t <= r /\ r <= u THEN 1 ELSE 0)
        <5>1. c \in Clients /\ r \in Times
          BY <1>1
        <5>2. admitted \in [Clients -> [Times -> Nat]]
          BY <1>4
        <5>3. IsFiniteSet(Requests(admitted, c, t, u))
          BY <2>1
        <5>4. t \in Nat /\ u \in Nat
          BY <1>5
        <5> QED
          BY ONLY <5>1, <5>2, <5>3, <5>4, OneMore
      <4> QED
        BY <3>1, <4>1
    <3> QED
      BY <2>2, <2>4, <3>2
  <2> QED
    BY <2>3, <2>4
<1>6. ASSUME NEW d \in Clients, d # c, NEW t, NEW u
      PROVE  /\ Requests(asked', d, t, u) = Requests(asked, d, t, u)
             /\ Requests(admitted', d, t, u) = Requests(admitted, d, t, u)
  <2>1. Requests(asked', d, t, u) = Requests(asked, d, t, u)
    <3>1. Requests(Plus(asked, c, r), d, t, u) = Requests(asked, d, t, u)
      <4>1. c \in Clients /\ r \in Times
        BY <1>1
      <4> QED
        BY <1>4, <1>6, <4>1, OthersLog
    <3> QED
      BY <1>1, <3>1
  <2>2. CASE admitted' = admitted
    BY <2>1, <2>2
  <2>3. CASE admitted' = Plus(admitted, c, r)
    BY <1>1, <1>4, <1>6, <2>1, <2>3, OthersLog
  <2> QED
    BY <1>1, <2>2, <2>3
<1>7. Logged'
  <2> SUFFICES ASSUME NEW d \in Clients, NEW t \in Nat, NEW u \in Nat
               PROVE  IsFiniteSet(Requests(admitted', d, t, u)) /\ IsFiniteSet(Requests(asked', d, t, u))
    BY DEF Logged
  <2>1. CASE d = c
    BY <1>5, <2>1
  <2>2. CASE d # c
    <3>1. /\ Requests(asked', d, t, u) = Requests(asked, d, t, u)
          /\ Requests(admitted', d, t, u) = Requests(admitted, d, t, u)
      BY <1>6, <2>2
    <3> QED
      BY <3>1 DEF Logged
  <2> QED
    BY <2>1, <2>2
<1>8. \A d \in Clients : \A t, u :
         /\ Pending(d, t, u)' = Pending(d, t, u) \ {th} /\ Late(d, t)' = Late(d, t) \ {th}
  BY <1>1, CallEnds
<1>9. \A d \in Clients : d # c => \A t, u : th \notin Pending(d, t, u) /\ th \notin Late(d, t)
  BY <1>2 DEF Pending, Late
<1>10. Window \in Nat \ {0} /\ Limit \in Nat \ {0}
  BY RateAssumption
<1>11. ASSUME NEW t \in Times PROVE Admissions(c, t)'
  <2> DEFINE n == During(admitted, c, t, t + Window)
             k == Cardinality(Pending(c, t, t + Window))
             T == Cardinality(Threads)
             n1 == During(admitted', c, t, t + Window)
             k1 == Cardinality(Pending(c, t, t + Window)')
             last1 == entry'[c].last
             count1 == entry'[c].count
  <2>1. t \in Nat /\ t + Window \in Nat
    BY <1>10, RateAssumption DEF Times
  <2>2. /\ n \in Nat
        /\ n1 = n + (IF t <= r /\ r <= t + Window /\ ~(count1 > Limit) THEN 1 ELSE 0)
    BY <1>5, <2>1
  <2>3. k \in Nat /\ k1 \in Nat /\ T \in Nat /\ k1 < T
        /\ (t <= r /\ r <= t + Window => k1 = k - 1)
        /\ (~(t <= r /\ r <= t + Window) => k1 = k)
    <3>1. Pending(c, t, t + Window) \in SUBSET Threads
      BY DEF Pending
    <3>2. Pending(c, t, t + Window)' = Pending(c, t, t + Window) \ {th}
      BY <1>1, <1>8
    <3>3. th \in Pending(c, t, t + Window) <=> t <= r /\ r <= t + Window
      BY <1>2 DEF Pending
    <3>4. /\ IsFiniteSet(Pending(c, t, t + Window)) /\ k \in Nat /\ T \in Nat
      BY <3>1, SomeThreads
    <3>5. /\ th \in Pending(c, t, t + Window) => k1 = k - 1
          /\ th \notin Pending(c, t, t + Window) => k1 = k
      BY <3>2, <3>4, FS_RemoveElement
    <3>6. k1 \in Nat /\ k1 < T
      BY <3>1, <3>2, SomeThreads
    <3> QED
      BY <3>3, <3>4, <3>5, <3>6
  <2>4. /\ last + Window < t => n = 0
        /\ last < t /\ t <= last + Window => n = 0 \/ (n < count /\ n < Limit)
        /\ t <= last /\ last <= t + Window => n < count + Limit /\ n < 2 * Limit
        /\ t + Window < last => n + k < 2 * Limit + T - 1
    <3>1. Admissions(c, t)
      BY <1>1 DEF Admitted
    <3> QED
      BY <3>1 DEF Admissions, last, count
  <2>5. \/ r - last > Window /\ last1 = r /\ count1 = 1
        \/ r - last <= Window /\ last1 = last /\ count1 = count + 1
    BY <1>1
  <2> HIDE DEF n, k, T, n1, k1, last1, count1
  <2>6. /\ last1 + Window < t => n1 = 0
        /\ last1 < t /\ t <= last1 + Window => n1 = 0 \/ (n1 < count1 /\ n1 < Limit)
        /\ t <= last1 /\ last1 <= t + Window => n1 < count1 + Limit /\ n1 < 2 * Limit
        /\ t + Window < last1 => n1 + k1 < 2 * Limit + T - 1
    <3>1. CASE r - last > Window /\ last1 = r /\ count1 = 1
      BY <1>3, <1>10, <2>1, <2>2, <2>3, <2>4, <3>1
    <3>2. CASE r - last <= Window /\ last1 = last /\ count1 = count + 1
      BY <1>1, <1>3, <1>10, <2>1, <2>2, <2>3, <2>4, <3>2
    <3> QED
      BY <2>5, <3>1, <3>2
  <2> QED
    BY <2>6 DEF Admissions, n1, k1, last1, count1, T
<1>12. ASSUME NEW d \in Clients, d # c, NEW t \in Times PROVE Admissions(d, t)'
  <2>1. During(admitted', d, t, t + Window) = During(admitted, d, t, t + Window)
    BY <1>6, <1>12 DEF During
  <2>2. Pending(d, t, t + Window)' = Pending(d, t, t + Window)
    BY <1>8, <1>9, <1>12
  <2>3. entry'[d] = entry[d] /\ Admissions(d, t)
    BY <1>1, <1>12 DEF Admitted
  <2> QED
    BY <2>1, <2>2, <2>3 DEF Admissions
<1>13. Admitted'
  BY <1>11, <1>12 DEF Admitted, Times
\* The new window has the thread that began it among its requests, and no late one yet.
<1>14. ASSUME NEW d \in Clients, NEW last1, NEW count1, last1 = entry'[d].last, count1 = entry'[d].count
       PROVE  count1 = 0 \/ count1 + Cardinality(Late(d, last1)')
                              < During(asked', d, last1, last1 + Window) + Cardinality(Threads)
  <2>1. last1 \in Nat /\ last1 + Window \in Nat /\ count1 \in Nat
    BY <1>1, <1>10, <1>14, RateAssumption DEF Times
  <2>2. /\ IsFiniteSet(Late(d, last1)) /\ Cardinality(Late(d, last1)) \in Nat
        /\ Cardinality(Threads) \in Nat
        /\ Cardinality(Late(d, last1) \ {th}) \in Nat
        /\ Cardinality(Late(d, last1) \ {th}) < Cardinality(Threads)
    <3>1. Late(d, last1) \in SUBSET Threads /\ Late(d, last1) \ {th} \in SUBSET Threads
      BY DEF Late
    <3> QED
      BY <3>1, SomeThreads
  <2>3. Late(d, last1)' = Late(d, last1) \ {th}
    BY <1>8
  <2>4. CASE d # c
    <3>1. entry'[d] = entry[d] /\ During(asked', d, last1, last1 + Window) = During(asked, d, last1, last1 + Window)
      BY <1>1, <1>6, <2>4 DEF During
    <3>2. Late(d, last1)' = Late(d, last1)
      BY <1>9, <2>3, <2>4
    <3> QED
      BY <1>14, <3>1, <3>2 DEF Counted
  <2>5. CASE d = c
    <3> DEFINE m == During(asked, c, last1, last1 + Window)
               m1 == During(asked', c, last1, last1 + Window)
    <3>1. m \in Nat /\ m1 = m + (IF last1 <= r /\ r <= last1 + Window THEN 1 ELSE 0)
      BY <1>5, <2>1
    <3>2. /\ th \in Late(c, last1) <=> r < last1
          /\ th \in Late(c, last1) => Cardinality(Late(c, last1) \ {th}) = Cardinality(Late(c, last1)) - 1
          /\ th \notin Late(c, last1) => Cardinality(Late(c, last1) \ {th}) = Cardinality(Late(c, last1))
      <4>1. th \in Late(c, last1) <=> r < last1
        BY <1>2 DEF Late
      <4> QED
        BY <2>2, <2>5, <4>1, FS_RemoveElement
    <3>3. \/ r - last > Window /\ last1 = r /\ count1 = 1
          \/ r - last <= Window /\ last1 = last /\ count1 = count + 1
      BY <1>1, <1>14, <2>5
    <3>4. last1 = last => count = 0 \/ count + Cardinality(Late(c, last1)) < m + Cardinality(Threads)
      BY <1>1 DEF Counted, last, count
    <3> HIDE DEF m, m1
    <3>5. CASE r - last > Window /\ last1 = r /\ count1 = 1
      <4>1. m1 = m + 1
        BY <1>3, <1>10, <3>1, <3>5
      <4>2. 1 + Cardinality(Late(c, last1) \ {th}) < m1 + Cardinality(Threads)
        BY <2>2, <2>5, <3>1, <4>1
      <4> QED
        BY <2>3, <2>5, <3>5, <4>2 DEF m1
    <3>6. CASE r - last <= Window /\ last1 = last /\ count1 = count + 1
      <4>1. count # 0
        BY <1>1, <1>3, <1>10, <3>6
      <4>2. count + Cardinality(Late(c, last1)) < m + Cardinality(Threads)
        BY <3>4, <3>6, <4>1
      <4>3. CASE r < last1
        <5>1. m1 = m
          BY <1>3, <3>1, <3>6, <4>3
        <5>2. count1 + Cardinality(Late(c, last1) \ {th}) < m1 + Cardinality(Threads)
          BY <1>3, <2>2, <2>5, <3>1, <3>2, <3>6, <4>2, <4>3, <5>1
        <5> QED
          BY <2>3, <2>5, <5>2 DEF m1
      <4>4. CASE ~(r < last1)
        <5>1. m1 = m + 1
          BY <1>3, <1>10, <3>1, <3>6, <4>4
        <5>2. count1 + Cardinality(Late(c, last1) \ {th}) < m1 + Cardinality(Threads)
          BY <1>3, <2>2, <2>5, <3>1, <3>2, <3>6, <4>2, <4>4, <5>1
        <5> QED
          BY <2>3, <2>5, <5>2 DEF m1
      <4> QED
        BY <4>3, <4>4
    <3> QED
      BY <3>3, <3>5, <3>6
  <2> QED
    BY <2>4, <2>5
<1>15. Counted'
  BY <1>14 DEF Counted, Late
<1> QED
  BY <1>7, <1>13, <1>15

LEMMA AllowStep ==
    ASSUME TypeOK, IInv, NEW th \in Threads, Allow(th)
    PROVE  TypeOK' /\ IInv'
<1>1. PICK c, r : c = call[th].client /\ r = call[th].at
  OBVIOUS
<1>2. Admitted' /\ Logged' /\ Counted'
  BY <1>1, AllowAdmits
<1>3. /\ c \in Clients /\ r \in Times /\ Window < r /\ r <= now
      /\ entry' \in [Clients -> [last : Times, count : Nat]]
      /\ \A d \in Clients : d # c => entry'[d] = entry[d]
      /\ \/ r - entry[c].last > Window /\ entry'[c].last = r /\ entry'[c].count = 1
         \/ r - entry[c].last <= Window /\ entry'[c].last = entry[c].last
                                        /\ entry'[c].count = entry[c].count + 1
      /\ asked' = Plus(asked, c, r)
      /\ admitted' = IF entry'[c].count > Limit THEN admitted ELSE Plus(admitted, c, r)
      /\ call' = [call EXCEPT ![th] = NoCall] /\ UNCHANGED now
  BY <1>1, AllowEntry DEF IInv
<1>4. \A log \in [Clients -> [Times -> Nat]] : Plus(log, c, r) \in [Clients -> [Times -> Nat]]
  BY <1>3 DEF Plus
<1>5. NoCall \in [client : Clients \cup {None}, at : Times]
  BY RateAssumption DEF NoCall, Times
<1>6. TypeOK'
  <2>1. call' \in [Threads -> [client : Clients \cup {None}, at : Times]]
    BY <1>3, <1>5 DEF TypeOK
  <2>2. asked' \in [Clients -> [Times -> Nat]] /\ admitted' \in [Clients -> [Times -> Nat]]
    BY <1>3, <1>4 DEF TypeOK
  <2>3. now' \in Times
    BY <1>3 DEF TypeOK
  <2> QED
    BY <1>3, <2>1, <2>2, <2>3 DEF TypeOK
<1>7. Readings'
  <2>1. \A v \in Threads : v # th => call'[v] = call[v]
    BY <1>3 DEF TypeOK
  <2>2. call'[th].client = None /\ call'[th].at = 0
    BY <1>3 DEF TypeOK, NoCall
  <2>3. \A d \in Clients : entry'[d].last <= now' /\ (entry'[d].count = 0 => entry'[d].last = 0)
    <3> SUFFICES ASSUME NEW d \in Clients
                 PROVE  entry'[d].last <= now /\ (entry'[d].count = 0 => entry'[d].last = 0)
      BY <1>3
    <3>1. entry[d].last <= now /\ (entry[d].count = 0 => entry[d].last = 0) /\ entry[d].count \in Nat
      BY DEF IInv, Readings, TypeOK
    <3>2. CASE d = c
      BY <1>3, <3>1, <3>2
    <3>3. CASE d # c
      BY <1>3, <3>1, <3>3
    <3> QED
      BY <3>2, <3>3
  <2> QED
    BY <1>3, <2>1, <2>2, <2>3 DEF IInv, Readings
<1> QED
  BY <1>2, <1>6, <1>7 DEF IInv

\* A reading is taken: it is not older than the client's window.
LEMMA ReadClockStep ==
    ASSUME TypeOK, IInv, NEW th \in Threads, NEW d \in Clients, ReadClock(th, d)
    PROVE  TypeOK' /\ IInv'
<1> USE DEF IInv
<1>1. /\ call[th] = NoCall /\ call' = [call EXCEPT ![th] = [client |-> d, at |-> now]]
      /\ UNCHANGED <<now, entry, admitted, asked>>
  BY DEF ReadClock
<1>2. TypeOK'
  <2>1. [client |-> d, at |-> now] \in [client : Clients \cup {None}, at : Times]
    BY DEF TypeOK
  <2>2. call' \in [Threads -> [client : Clients \cup {None}, at : Times]]
    BY <1>1, <2>1 DEF TypeOK
  <2> QED
    BY <1>1, <2>2 DEF TypeOK
<1>3. /\ call'[th].client = d /\ call'[th].at = now
      /\ \A v \in Threads : v # th => call'[v] = call[v]
  BY <1>1 DEF TypeOK
<1>4. now \in Nat /\ Window \in Nat
  BY RateAssumption DEF TypeOK, Times
<1>5. Readings'
  <2>1. d # None
    BY RateAssumption
  <2> QED
    BY <1>1, <1>3, <1>4, <2>1 DEF Readings
<1>6. Logged'
  BY <1>1 DEF Logged
<1>7. ASSUME NEW c \in Clients, NEW t \in Times PROVE Admissions(c, t)'
  <2>1. /\ t \in Nat /\ t + Window \in Nat /\ entry[c].last \in Nat /\ entry[c].last <= now
    BY <1>4, RateAssumption DEF TypeOK, Times, Readings
  <2>2. t + Window < now => Pending(c, t, t + Window)' = Pending(c, t, t + Window)
    BY <1>1, <2>1, CallBegins
  <2>3. t + Window < entry[c].last => t + Window < now
    BY <1>4, <2>1
  <2>4. Admissions(c, t)
    BY DEF Admitted
  <2> QED
    BY <1>1, <2>2, <2>3, <2>4 DEF Admissions
<1>8. Admitted'
  BY <1>7 DEF Admitted, Times
<1>9. Counted'
  <2> SUFFICES ASSUME NEW c \in Clients, NEW last, last = entry[c].last
               PROVE  entry[c].count = 0 \/ entry[c].count + Cardinality(Late(c, last)')
                          < During(asked, c, last, last + Window) + Cardinality(Threads)
    BY <1>1 DEF Counted, Late
  <2>1. last \in Nat /\ last <= now
    BY DEF TypeOK, Times, Readings
  <2>2. Late(c, last)' = Late(c, last)
    BY <1>1, <2>1, CallBegins
  <2> QED
    BY <2>2 DEF Counted
<1> QED
  BY <1>2, <1>5, <1>6, <1>8, <1>9

LEMMA TickStep ==
    ASSUME TypeOK, IInv, Tick \/ UNCHANGED vars
    PROVE  TypeOK' /\ IInv'
<1>1. UNCHANGED <<entry, call, admitted, asked>> /\ now' \in {now, now + 1} /\ now' \in Times
  BY RateAssumption DEF Tick, vars, TypeOK, Times
<1>2. now \in Nat /\ Window \in Nat
  BY RateAssumption DEF TypeOK, Times
<1>3. TypeOK'
  BY <1>1 DEF TypeOK
<1>4. Readings'
  <2>1. \A c \in Clients : entry[c].last \in Nat
    BY DEF TypeOK, Times
  <2>2. \A v \in Threads : call[v].at \in Nat
    BY DEF TypeOK, Times
  <2> QED
    BY <1>1, <1>2, <2>1, <2>2 DEF IInv, Readings
<1>5. Logged'
  BY <1>1 DEF IInv, Logged
<1>6. Admitted'
  BY <1>1 DEF IInv, Admitted, Admissions, Pending, Times
<1>7. Counted'
  BY <1>1 DEF IInv, Counted, Late
<1> QED
  BY <1>3, <1>4, <1>5, <1>6, <1>7 DEF IInv

LEMMA InitInv == Init => TypeOK /\ IInv
<1> SUFFICES ASSUME Init PROVE TypeOK /\ IInv
  OBVIOUS
<1>1. now = Window + 1 /\ now \in Times /\ 0 \in Times /\ Window \in Nat
  BY RateAssumption DEF Init, Times
<1>2. /\ \A c \in Clients : entry[c].last = 0 /\ entry[c].count = 0
      /\ \A th \in Threads : call[th].client = None /\ call[th].at = 0
      /\ \A c \in Clients : \A i \in Times : admitted[c][i] = 0 /\ asked[c][i] = 0
  BY DEF Init, NoCall
<1>3. TypeOK
  BY <1>1 DEF Init, TypeOK, NoCall
<1>4. Readings
  BY <1>1, <1>2 DEF Readings
<1>5. ASSUME NEW c \in Clients, NEW t, NEW u
      PROVE  Requests(admitted, c, t, u) = {} /\ Requests(asked, c, t, u) = {}
  <2>1. 1..0 = {}
    OBVIOUS
  <2>2. \A i \in Times : {i} \X (1..admitted[c][i]) = {} /\ {i} \X (1..asked[c][i]) = {}
    BY <1>2, <2>1
  <2> QED
    BY <2>2, InRequests, Zenon
<1>6. Logged
  BY <1>5, FS_EmptySet DEF Logged
<1>7. Counted
  BY <1>2 DEF Counted
<1>8. ASSUME NEW c \in Clients, NEW t \in Times PROVE Admissions(c, t)
  <2>1. During(admitted, c, t, t + Window) = 0
    BY <1>5, FS_EmptySet DEF During
  <2>2. t \in Nat /\ ~(t + Window < entry[c].last)
    BY <1>1, <1>2, RateAssumption DEF Times
  <2>3. Limit \in Nat \ {0} /\ entry[c].count = 0
    BY <1>2, RateAssumption
  <2> QED
    BY <2>1, <2>2, <2>3 DEF Admissions
<1> QED
  BY <1>3, <1>4, <1>6, <1>7, <1>8 DEF IInv, Admitted

LEMMA NextInv == TypeOK /\ IInv /\ [Next]_vars => (TypeOK /\ IInv)'
<1> SUFFICES ASSUME TypeOK, IInv, [Next]_vars PROVE TypeOK' /\ IInv'
  OBVIOUS
<1>1. ASSUME NEW th \in Threads, NEW c \in Clients, ReadClock(th, c) PROVE TypeOK' /\ IInv'
  BY <1>1, ReadClockStep
<1>2. ASSUME NEW th \in Threads, Allow(th) PROVE TypeOK' /\ IInv'
  BY <1>2, AllowStep
<1>3. CASE Tick \/ UNCHANGED vars
  BY <1>3, TickStep
<1> QED
  BY <1>1, <1>2, <1>3 DEF Next

\* The type invariant of the limiter.
THEOREM TypeCorrect == Spec => []TypeOK
BY InitInv, NextInv, PTL DEF Spec

\* The inductive invariant holds throughout.
LEMMA Invariance == Spec => [](TypeOK /\ IInv)
BY InitInv, NextInv, PTL DEF Spec

\* In no second does allow() admit twice the limit of a client, plus one request for
\* each thread but one, whatever the limit and however the threads interleave.
THEOREM BurstIsBounded == Spec => []BurstBounded
<1>1. TypeOK /\ IInv => BurstBounded
  <2> SUFFICES ASSUME TypeOK, IInv, NEW c \in Clients, NEW t \in Times
               PROVE  During(admitted, c, t, t + Window) < 2 * Limit + Cardinality(Threads) - 1
    BY DEF BurstBounded
  <2>1. t \in Nat /\ t + Window \in Nat /\ Window \in Nat /\ Limit \in Nat \ {0}
    BY RateAssumption DEF Times
  <2>2. During(admitted, c, t, t + Window) \in Nat
    BY <2>1, FS_CardinalityType DEF IInv, Logged, During
  <2>3. Cardinality(Pending(c, t, t + Window)) \in Nat /\ Cardinality(Threads) \in Nat
    <3>1. Pending(c, t, t + Window) \in SUBSET Threads
      BY DEF Pending
    <3> QED
      BY <3>1, SomeThreads
  <2>4. entry[c].last \in Nat /\ entry[c].count \in Nat
    BY DEF TypeOK, Times
  <2>5. Admissions(c, t)
    BY DEF IInv, Admitted
  <2>6. Cardinality(Threads) # 0
    BY RateAssumption, FS_EmptySet
  <2> QED
    BY <2>1, <2>2, <2>3, <2>4, <2>5, <2>6 DEF Admissions
<1> QED
  BY <1>1, Invariance, PTL

\* allow() turns a client away only if it asked for more than the limit in the second
\* of its window, but for the requests of late threads.
THEOREM NoEarlyRefusal == Spec => []RefusedOnlyOverLimit
<1>1. TypeOK /\ IInv => RefusedOnlyOverLimit
  <2> SUFFICES ASSUME TypeOK, IInv, NEW c \in Clients, entry[c].count > Limit
               PROVE  During(asked, c, entry[c].last, entry[c].last + Window) + Cardinality(Threads) - 1 > Limit
    BY DEF RefusedOnlyOverLimit
  <2> DEFINE last == entry[c].last
             count == entry[c].count
  <2>1. last \in Nat /\ last + Window \in Nat /\ count \in Nat /\ Limit \in Nat \ {0}
    BY RateAssumption DEF TypeOK, Times
  <2>2. During(asked, c, last, last + Window) \in Nat
    BY <2>1, FS_CardinalityType DEF IInv, Logged, During
  <2>3. Cardinality(Late(c, last)) \in Nat /\ Cardinality(Threads) \in Nat
    <3>1. Late(c, last) \in SUBSET Threads
      BY DEF Late
    <3> QED
      BY <3>1, SomeThreads
  <2>4. count = 0 \/ count + Cardinality(Late(c, last))
                       < During(asked, c, last, last + Window) + Cardinality(Threads)
    BY DEF IInv, Counted
  <2> QED
    BY <2>1, <2>2, <2>3, <2>4
<1> QED
  BY <1>1, Invariance, PTL
===============================================================================
