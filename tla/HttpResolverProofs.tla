-------------------------- MODULE HttpResolverProofs --------------------------
(***************************************************************************)
(* Connections, their owners and their reconnects, for every size of the   *)
(* pool, every number of query threads and of reconnect workers, and every *)
(* limit of retries.                                                       *)
(*                                                                         *)
(* The two halves lean on each other in one place: a connection is managed *)
(* once because only its owner manages it, after it has unmanaged it.      *)
(***************************************************************************)
EXTENDS HttpResolver, TLAPS, FiniteSetTheorems, WellFoundedInduction

WorkType  == [conn : Conns, live : BOOLEAN, retries : Nat]
EntryType == [conn : Conns, pending : BOOLEAN]
CheckType == [at : Nat, conn : Conns, live : BOOLEAN]

ControllerType ==
    /\ connected \in [Conns -> BOOLEAN]
    /\ managed \in Seq(EntryType)
    /\ count \in Int
    /\ queue \in Seq(WorkType)
    /\ worker \in [Workers -> [pc : {"wait", "open", "gone"}, work : WorkType \cup {None}]]
    /\ round \in [pc : {"idle", "busy", "gone"}, checks : SUBSET CheckType, recs : SUBSET (Nat \ {0})]
    /\ stopping \in {"no", "join", "drain", "done"}
    /\ shifted \in BOOLEAN

Places == {"idle", "race", "report", "retry", "exchange", "sync", "syncMore", "claimed", "opening",
           "syncExchange", "start"}

ActorType ==
    /\ inUse \in [Conns -> BOOLEAN]
    /\ at \in [Actors -> [pc : Places, conn : 1..(NumConns + 1)]]
    /\ warm \in [conn : 1..(NumConns + 1), busy : BOOLEAN]
    /\ leaked \subseteq Conns
    /\ overran \in BOOLEAN

\* The type invariant of the composition.
TypeOK == ControllerType /\ ActorType

-------------------------------------------------------------------------------
(* The inductive invariant: who has a connection *)

Has(a, c) == at[a].pc \in Busy /\ at[a].conn = c
WarmHas(c) == warm.busy /\ warm.conn = c

\* Whoever has a connection has one of the pool, and a task of openPoolAsync() or
\* warmUp() only ever has its own.
OwnPlaces ==
    /\ \A a \in Actors : at[a].pc \in Busy => at[a].conn \in Conns
    /\ warm.busy => warm.conn \in Conns
    /\ \A a \in WarmTask \cup PoolTask : at[a].pc # "idle" => at[a].conn = a[2]

OneOwner ==
    ~overran => \A c \in Conns :
        /\ \A a, b \in Actors : Has(a, c) /\ Has(b, c) => a = b
        /\ WarmHas(c) => \A a \in Actors : ~Has(a, c)
        /\ c \in leaked => ~WarmHas(c) /\ \A a \in Actors : ~Has(a, c)
        /\ inUse[c] <=> (c \in leaked \/ WarmHas(c) \/ \E a \in Actors : Has(a, c))

\* Only the tasks of warmUp() wait to be started.
Started == \A a \in Actors : at[a].pc = "start" => a \in WarmTask

\* Who opens a connection has unmanaged the old stream.
OpenedUnmanaged == ~overran => \A a \in Actors : at[a].pc = "opening" => Entries(at[a].conn) = {}

-------------------------------------------------------------------------------
(* The inductive invariant: whose hands a reconnect is in *)

Man(c)  == \E i \in DOMAIN managed : managed[i].conn = c
Pend(c) == \E i \in DOMAIN managed : managed[i].conn = c /\ managed[i].pending

HasWork(w, c) == worker[w].work # None /\ worker[w].work.conn = c /\ worker[w].work.live
InQueue(c)  == \E i \in DOMAIN queue : queue[i].conn = c
AtWorker(c) == \E w \in Workers : HasWork(w, c)
InRound(c)  == \E j \in round.recs : j \in DOMAIN managed /\ managed[j].conn = c

\* The reconnect of a connection is in one place, and there once.
OneHand ==
    /\ \A i, j \in DOMAIN queue : queue[i].conn = queue[j].conn => i = j
    /\ \A v, w \in Workers : \A c \in Conns : HasWork(v, c) /\ HasWork(w, c) => v = w
    /\ \A c \in Conns : /\ ~(InQueue(c) /\ AtWorker(c)) /\ ~(InQueue(c) /\ InRound(c))
                        /\ ~(AtWorker(c) /\ InRound(c))

\* A mark stands for a reconnect, and is on a connection that is down.
Marked ==
    \A c \in Conns :
        /\ Pend(c) <=> (InQueue(c) \/ AtWorker(c) \/ InRound(c))
        /\ Pend(c) => ~connected[c]

UpConns == {c \in Conns : connected[c] /\ Man(c)}

\* Entries, references and the count.
Consistent ==
    /\ \A i, j \in DOMAIN managed : managed[i].conn = managed[j].conn => i = j
    /\ round.recs \subseteq DOMAIN managed
    /\ count = Cardinality(UpConns)

Shape ==
    /\ \A i \in DOMAIN queue : queue[i].live
    /\ \A w \in Workers : worker[w].pc = "open" <=> worker[w].work # None
    /\ round.pc = "idle" => round.recs = {} /\ round.checks = {}

Controlled == OneHand /\ Marked /\ Consistent /\ Shape
ControllerInv == ~shifted => Controlled

IInv == OwnPlaces /\ Started /\ OneOwner /\ OpenedUnmanaged /\ ControllerInv

-------------------------------------------------------------------------------
(* Facts about the operators *)

LEMMA LeastElement ==
    ASSUME NEW T \in SUBSET Nat, T # {}
    PROVE  Min(T) \in T
<1> DEFINE R == {ss \in Nat \X Nat : ss[1] < ss[2]}
<1>1. IsWellFoundedOn(R, Nat)
  BY NatLessThanWellFounded DEF OpToRel
<1>2. \E x \in T : \A y \in T : ~ (<<y, x>> \in R)
  <2> HIDE DEF R
  <2> QED
    BY <1>1, WFMin
<1>3. \A x, y \in T : ~ (<<y, x>> \in R) => x <= y
  OBVIOUS
<1> QED
  BY <1>2, <1>3 DEF Min

LEMMA ErasedElements ==
    ASSUME NEW S, NEW s \in Seq(S), NEW i \in DOMAIN s
    PROVE  /\ Erased(s, i) \in Seq(S)
           /\ DOMAIN Erased(s, i) = 1..(Len(s) - 1)
           /\ \A j \in 1..(Len(s) - 1) : Erased(s, i)[j] = IF j < i THEN s[j] ELSE s[j + 1]
<1>1. DOMAIN s = 1..Len(s) /\ Len(s) \in Nat /\ Len(s) - 1 \in Nat
  OBVIOUS
<1>2. \A j \in 1..(Len(s) - 1) : (IF j < i THEN s[j] ELSE s[j + 1]) \in S
  BY <1>1
<1> QED
  BY <1>1, <1>2 DEF Erased

LEMMA UpTo ==
    ASSUME NEW n \in Nat
    PROVE  IsFiniteSet(1..n) /\ Cardinality(1..n) = n
<1>1. Cardinality(1..n) = IF 1 > n THEN 0 ELSE n - 1 + 1
  BY FS_Interval
<1> QED
  BY <1>1, FS_Interval

\* An interval without one of its numbers is counted up by leaving that one out.
LEMMA IntervalWithout ==
    ASSUME NEW n \in Nat, NEW p \in 1..n, NEW i \in (1..n) \ {p}
    PROVE  Cardinality({k \in (1..n) \ {p} : k <= i}) = IF i < p THEN i ELSE i - 1
<1>1. CASE i < p
  <2>1. {k \in (1..n) \ {p} : k <= i} = 1..i
    BY <1>1
  <2>2. Cardinality(1..i) = i
    BY UpTo
  <2> QED
    BY <1>1, <2>1, <2>2
<1>2. CASE i > p
  <2>1. {k \in (1..n) \ {p} : k <= i} = (1..i) \ {p}
    BY <1>2
  <2>2. IsFiniteSet(1..i) /\ Cardinality(1..i) = i /\ p \in 1..i
    BY <1>2, UpTo
  <2>3. Cardinality((1..i) \ {p}) = i - 1
    BY <2>2, FS_RemoveElement
  <2> QED
    BY <1>2, <2>1, <2>3
<1> QED
  BY <1>1, <1>2

\* What unmanage() leaves of a queue in which a connection has work at most once.
LEMMA WithoutOne ==
    ASSUME NEW S, NEW s \in Seq(S), NEW c, NEW p \in DOMAIN s, s[p].conn = c,
           \A i \in DOMAIN s : s[i].conn = c => i = p
    PROVE  Without(s, c) = Erased(s, p)
<1> DEFINE n == Len(s)
           kept == {i \in DOMAIN s : s[i].conn # c}
           nth(j) == CHOOSE i \in kept : Cardinality({k \in kept : k <= i}) = j
<1>1. n \in Nat /\ DOMAIN s = 1..n /\ p \in 1..n
  OBVIOUS
<1>2. kept = (1..n) \ {p}
  BY <1>1
<1>3. Cardinality(kept) = n - 1
  <2>1. IsFiniteSet(1..n) /\ Cardinality(1..n) = n
    BY <1>1, UpTo
  <2> HIDE DEF n, kept
  <2> QED
    BY <1>1, <1>2, <2>1, FS_RemoveElement
<1>4. ASSUME NEW j \in 1..(n - 1) PROVE nth(j) = IF j < p THEN j ELSE j + 1
  <2> DEFINE m == IF j < p THEN j ELSE j + 1
  <2>1. m \in (1..n) \ {p}
    BY <1>1
  <2>2. \A i \in (1..n) \ {p} :
          Cardinality({k \in (1..n) \ {p} : k <= i}) = IF i < p THEN i ELSE i - 1
    BY <1>1, IntervalWithout
  <2>3. \A i \in kept : Cardinality({k \in kept : k <= i}) = j <=> i = m
    <3> HIDE DEF n, kept
    <3> QED
      BY <1>1, <1>2, <2>1, <2>2
  <2>4. m \in kept
    BY <1>2, <2>1
  <2> QED
    BY <2>3, <2>4
<1>5. Without(s, c) = [j \in 1..Cardinality(kept) |-> s[nth(j)]]
  BY DEF Without
<1> HIDE DEF n, kept, nth
<1>6. Without(s, c) = [j \in 1..(n - 1) |-> s[nth(j)]]
  BY <1>3, <1>5
<1>7. \A j \in 1..(n - 1) : s[nth(j)] = IF j < p THEN s[j] ELSE s[j + 1]
  BY <1>1, <1>4
<1> QED
  BY <1>6, <1>7 DEF Erased, n

LEMMA WithoutNone ==
    ASSUME NEW S, NEW s \in Seq(S), NEW c, \A i \in DOMAIN s : s[i].conn # c
    PROVE  Without(s, c) = s
<1> DEFINE n == Len(s)
           kept == {i \in DOMAIN s : s[i].conn # c}
           nth(j) == CHOOSE i \in kept : Cardinality({k \in kept : k <= i}) = j
<1>1. n \in Nat /\ DOMAIN s = 1..n /\ kept = 1..n
  OBVIOUS
<1>2. Cardinality(kept) = n
  <2> HIDE DEF n, kept
  <2> QED
    BY <1>1, UpTo
<1>3. ASSUME NEW j \in 1..n PROVE nth(j) = j
  <2>1. ASSUME NEW i \in kept PROVE Cardinality({k \in kept : k <= i}) = i
    <3>1. {k \in kept : k <= i} = 1..i
      BY <1>1
    <3>2. i \in Nat
      BY <1>1
    <3> QED
      BY <3>1, <3>2, UpTo
  <2>2. j \in kept
    BY <1>1
  <2> HIDE DEF kept
  <2> QED
    BY <2>1, <2>2
<1>4. Without(s, c) = [j \in 1..Cardinality(kept) |-> s[nth(j)]]
  BY DEF Without
<1> HIDE DEF n, kept, nth
<1>5. Without(s, c) = [j \in 1..n |-> s[nth(j)]]
  BY <1>2, <1>4
<1>6. \A j \in 1..n : s[nth(j)] = s[j]
  BY <1>3
<1>7. s = [j \in 1..n |-> s[j]]
  BY <1>1
<1> QED
  BY <1>5, <1>6, <1>7

-------------------------------------------------------------------------------
(* The operations of the controller.  Each proof first says what the operation *)
(* does to the five predicates on connections, and then draws the conclusion.  *)

LEMMA Elements ==
    ASSUME ControllerType
    PROVE  /\ DOMAIN managed = 1..Len(managed) /\ Len(managed) \in Nat
           /\ \A i \in DOMAIN managed : /\ managed[i] \in EntryType
                                        /\ managed[i].conn \in Conns /\ managed[i].pending \in BOOLEAN
           /\ DOMAIN queue = 1..Len(queue) /\ Len(queue) \in Nat
           /\ \A i \in DOMAIN queue : queue[i] \in WorkType /\ queue[i].conn \in Conns
<1>1. managed \in Seq(EntryType) /\ queue \in Seq(WorkType)
  BY DEF ControllerType
<1>2. \A i \in DOMAIN managed : managed[i] \in EntryType
  BY <1>1
<1>3. \A i \in DOMAIN queue : queue[i] \in WorkType
  BY <1>1
<1> QED
  BY <1>1, <1>2, <1>3 DEF EntryType, WorkType

LEMMA MarkEntry ==
    ASSUME ControllerType, NEW i \in DOMAIN managed, NEW b \in BOOLEAN,
           managed' = [managed EXCEPT ![i].pending = b]
    PROVE  /\ managed' \in Seq(EntryType) /\ DOMAIN managed' = DOMAIN managed
           /\ \A j \in DOMAIN managed : /\ managed'[j].conn = managed[j].conn
                                        /\ managed'[j].pending = IF j = i THEN b ELSE managed[j].pending
<1> DEFINE e == [managed[i] EXCEPT !.pending = b]
<1>1. e \in EntryType /\ e.conn = managed[i].conn /\ e.pending = b
  BY Elements DEF EntryType
<1>2. managed' = [managed EXCEPT ![i] = e]
  OBVIOUS
<1> HIDE DEF e
<1>3. /\ DOMAIN managed' = DOMAIN managed
      /\ \A j \in DOMAIN managed : managed'[j] = IF j = i THEN e ELSE managed[j]
  BY <1>2
<1>4. managed' \in Seq(EntryType)
  <2>1. managed' = [j \in 1..Len(managed) |-> IF j = i THEN e ELSE managed[j]]
    BY <1>2, Elements DEF ControllerType
  <2>2. \A j \in 1..Len(managed) : (IF j = i THEN e ELSE managed[j]) \in EntryType
    BY <1>1, Elements
  <2>3. managed' \in [1..Len(managed) -> EntryType]
    BY <2>1, <2>2
  <2> QED
    BY <2>3, Elements
<1> QED
  BY <1>1, <1>3, <1>4

LEMMA UpFinite == IsFiniteSet(UpConns) /\ Cardinality(UpConns) \in Nat
<1>1. IsFiniteSet(Conns)
  BY HttpAssumption, UpTo
<1>2. UpConns \in SUBSET Conns
  BY DEF UpConns
<1> QED
  BY <1>1, <1>2, FS_Subset, FS_CardinalityType

LEMMA ManageStep ==
    ASSUME ControllerType, Controlled, NEW c \in Conns, ~Man(c), Manage(c)
    PROVE  ControllerType' /\ Controlled'
<1> DEFINE e == [conn |-> c, pending |-> FALSE]
<1>1. /\ managed' = Append(managed, e) /\ e \in EntryType
      /\ connected' = [connected EXCEPT ![c] = TRUE] /\ count' = count + 1
      /\ UNCHANGED <<queue, worker, round, stopping, shifted>>
  BY DEF Manage, EntryType
<1> HIDE DEF e
<1>2. /\ managed' \in Seq(EntryType)
      /\ DOMAIN managed' = DOMAIN managed \cup {Len(managed) + 1}
      /\ Len(managed) + 1 \notin DOMAIN managed
      /\ \A i \in DOMAIN managed : managed'[i] = managed[i]
      /\ managed'[Len(managed) + 1] = e
  BY <1>1, Elements DEF ControllerType
<1>3. e.conn = c /\ e.pending = FALSE
  BY DEF e
<1>4. ControllerType'
  BY <1>1, <1>2 DEF ControllerType
<1>5. \A d \in Conns : /\ Man(d)' <=> Man(d) \/ d = c
                       /\ Pend(d)' <=> Pend(d)
  BY <1>2, <1>3 DEF Man, Pend
<1>6. \A d \in Conns : InQueue(d)' <=> InQueue(d)
  BY <1>1 DEF InQueue
<1>7. \A d \in Conns : AtWorker(d)' <=> AtWorker(d)
  BY <1>1 DEF AtWorker, HasWork
<1>8. \A d \in Conns : InRound(d)' <=> InRound(d)
  BY <1>1, <1>2 DEF InRound, Controlled, Consistent
<1>9. OneHand'
  <2>1. \A i, j \in DOMAIN queue' : queue'[i].conn = queue'[j].conn => i = j
    BY <1>1 DEF Controlled, OneHand
  <2>2. \A v, w \in Workers : \A d \in Conns : (HasWork(v, d) /\ HasWork(w, d))' => v = w
    BY <1>1 DEF Controlled, OneHand, HasWork
  <2> QED
    BY <1>6, <1>7, <1>8, <2>1, <2>2 DEF Controlled, OneHand
<1>10. ~Pend(c)
  BY DEF Pend, Man
<1>11. Marked'
  BY <1>1, <1>5, <1>6, <1>7, <1>8, <1>10 DEF Controlled, Marked, ControllerType
<1>12. Consistent'
  <2>1. UpConns' = UpConns \cup {c} /\ c \notin UpConns
    BY <1>1, <1>5 DEF UpConns, ControllerType
  <2>2. count' = Cardinality(UpConns')
    BY <1>1, <2>1, UpFinite, FS_AddElement DEF Controlled, Consistent
  <2>3. \A i \in DOMAIN managed : managed[i].conn # c
    BY DEF Man
  <2> QED
    BY <1>1, <1>2, <1>3, <2>2, <2>3 DEF Controlled, Consistent
<1>13. Shape'
  BY <1>1 DEF Controlled, Shape
<1> QED
  BY <1>4, <1>9, <1>11, <1>12, <1>13 DEF Controlled

\* The flag of a connection goes down, and its entry, whatever else the step does to
\* the round of run().
LEMMA FailedStep ==
    ASSUME ControllerType, Controlled, NEW i \in DOMAIN managed, Failed(i),
           UNCHANGED <<worker, stopping, shifted>>,
           round' \in [pc : {"idle", "busy", "gone"}, checks : SUBSET CheckType, recs : SUBSET (Nat \ {0})],
           round'.recs = round.recs, round'.pc = "idle" => round'.recs = {} /\ round'.checks = {}
    PROVE  ControllerType' /\ Controlled'
<1> DEFINE c == managed[i].conn
           marked == managed[i].pending
           new == Work(c, 0)
<1>1. /\ managed' = [managed EXCEPT ![i].pending = TRUE]
      /\ connected' = [connected EXCEPT ![c] = FALSE]
      /\ count' = IF connected[c] THEN count - 1 ELSE count
      /\ queue' = IF marked THEN queue ELSE Append(queue, new)
  BY DEF Failed, IsUp
<1>2. c \in Conns /\ marked \in BOOLEAN /\ managed[i] \in EntryType
  BY Elements
<1>3. new \in WorkType /\ new.conn = c /\ new.live
  BY <1>2 DEF Work, WorkType
<1> HIDE DEF new
<1>4. /\ managed' \in Seq(EntryType) /\ DOMAIN managed' = DOMAIN managed
      /\ \A j \in DOMAIN managed : /\ managed'[j].conn = managed[j].conn
                                   /\ managed'[j].pending = IF j = i THEN TRUE ELSE managed[j].pending
  BY <1>1, MarkEntry
<1>5. queue' \in Seq(WorkType)
  BY <1>1, <1>3 DEF ControllerType
<1>6. ControllerType'
  BY <1>1, <1>2, <1>4, <1>5 DEF ControllerType
<1>7. marked <=> Pend(c)
  BY DEF Pend, Controlled, Consistent
<1>8. \A d \in Conns : /\ Man(d)' <=> Man(d)
                       /\ Pend(d)' <=> Pend(d) \/ d = c
  BY <1>4 DEF Man, Pend
<1>9. ~marked => /\ DOMAIN queue' = DOMAIN queue \cup {Len(queue) + 1}
                 /\ Len(queue) + 1 \notin DOMAIN queue
                 /\ \A j \in DOMAIN queue : queue'[j] = queue[j]
                 /\ queue'[Len(queue) + 1] = new
  BY <1>1, <1>3, Elements DEF ControllerType
<1>10. \A d \in Conns : InQueue(d)' <=> InQueue(d) \/ (d = c /\ ~Pend(c))
  <2>1. CASE marked
    BY <1>1, <1>7, <2>1 DEF InQueue
  <2>2. CASE ~marked
    BY <1>7, <1>3, <1>9, <2>2 DEF InQueue
  <2> QED
    BY <2>1, <2>2
<1>11. \A d \in Conns : AtWorker(d)' <=> AtWorker(d)
  BY DEF AtWorker, HasWork
<1>12. \A d \in Conns : InRound(d)' <=> InRound(d)
  BY <1>4 DEF InRound
<1>13. OneHand'
  <2>1. \A j, k \in DOMAIN queue' : queue'[j].conn = queue'[k].conn => j = k
    <3>1. CASE marked
      BY <1>1, <3>1 DEF Controlled, OneHand
    <3>2. CASE ~marked
      <4>1. ~InQueue(c)
        BY <1>2, <1>7, <3>2 DEF Controlled, Marked
      <4> QED
        BY <1>3, <1>9, <3>2, <4>1 DEF Controlled, OneHand, InQueue
    <3> QED
      BY <3>1, <3>2
  <2>2. \A v, w \in Workers : \A d \in Conns : (HasWork(v, d) /\ HasWork(w, d))' => v = w
    BY DEF Controlled, OneHand, HasWork
  <2> QED
    BY <1>10, <1>11, <1>12, <2>1, <2>2 DEF Controlled, OneHand, Marked
<1>14. Marked'
  BY <1>1, <1>2, <1>8, <1>10, <1>11, <1>12 DEF Controlled, Marked, ControllerType
<1>15. Consistent'
  <2>1. Man(c)
    BY DEF Man
  <2>2. UpConns' = UpConns \ {c} /\ (c \in UpConns <=> connected[c])
    BY <1>1, <1>2, <1>8, <2>1 DEF UpConns, ControllerType
  <2>3. Cardinality(UpConns \ {c}) = IF c \in UpConns THEN Cardinality(UpConns) - 1
                                                     ELSE Cardinality(UpConns)
    BY UpFinite, FS_RemoveElement
  <2>4. count' = Cardinality(UpConns')
    BY <1>1, <2>2, <2>3 DEF Controlled, Consistent
  <2> QED
    BY <1>4, <2>4 DEF Controlled, Consistent
<1>16. Shape'
  <2>1. \A j \in DOMAIN queue' : queue'[j].live
    <3>1. CASE marked
      BY <1>1, <3>1 DEF Controlled, Shape
    <3>2. CASE ~marked
      BY <1>3, <1>9, <3>2 DEF Controlled, Shape
    <3> QED
      BY <3>1, <3>2
  <2> QED
    BY <2>1 DEF Controlled, Shape
<1> QED
  BY <1>6, <1>13, <1>14, <1>15, <1>16 DEF Controlled

\* unmanage() takes a connection out of the entries, out of the queue and, by killing
\* the reference, out of the hands of the workers.
LEMMA DeadWork ==
    ASSUME ControllerType, Controlled, NEW c \in Conns,
           worker' = [w \in Workers |-> [worker[w] EXCEPT !.work = Dead(@, c)]]
    PROVE  /\ worker' \in [Workers -> [pc : {"wait", "open", "gone"}, work : WorkType \cup {None}]]
           /\ \A w \in Workers : \A d \in Conns : HasWork(w, d)' <=> HasWork(w, d) /\ d # c
           /\ \A w \in Workers : worker'[w].pc = "open" <=> worker'[w].work # None
<1> SUFFICES ASSUME NEW w \in Workers
             PROVE  /\ worker'[w] \in [pc : {"wait", "open", "gone"}, work : WorkType \cup {None}]
                    /\ \A d \in Conns : HasWork(w, d)' <=> HasWork(w, d) /\ d # c
                    /\ worker'[w].pc = "open" <=> worker'[w].work # None
  OBVIOUS
<1> DEFINE ref == worker[w].work
<1>1. worker'[w] = [worker[w] EXCEPT !.work = Dead(ref, c)]
  OBVIOUS
<1>2. worker[w] \in [pc : {"wait", "open", "gone"}, work : WorkType \cup {None}]
  BY DEF ControllerType
<1>3. worker'[w].pc = worker[w].pc /\ worker'[w].work = Dead(ref, c)
  BY <1>1, <1>2
<1>4. worker[w].pc = "open" <=> ref # None
  BY DEF Controlled, Shape
<1>5. ref \in WorkType \cup {None} /\ None \notin WorkType
  BY <1>2, ControllerAssumption DEF WorkType
<1>6. CASE ref = None \/ ref.conn # c
  <2>1. Dead(ref, c) = ref
    BY <1>6 DEF Dead
  <2> QED
    BY <1>1, <1>2, <1>3, <1>4, <1>6, <2>1 DEF HasWork
<1>7. CASE ref # None /\ ref.conn = c
  <2> DEFINE dead == [ref EXCEPT !.live = FALSE]
  <2>1. Dead(ref, c) = dead
    BY <1>7 DEF Dead
  <2>2. dead \in WorkType /\ dead # None /\ dead.live = FALSE
    BY <1>5, <1>7 DEF WorkType
  <2> HIDE DEF dead
  <2> QED
    BY <1>1, <1>2, <1>3, <1>4, <1>5, <1>7, <2>1, <2>2 DEF HasWork
<1> QED
  BY <1>6, <1>7

LEMMA QueueWithout ==
    ASSUME ControllerType, OneHand, NEW c \in Conns, queue' = Without(queue, c)
    PROVE  /\ queue' \in Seq(WorkType)
           /\ \A i \in DOMAIN queue' : \E j \in DOMAIN queue : queue'[i] = queue[j] /\ queue[j].conn # c
           /\ \A j \in DOMAIN queue : queue[j].conn # c => \E i \in DOMAIN queue' : queue'[i] = queue[j]
           /\ \A i, j \in DOMAIN queue' : queue'[i].conn = queue'[j].conn => i = j
<1>1. CASE \A i \in DOMAIN queue : queue[i].conn # c
  <2>1. queue' = queue
    BY <1>1, WithoutNone DEF ControllerType
  <2> QED
    BY <1>1, <2>1 DEF ControllerType, OneHand
<1>2. ASSUME NEW p \in DOMAIN queue, queue[p].conn = c
      PROVE  /\ queue' \in Seq(WorkType)
             /\ \A i \in DOMAIN queue' : \E j \in DOMAIN queue : queue'[i] = queue[j] /\ queue[j].conn # c
             /\ \A j \in DOMAIN queue : queue[j].conn # c => \E i \in DOMAIN queue' : queue'[i] = queue[j]
             /\ \A i, j \in DOMAIN queue' : queue'[i].conn = queue'[j].conn => i = j
  <2>1. \A i \in DOMAIN queue : queue[i].conn = c => i = p
    BY <1>2 DEF OneHand
  <2>2. queue' = Erased(queue, p) /\ queue \in Seq(WorkType)
    BY <1>2, <2>1, WithoutOne DEF ControllerType
  <2>3. /\ queue' \in Seq(WorkType) /\ DOMAIN queue' = 1..(Len(queue) - 1)
        /\ \A j \in 1..(Len(queue) - 1) : queue'[j] = IF j < p THEN queue[j] ELSE queue[j + 1]
    BY <2>2, ErasedElements
  <2>4. DOMAIN queue = 1..Len(queue) /\ Len(queue) \in Nat
    BY Elements
  <2>5. ASSUME NEW i \in DOMAIN queue'
        PROVE  \E j \in DOMAIN queue : queue'[i] = queue[j] /\ queue[j].conn # c
    <3>1. CASE i < p
      BY <2>1, <2>3, <2>4, <3>1
    <3>2. CASE i >= p
      <4>1. i + 1 \in DOMAIN queue /\ i + 1 # p /\ queue'[i] = queue[i + 1]
        BY <2>3, <2>4, <3>2
      <4> QED
        BY <2>1, <4>1
    <3> QED
      BY <2>3, <2>4, <3>1, <3>2
  <2>6. ASSUME NEW j \in DOMAIN queue, queue[j].conn # c
        PROVE  \E i \in DOMAIN queue' : queue'[i] = queue[j]
    <3>1. CASE j < p
      BY <2>3, <2>4, <3>1
    <3>2. CASE j > p
      <4>1. j - 1 \in DOMAIN queue' /\ queue'[j - 1] = queue[j]
        BY <2>3, <2>4, <3>2
      <4> QED
        BY <4>1
    <3> QED
      BY <1>2, <2>4, <2>6, <3>1, <3>2
  <2>7. ASSUME NEW i \in DOMAIN queue', NEW j \in DOMAIN queue', queue'[i].conn = queue'[j].conn
        PROVE  i = j
    <3> DEFINE m == IF i < p THEN i ELSE i + 1
               n == IF j < p THEN j ELSE j + 1
    <3>1. m \in DOMAIN queue /\ n \in DOMAIN queue /\ queue'[i] = queue[m] /\ queue'[j] = queue[n]
      BY <2>3, <2>4
    <3>2. m = n
      <4> HIDE DEF m, n
      <4> QED
        BY <2>7, <3>1 DEF OneHand
    <3> QED
      BY <2>3, <2>4, <3>2
  <2> QED
    BY <2>3, <2>5, <2>6, <2>7
<1> QED
  BY <1>1, <1>2

LEMMA UnmanageStep ==
    ASSUME ControllerType, Controlled, NEW c \in Conns, UnmanageAndClose(c)
    PROVE  /\ ControllerType'
           /\ ~shifted' => Controlled'
           /\ \A d \in Conns : Man(d)' <=> Man(d) /\ d # c
<1>1. /\ queue' = Without(queue, c)
      /\ connected' = [connected EXCEPT ![c] = FALSE]
      /\ worker' = [w \in Workers |-> [worker[w] EXCEPT !.work = Dead(@, c)]]
      /\ round' = [round EXCEPT !.checks = {Dead(k, c) : k \in @}]
      /\ shifted' = (shifted \/ \E i \in Entries(c), j \in round.recs : i <= j)
      /\ UNCHANGED stopping
  BY DEF UnmanageAndClose
<1>2. /\ round' \in [pc : {"idle", "busy", "gone"}, checks : SUBSET CheckType, recs : SUBSET (Nat \ {0})]
      /\ round'.recs = round.recs /\ round'.pc = round.pc
      /\ round.checks = {} => round'.checks = {}
  <2>1. round \in [pc : {"idle", "busy", "gone"}, checks : SUBSET CheckType, recs : SUBSET (Nat \ {0})]
    BY DEF ControllerType
  <2>2. \A k \in round.checks : Dead(k, c) \in CheckType
    BY <2>1 DEF Dead, CheckType
  <2> QED
    BY <1>1, <2>1, <2>2
<1>3. shifted' \in BOOLEAN
  BY <1>1 DEF ControllerType
\* The entries
<1>4. /\ managed' \in Seq(EntryType) /\ count' \in Int
      /\ count' = IF connected[c] /\ Man(c) THEN count - 1 ELSE count
      /\ \A d \in Conns : (Man(d)' <=> Man(d) /\ d # c) /\ (Pend(d)' <=> Pend(d) /\ d # c)
      /\ \A i, j \in DOMAIN managed' : managed'[i].conn = managed'[j].conn => i = j
      /\ ~shifted' => /\ round'.recs \subseteq DOMAIN managed'
                      /\ \A j \in round.recs : managed'[j] = managed[j] /\ managed[j].conn # c
  <2>1. CASE Entries(c) = {}
    <3>1. managed' = managed /\ count' = count /\ ~Man(c)
      BY <2>1 DEF UnmanageAndClose, Entries, Man
    <3>2. ~Pend(c)
      BY <3>1 DEF Man, Pend
    <3>3. \A j \in DOMAIN managed : managed[j].conn # c
      BY <3>1 DEF Man
    <3> QED
      BY <1>2, <3>1, <3>2, <3>3 DEF Controlled, Consistent, ControllerType, Man, Pend
  <2>2. CASE Entries(c) # {}
    <3> DEFINE p == Min(Entries(c))
               n == Len(managed)
    <3>1. p \in DOMAIN managed /\ managed[p].conn = c
      <4>1. Entries(c) \in SUBSET Nat
        BY Elements DEF Entries
      <4>2. p \in Entries(c)
        BY <2>2, <4>1, LeastElement
      <4> QED
        BY <4>2 DEF Entries
    <3>2. /\ managed' = Erased(managed, p)
          /\ count' = IF connected[c] THEN count - 1 ELSE count
      BY <2>2, <3>1 DEF UnmanageAndClose, IsUp
    <3>3. p \in Entries(c)
      BY <3>1 DEF Entries
    <3> HIDE DEF p
    <3>4. \A i \in DOMAIN managed : managed[i].conn = c => i = p
      BY <3>1 DEF Controlled, Consistent
    <3>5. /\ managed' \in Seq(EntryType) /\ DOMAIN managed' = 1..(n - 1)
          /\ \A j \in 1..(n - 1) : managed'[j] = IF j < p THEN managed[j] ELSE managed[j + 1]
      <4>1. managed \in Seq(EntryType)
        BY DEF ControllerType
      <4> QED
        BY <3>1, <3>2, <4>1, ErasedElements
    <3>6. DOMAIN managed = 1..n /\ n \in Nat /\ p \in 1..n
      BY <3>1, Elements
    <3> HIDE DEF n
    <3>7. /\ \A i \in DOMAIN managed' : \E j \in DOMAIN managed : j # p /\ managed'[i] = managed[j]
          /\ \A j \in DOMAIN managed : j # p => \E i \in DOMAIN managed' : managed'[i] = managed[j]
      <4>1. ASSUME NEW i \in DOMAIN managed'
            PROVE  \E j \in DOMAIN managed : j # p /\ managed'[i] = managed[j]
        <5>1. CASE i < p
          BY <3>5, <3>6, <5>1
        <5>2. CASE i >= p
          <6>1. i + 1 \in DOMAIN managed /\ i + 1 # p /\ managed'[i] = managed[i + 1]
            BY <3>5, <3>6, <5>2
          <6> QED
            BY <6>1
        <5> QED
          BY <3>5, <3>6, <5>1, <5>2
      <4>2. ASSUME NEW j \in DOMAIN managed, j # p
            PROVE  \E i \in DOMAIN managed' : managed'[i] = managed[j]
        <5>1. CASE j < p
          BY <3>5, <3>6, <5>1
        <5>2. CASE j > p
          <6>1. j - 1 \in DOMAIN managed' /\ managed'[j - 1] = managed[j]
            BY <3>5, <3>6, <5>2
          <6> QED
            BY <6>1
        <5> QED
          BY <3>6, <4>2, <5>1, <5>2
      <4> QED
        BY <4>1, <4>2
    <3>8. \A d \in Conns : (Man(d)' <=> Man(d) /\ d # c) /\ (Pend(d)' <=> Pend(d) /\ d # c)
      BY <3>1, <3>4, <3>7 DEF Man, Pend
    <3>9. ASSUME NEW i \in DOMAIN managed', NEW j \in DOMAIN managed',
                 managed'[i].conn = managed'[j].conn
          PROVE  i = j
      <4> DEFINE m == IF i < p THEN i ELSE i + 1
                 k == IF j < p THEN j ELSE j + 1
      <4>1. /\ m \in DOMAIN managed /\ k \in DOMAIN managed
            /\ managed'[i] = managed[m] /\ managed'[j] = managed[k]
        BY <3>5, <3>6
      <4>2. m = k
        <5> HIDE DEF m, k
        <5> QED
          BY <3>9, <4>1 DEF Controlled, Consistent
      <4> QED
        BY <3>5, <3>6, <4>2
    <3>10. ASSUME ~shifted', NEW j \in round.recs
           PROVE  j \in DOMAIN managed' /\ managed'[j] = managed[j] /\ managed[j].conn # c
      <4>1. j \in DOMAIN managed /\ ~(p <= j)
        BY <1>1, <3>3, <3>10 DEF Controlled, Consistent
      <4>2. j < p
        BY <3>6, <4>1
      <4> QED
        BY <3>4, <3>5, <3>6, <4>1, <4>2
    <3>11. Man(c) /\ count' \in Int
      BY <3>1, <3>2 DEF Man, ControllerType
    <3> QED
      BY <1>2, <3>2, <3>5, <3>8, <3>9, <3>10, <3>11
  <2> QED
    BY <2>1, <2>2
<1>5. /\ worker' \in [Workers -> [pc : {"wait", "open", "gone"}, work : WorkType \cup {None}]]
      /\ \A w \in Workers : \A d \in Conns : HasWork(w, d)' <=> HasWork(w, d) /\ d # c
      /\ \A w \in Workers : worker'[w].pc = "open" <=> worker'[w].work # None
  BY <1>1, DeadWork
<1>6. /\ queue' \in Seq(WorkType)
      /\ \A i \in DOMAIN queue' : \E j \in DOMAIN queue : queue'[i] = queue[j] /\ queue[j].conn # c
      /\ \A j \in DOMAIN queue : queue[j].conn # c => \E i \in DOMAIN queue' : queue'[i] = queue[j]
      /\ \A i, j \in DOMAIN queue' : queue'[i].conn = queue'[j].conn => i = j
  BY <1>1, QueueWithout DEF Controlled
<1>7. ControllerType'
  BY <1>1, <1>2, <1>3, <1>4, <1>5, <1>6 DEF ControllerType
<1>8. \A d \in Conns : /\ InQueue(d)' <=> InQueue(d) /\ d # c
                       /\ AtWorker(d)' <=> AtWorker(d) /\ d # c
  <2>1. \A d \in Conns : InQueue(d)' <=> InQueue(d) /\ d # c
    BY <1>6 DEF InQueue
  <2>2. \A d \in Conns : AtWorker(d)' <=> AtWorker(d) /\ d # c
    BY <1>5 DEF AtWorker
  <2> QED
    BY <2>1, <2>2
<1>9. ASSUME ~shifted' PROVE Controlled'
  <2>1. \A d \in Conns : (InRound(d)' <=> InRound(d)) /\ ~InRound(c)
    BY <1>2, <1>4, <1>9 DEF InRound, Controlled, Consistent
  <2>2. OneHand'
    BY <1>5, <1>6, <1>8, <2>1 DEF Controlled, OneHand
  <2>3. Marked'
    BY <1>1, <1>4, <1>8, <2>1 DEF Controlled, Marked, ControllerType
  <2>4. Consistent'
    <3>1. UpConns' = UpConns \ {c} /\ (c \in UpConns <=> connected[c] /\ Man(c))
      BY <1>1, <1>4 DEF UpConns, ControllerType
    <3>2. Cardinality(UpConns \ {c}) = IF c \in UpConns THEN Cardinality(UpConns) - 1
                                                       ELSE Cardinality(UpConns)
      BY UpFinite, FS_RemoveElement
    <3>3. count' = Cardinality(UpConns')
      BY <1>4, <3>1, <3>2 DEF Controlled, Consistent
    <3> QED
      BY <1>4, <1>9, <3>3 DEF Consistent
  <2>5. Shape'
    <3>1. \A i \in DOMAIN queue' : queue'[i].live
      BY <1>6 DEF Controlled, Shape
    <3> QED
      BY <1>2, <1>5, <3>1 DEF Controlled, Shape
  <2> QED
    BY <2>2, <2>3, <2>4, <2>5 DEF Controlled
<1> QED
  BY <1>4, <1>7, <1>9

-------------------------------------------------------------------------------
(* The steps of run() *)

RoundType ==
    [pc : {"idle", "busy", "gone"}, checks : SUBSET CheckType, recs : SUBSET (Nat \ {0})]

LEMMA RoundGoes ==
    ASSUME NEW checks \in SUBSET CheckType, NEW recs \in SUBSET (Nat \ {0}), RoundGoesOn(checks, recs)
    PROVE  /\ round' \in RoundType /\ round'.recs = recs
           /\ round'.pc = "idle" => round'.recs = {} /\ round'.checks = {}
BY DEF RoundGoesOn, RoundType

\* A step that changes nothing but the checks of the round, or stopping.
LEMMA QuietStep ==
    ASSUME ControllerType, Controlled, UNCHANGED <<connected, managed, count, queue, worker, shifted>>,
           round' \in RoundType, round'.recs = round.recs,
           round'.pc = "idle" => round'.recs = {} /\ round'.checks = {},
           stopping' \in {"no", "join", "drain", "done"}
    PROVE  ControllerType' /\ Controlled'
<1>1. ControllerType'
  BY DEF ControllerType, RoundType
<1>2. \A c \in Conns : /\ Man(c)' <=> Man(c)
                       /\ Pend(c)' <=> Pend(c)
                       /\ InQueue(c)' <=> InQueue(c)
                       /\ AtWorker(c)' <=> AtWorker(c)
                       /\ InRound(c)' <=> InRound(c)
  BY DEF Man, Pend, InQueue, AtWorker, HasWork, InRound
<1>3. OneHand'
  <2>1. \A v, w \in Workers : \A d \in Conns : (HasWork(v, d) /\ HasWork(w, d))' => v = w
    BY DEF Controlled, OneHand, HasWork
  <2> QED
    BY <1>2, <2>1 DEF Controlled, OneHand
<1>4. Marked'
  BY <1>2 DEF Controlled, Marked
<1>5. UpConns' = UpConns
  BY <1>2 DEF UpConns
<1>6. Consistent' /\ Shape'
  BY <1>5 DEF Controlled, Consistent, Shape
<1> QED
  BY <1>1, <1>3, <1>4, <1>6 DEF Controlled

\* The entries of run()'s first pass are marked under the lock: their reconnects are
\* in the hands of the round until it comes to them.
LEMMA RunScanStep ==
    ASSUME ControllerType, Controlled, NEW is \in SUBSET Checkable, RunScan(is)
    PROVE  ControllerType' /\ Controlled'
<1>1. /\ round.pc = "idle" /\ RoundGoesOn(Remembered(is), Down)
      /\ managed' = [i \in DOMAIN managed |-> IF i \in Down THEN [managed[i] EXCEPT !.pending = TRUE]
                                                            ELSE managed[i]]
      /\ UNCHANGED <<connected, count, queue, worker, stopping, shifted>>
  BY DEF RunScan
<1>2. Remembered(is) \in SUBSET CheckType /\ Down \in SUBSET (Nat \ {0})
  <2>1. \A i \in is : i \in Nat /\ managed[i].conn \in Conns
    BY Elements DEF Checkable
  <2>2. Remembered(is) \in SUBSET CheckType
    <3>1. \A i \in is : [at |-> i, conn |-> managed[i].conn, live |-> TRUE] \in CheckType
      BY <2>1 DEF CheckType
    <3> QED
      BY <3>1, Zenon DEF Remembered
  <2> QED
    BY <2>2, Elements DEF Down
<1>3. /\ round' \in RoundType /\ round'.recs = Down
      /\ round'.pc = "idle" => round'.recs = {} /\ round'.checks = {}
  BY <1>1, <1>2, RoundGoes
<1>4. /\ DOMAIN managed' = DOMAIN managed
      /\ \A i \in DOMAIN managed :
            /\ managed'[i] \in EntryType
            /\ managed'[i].conn = managed[i].conn
            /\ managed'[i].pending = (managed[i].pending \/ i \in Down)
  BY <1>1, Elements DEF EntryType, Down
<1>5. managed' \in Seq(EntryType)
  <2>1. managed' \in [1..Len(managed) -> EntryType]
    BY <1>1, <1>4, Elements
  <2> QED
    BY <2>1, Elements
<1>6. ControllerType'
  BY <1>1, <1>3, <1>5 DEF ControllerType, RoundType
<1>7. \A i \in DOMAIN managed : i \in Down <=> ~managed[i].pending /\ ~connected[managed[i].conn]
  BY DEF Down, IsUp
<1>8. \A c \in Conns : Man(c)' <=> Man(c)
  BY <1>4 DEF Man
<1>9. \A c \in Conns : Pend(c)' <=> Pend(c) \/ (Man(c) /\ ~connected[c])
  BY <1>4, <1>7 DEF Pend, Man
<1>10. \A c \in Conns : /\ InQueue(c)' <=> InQueue(c)
                        /\ AtWorker(c)' <=> AtWorker(c)
  BY <1>1 DEF InQueue, AtWorker, HasWork
<1>11. \A c \in Conns : InRound(c)' <=> ~Pend(c) /\ Man(c) /\ ~connected[c]
  BY <1>3, <1>4, <1>7 DEF InRound, Man, Pend, Controlled, Consistent, Down
<1>12. \A c \in Conns : ~InRound(c)
  BY <1>1 DEF InRound, Controlled, Shape
<1>13. OneHand'
  <2>1. \A v, w \in Workers : \A d \in Conns : (HasWork(v, d) /\ HasWork(w, d))' => v = w
    BY <1>1 DEF Controlled, OneHand, HasWork
  <2>2. \A i, j \in DOMAIN queue' : queue'[i].conn = queue'[j].conn => i = j
    BY <1>1 DEF Controlled, OneHand
  <2> QED
    BY <1>10, <1>11, <2>1, <2>2 DEF Controlled, OneHand, Marked
<1>14. Marked'
  BY <1>1, <1>9, <1>10, <1>11, <1>12 DEF Controlled, Marked, ControllerType
<1>15. Consistent'
  <2>1. UpConns' = UpConns
    BY <1>1, <1>8 DEF UpConns
  <2>2. round'.recs \subseteq DOMAIN managed'
    BY <1>3, <1>4 DEF Down
  <2> QED
    BY <1>1, <1>4, <2>1, <2>2 DEF Controlled, Consistent
<1>16. Shape'
  BY <1>1, <1>3 DEF Controlled, Shape
<1> QED
  BY <1>6, <1>13, <1>14, <1>15, <1>16 DEF Controlled

LEMMA CheckStep ==
    ASSUME ControllerType, Controlled, CheckPasses \/ CheckFails
    PROVE  ControllerType' /\ Controlled'
<1>1. /\ round' \in RoundType /\ round'.recs = round.recs
      /\ round'.pc = "idle" => round'.recs = {} /\ round'.checks = {}
  <2>1. RoundGoesOn(round.checks \ {FirstCheck}, round.recs)
    BY DEF CheckPasses, CheckFails
  <2>2. round.checks \ {FirstCheck} \in SUBSET CheckType /\ round.recs \in SUBSET (Nat \ {0})
    BY DEF ControllerType
  <2> QED
    BY <2>1, <2>2, RoundGoes
<1>2. UNCHANGED <<worker, stopping, shifted>>
  BY DEF CheckPasses, CheckFails
<1>3. CASE UNCHANGED <<connected, managed, count, queue>>
  BY <1>1, <1>2, <1>3, QuietStep DEF ControllerType
<1>4. ASSUME NEW i \in DOMAIN managed, Failed(i) PROVE ControllerType' /\ Controlled'
  BY <1>1, <1>2, <1>4, FailedStep DEF RoundType
<1> QED
  BY <1>3, <1>4 DEF CheckPasses, CheckFails, Found

\* A reconnect passes from the round to the queue.
LEMMA RunEnqueuesStep ==
    ASSUME ControllerType, Controlled, RunEnqueues
    PROVE  ControllerType' /\ Controlled'
<1> DEFINE j == Min(round.recs)
           c == managed[j].conn
           new == Work(c, 0)
<1>1. /\ round.recs # {} /\ RoundGoesOn({}, round.recs \ {j})
      /\ queue' = IF j \in DOMAIN managed THEN Append(queue, new) ELSE queue
      /\ UNCHANGED <<connected, managed, count, worker, stopping, shifted>>
  BY DEF RunEnqueues
<1>2. j \in round.recs /\ j \in DOMAIN managed
  <2>1. round.recs \in SUBSET Nat /\ round.recs \subseteq DOMAIN managed
    BY DEF ControllerType, Controlled, Consistent
  <2> QED
    BY <1>1, <2>1, LeastElement
<1> HIDE DEF j
<1>3. c \in Conns
  BY <1>2, Elements
<1>4. new \in WorkType /\ new.conn = c /\ new.live
  BY <1>3 DEF Work, WorkType
<1> HIDE DEF new
<1>5. /\ round' \in RoundType /\ round'.recs = round.recs \ {j}
      /\ round'.pc = "idle" => round'.recs = {} /\ round'.checks = {}
  <2>1. {} \in SUBSET CheckType /\ round.recs \ {j} \in SUBSET (Nat \ {0})
    BY DEF ControllerType
  <2> QED
    BY <1>1, <2>1, RoundGoes
<1>6. /\ queue' \in Seq(WorkType) /\ DOMAIN queue' = DOMAIN queue \cup {Len(queue) + 1}
      /\ Len(queue) + 1 \notin DOMAIN queue
      /\ \A i \in DOMAIN queue : queue'[i] = queue[i]
      /\ queue'[Len(queue) + 1] = new
  BY <1>1, <1>2, <1>4, Elements DEF ControllerType
<1>7. ControllerType'
  BY <1>1, <1>5, <1>6 DEF ControllerType, RoundType
<1>8. \A d \in Conns : /\ Man(d)' <=> Man(d)
                       /\ Pend(d)' <=> Pend(d)
                       /\ AtWorker(d)' <=> AtWorker(d)
  BY <1>1 DEF Man, Pend, AtWorker, HasWork
<1>9. \A d \in Conns : InQueue(d)' <=> InQueue(d) \/ d = c
  BY <1>4, <1>6 DEF InQueue
<1>10. \A d \in Conns : InRound(d)' <=> InRound(d) /\ d # c
  BY <1>1, <1>2, <1>5 DEF InRound, Controlled, Consistent
<1>11. InRound(c)
  BY <1>2 DEF InRound
<1>12. OneHand'
  <2>1. \A v, w \in Workers : \A d \in Conns : (HasWork(v, d) /\ HasWork(w, d))' => v = w
    BY <1>1 DEF Controlled, OneHand, HasWork
  <2>2. ~InQueue(c)
    BY <1>3, <1>11 DEF Controlled, OneHand
  <2>3. \A i, k \in DOMAIN queue' : queue'[i].conn = queue'[k].conn => i = k
    BY <1>4, <1>6, <2>2 DEF Controlled, OneHand, InQueue
  <2> QED
    BY <1>3, <1>8, <1>9, <1>10, <1>11, <2>1, <2>3 DEF Controlled, OneHand
<1>13. Marked'
  BY <1>1, <1>3, <1>8, <1>9, <1>10, <1>11 DEF Controlled, Marked
<1>14. Consistent'
  <2>1. UpConns' = UpConns
    BY <1>1, <1>8 DEF UpConns
  <2> QED
    BY <1>1, <1>5, <2>1 DEF Controlled, Consistent
<1>15. Shape'
  BY <1>1, <1>4, <1>5, <1>6 DEF Controlled, Shape
<1> QED
  BY <1>7, <1>12, <1>13, <1>14, <1>15 DEF Controlled

-------------------------------------------------------------------------------
(* The steps of the workers and of stop() *)

WorkerType == [pc : {"wait", "open", "gone"}, work : WorkType \cup {None}]

\* A worker that gives its work back has nothing in its hands.
LEMMA Rests ==
    ASSUME ControllerType, Controlled, NEW w \in Workers, worker[w].pc = "open", worker' = Rest(w)
    PROVE  /\ worker' \in [Workers -> WorkerType]
           /\ worker[w].work \in WorkType
           /\ \A v \in Workers : \A d \in Conns : HasWork(v, d)' <=> HasWork(v, d) /\ v # w
           /\ \A v \in Workers : worker'[v].pc = "open" <=> worker'[v].work # None
<1>1. worker' = [worker EXCEPT ![w] = [pc |-> "wait", work |-> None]]
  BY DEF Rest
<1>2. worker \in [Workers -> WorkerType]
  BY DEF ControllerType, WorkerType
<1>3. worker' \in [Workers -> WorkerType]
  BY <1>1, <1>2 DEF WorkerType
<1>4. \A v \in Workers : worker'[v] = IF v = w THEN [pc |-> "wait", work |-> None] ELSE worker[v]
  BY <1>1, <1>2
<1>5. worker[w].work \in WorkType
  BY <1>2 DEF Controlled, Shape, WorkerType
<1>6. \A v \in Workers : \A d \in Conns : HasWork(v, d)' <=> HasWork(v, d) /\ v # w
  BY <1>4 DEF HasWork
<1>7. \A v \in Workers : worker'[v].pc = "open" <=> worker'[v].work # None
  BY <1>4 DEF Controlled, Shape
<1> QED
  BY <1>3, <1>5, <1>6, <1>7

\* What is taken from the queue is always opened: its entry is there and down.
LEMMA PopStep ==
    ASSUME ControllerType, Controlled, NEW w \in Workers, Pop(w)
    PROVE  ControllerType' /\ Controlled'
<1> DEFINE h == Head(queue)
           c == h.conn
<1>1. /\ worker[w].pc = "wait" /\ queue # << >> /\ queue' = Tail(queue)
      /\ UNCHANGED <<connected, managed, count, round, stopping, shifted>>
  BY DEF Pop
<1>2. /\ Len(queue) \in Nat \ {0} /\ DOMAIN queue = 1..Len(queue) /\ 1 \in DOMAIN queue
      /\ h = queue[1] /\ queue' \in Seq(WorkType)
      /\ DOMAIN queue' = 1..(Len(queue) - 1)
      /\ \A i \in DOMAIN queue' : queue'[i] = queue[i + 1] /\ i + 1 \in DOMAIN queue
  BY <1>1 DEF ControllerType
<1>3. h \in WorkType /\ c \in Conns /\ h.live
  BY <1>2, Elements DEF Controlled, Shape
<1> HIDE DEF h
<1>4. InQueue(c)
  BY <1>2 DEF InQueue
<1>5. Pend(c) /\ ~connected[c]
  BY <1>3, <1>4 DEF Controlled, Marked
<1>6. worker' = [worker EXCEPT ![w] = [pc |-> "open", work |-> h]]
  <2>1. PICK i \in DOMAIN managed : managed[i].conn = c
    BY <1>5 DEF Pend
  <2>2. i \in Found(h) /\ ~IsUp(i)
    BY <1>3, <1>5, <2>1 DEF Found, IsUp
  <2> QED
    BY <2>2 DEF Pop, h
<1>7. worker \in [Workers -> WorkerType] /\ None \notin WorkType
  BY ControllerAssumption DEF ControllerType, WorkerType, WorkType
<1>8. worker' \in [Workers -> WorkerType]
  BY <1>3, <1>6, <1>7 DEF WorkerType
<1>9. \A v \in Workers : worker'[v] = IF v = w THEN [pc |-> "open", work |-> h] ELSE worker[v]
  BY <1>6, <1>7
<1>10. ControllerType'
  BY <1>1, <1>2, <1>8 DEF ControllerType, WorkerType
<1>11. worker[w].work = None /\ h # None
  BY <1>1, <1>3, <1>7 DEF Controlled, Shape
<1>12. \A v \in Workers : \A d \in Conns : HasWork(v, d)' <=> HasWork(v, d) \/ (v = w /\ d = c)
  BY <1>3, <1>9, <1>11 DEF HasWork
<1>13. \A d \in Conns : /\ Man(d)' <=> Man(d)
                        /\ Pend(d)' <=> Pend(d)
                        /\ InRound(d)' <=> InRound(d)
  BY <1>1 DEF Man, Pend, InRound
<1>14. \A d \in Conns : AtWorker(d)' <=> AtWorker(d) \/ d = c
  BY <1>12 DEF AtWorker
<1>15. \A d \in Conns : InQueue(d)' <=> InQueue(d) /\ d # c
  <2>1. \A i \in DOMAIN queue : queue[i].conn = c => i = 1
    BY <1>2 DEF Controlled, OneHand
  <2>2. \A i \in DOMAIN queue : i # 1 => i - 1 \in DOMAIN queue' /\ queue'[i - 1] = queue[i]
    BY <1>2
  <2>3. \A i \in DOMAIN queue' : queue'[i].conn # c
    BY <1>2, <2>1
  <2>4. ASSUME NEW d \in Conns, InQueue(d), d # c PROVE InQueue(d)'
    BY <1>2, <2>2, <2>4 DEF InQueue
  <2>5. ASSUME NEW d \in Conns, InQueue(d)' PROVE InQueue(d) /\ d # c
    BY <1>2, <2>3, <2>5 DEF InQueue
  <2> QED
    BY <2>4, <2>5
<1>16. OneHand'
  <2>1. ASSUME NEW i \in DOMAIN queue', NEW j \in DOMAIN queue', queue'[i].conn = queue'[j].conn
        PROVE  i = j
    <3>1. i + 1 = j + 1
      BY <1>2, <2>1 DEF Controlled, OneHand
    <3> QED
      BY <1>2, <3>1
  <2>2. ~AtWorker(c) /\ ~InRound(c)
    BY <1>3, <1>4 DEF Controlled, OneHand
  <2>3. \A v, u \in Workers : \A d \in Conns : (HasWork(v, d) /\ HasWork(u, d))' => v = u
    BY <1>12, <2>2 DEF Controlled, OneHand, AtWorker
  <2> QED
    BY <1>13, <1>14, <1>15, <2>1, <2>2, <2>3 DEF Controlled, OneHand
<1>17. Marked'
  BY <1>1, <1>3, <1>4, <1>13, <1>14, <1>15 DEF Controlled, Marked
<1>18. Consistent'
  <2>1. UpConns' = UpConns
    BY <1>1, <1>13 DEF UpConns
  <2> QED
    BY <1>1, <2>1 DEF Controlled, Consistent
<1>19. Shape'
  <2>1. \A v \in Workers : worker'[v].pc = "open" <=> worker'[v].work # None
    BY <1>9, <1>11 DEF Controlled, Shape
  <2> QED
    BY <1>1, <1>2, <2>1 DEF Controlled, Shape
<1> QED
  BY <1>10, <1>16, <1>17, <1>18, <1>19 DEF Controlled

\* The end of a reconnect whose stream has been unmanaged meanwhile.
LEMMA DeadEnd ==
    ASSUME ControllerType, Controlled, NEW w \in Workers, worker[w].pc = "open",
           Found(worker[w].work) = {}
    PROVE  \A d \in Conns : ~HasWork(w, d)
<1> SUFFICES ASSUME NEW d \in Conns, HasWork(w, d) PROVE FALSE
  OBVIOUS
<1>1. AtWorker(d)
  BY DEF AtWorker
<1>2. Pend(d)
  BY <1>1 DEF Controlled, Marked
<1> QED
  BY <1>2 DEF Pend, Found, HasWork

\* A worker ends a reconnect: the mark goes if the stream was opened or the retries are
\* over, and goes to the queue with the work otherwise.
LEMMA GiveBack ==
    ASSUME ControllerType, Controlled, NEW w \in Workers, worker[w].pc = "open", worker' = Rest(w),
           Found(worker[w].work) = {}, UNCHANGED <<connected, count, managed, queue, round, stopping, shifted>>
    PROVE  ControllerType' /\ Controlled'
<1>1. /\ worker' \in [Workers -> WorkerType]
      /\ \A v \in Workers : \A d \in Conns : HasWork(v, d)' <=> HasWork(v, d) /\ v # w
      /\ \A v \in Workers : worker'[v].pc = "open" <=> worker'[v].work # None
  BY Rests
<1>2. \A d \in Conns : ~HasWork(w, d)
  BY DeadEnd
<1>3. \A v \in Workers : \A d \in Conns : HasWork(v, d)' <=> HasWork(v, d)
  BY <1>1, <1>2
<1>4. ControllerType'
  BY <1>1 DEF ControllerType, WorkerType
<1>5. \A d \in Conns : /\ Man(d)' <=> Man(d)
                       /\ Pend(d)' <=> Pend(d)
                       /\ InQueue(d)' <=> InQueue(d)
                       /\ InRound(d)' <=> InRound(d)
  BY DEF Man, Pend, InQueue, InRound
<1>6. \A d \in Conns : AtWorker(d)' <=> AtWorker(d)
  BY <1>3 DEF AtWorker
<1>7. OneHand' /\ Marked'
  BY <1>3, <1>5, <1>6 DEF Controlled, OneHand, Marked
<1>8. UpConns' = UpConns
  BY DEF UpConns, Man
<1>9. Consistent' /\ Shape'
  BY <1>1, <1>8 DEF Controlled, Consistent, Shape
<1> QED
  BY <1>4, <1>7, <1>9 DEF Controlled

LEMMA LiveWork ==
    ASSUME ControllerType, Controlled, NEW w \in Workers, worker[w].pc = "open",
           worker[w].work \in WorkType, NEW i \in Found(worker[w].work)
    PROVE  LET c == worker[w].work.conn
           IN  /\ i \in DOMAIN managed /\ managed[i].conn = c /\ c \in Conns
               /\ HasWork(w, c) /\ \A v \in Workers : HasWork(v, c) => v = w
               /\ \A d \in Conns : HasWork(w, d) => d = c
               /\ Pend(c) /\ ~connected[c] /\ ~InQueue(c) /\ ~InRound(c) /\ Man(c)
<1> DEFINE c == worker[w].work.conn
<1>1. i \in DOMAIN managed /\ managed[i].conn = c /\ c \in Conns /\ worker[w].work.live
  BY DEF Found, WorkType
<1>2. HasWork(w, c) /\ \A d \in Conns : HasWork(w, d) => d = c
  BY <1>1 DEF HasWork, Controlled, Shape
<1>3. AtWorker(c) /\ Man(c)
  BY <1>1, <1>2 DEF AtWorker, Man
<1>4. Pend(c) /\ ~connected[c]
  BY <1>1, <1>3 DEF Controlled, Marked
<1>5. ~InQueue(c) /\ ~InRound(c) /\ \A v \in Workers : HasWork(v, c) => v = w
  BY <1>1, <1>2, <1>3 DEF Controlled, OneHand
<1> QED
  BY <1>1, <1>2, <1>3, <1>4, <1>5

\* The mark goes with the work, whether the stream was opened or the retries are over.
LEMMA ReconnectEnds ==
    ASSUME ControllerType, Controlled, NEW w \in Workers, worker[w].pc = "open", worker' = Rest(w),
           NEW i \in Found(worker[w].work), managed' = [managed EXCEPT ![i].pending = FALSE],
           \/ connected' = [connected EXCEPT ![worker[w].work.conn] = TRUE] /\ count' = count + 1
           \/ UNCHANGED <<connected, count>>,
           UNCHANGED <<queue, round, stopping, shifted>>
    PROVE  ControllerType' /\ Controlled'
<1> DEFINE c == worker[w].work.conn
<1>1. /\ worker' \in [Workers -> WorkerType]
      /\ worker[w].work \in WorkType
      /\ \A v \in Workers : \A d \in Conns : HasWork(v, d)' <=> HasWork(v, d) /\ v # w
      /\ \A v \in Workers : worker'[v].pc = "open" <=> worker'[v].work # None
  BY Rests
<1>2. /\ i \in DOMAIN managed /\ managed[i].conn = c /\ c \in Conns
      /\ HasWork(w, c) /\ \A v \in Workers : HasWork(v, c) => v = w
      /\ \A d \in Conns : HasWork(w, d) => d = c
      /\ Pend(c) /\ ~connected[c] /\ ~InQueue(c) /\ ~InRound(c) /\ Man(c)
  BY <1>1, LiveWork
<1>3. \/ connected' = [connected EXCEPT ![c] = TRUE] /\ count' = count + 1
      \/ UNCHANGED <<connected, count>>
  OBVIOUS
<1> HIDE DEF c
<1>4. /\ managed' \in Seq(EntryType) /\ DOMAIN managed' = DOMAIN managed
      /\ \A j \in DOMAIN managed : /\ managed'[j].conn = managed[j].conn
                                   /\ managed'[j].pending = IF j = i THEN FALSE ELSE managed[j].pending
  BY <1>2, MarkEntry
<1>5. ControllerType'
  <2>1. connected' \in [Conns -> BOOLEAN]
    <3>1. connected \in [Conns -> BOOLEAN]
      BY DEF ControllerType
    <3> QED
      BY <1>3, <3>1
  <2>2. count' \in Int
    <3>1. count \in Int
      BY DEF ControllerType
    <3> QED
      BY <1>3, <3>1
  <2> QED
    BY <1>1, <1>4, <2>1, <2>2 DEF ControllerType, WorkerType
<1>6. \A d \in Conns : Man(d)' <=> Man(d)
  BY <1>4 DEF Man
<1>7. \A d \in Conns : Pend(d)' <=> Pend(d) /\ d # c
  BY <1>2, <1>4 DEF Pend, Controlled, Consistent
<1>8. \A d \in Conns : AtWorker(d)' <=> AtWorker(d) /\ d # c
  BY <1>1, <1>2 DEF AtWorker
<1>9. \A d \in Conns : InQueue(d)' <=> InQueue(d)
  BY DEF InQueue
<1>10. \A d \in Conns : InRound(d)' <=> InRound(d)
  BY <1>4 DEF InRound
<1>11. OneHand'
  <2>1. \A v, u \in Workers : \A d \in Conns : (HasWork(v, d) /\ HasWork(u, d))' => v = u
    BY <1>1 DEF Controlled, OneHand
  <2> QED
    BY <1>8, <1>9, <1>10, <2>1 DEF Controlled, OneHand
<1>12. Marked'
  BY <1>2, <1>3, <1>7, <1>8, <1>9, <1>10 DEF Controlled, Marked, ControllerType
<1>13. Consistent'
  <2>1. count' = Cardinality(UpConns')
    <3>1. CASE connected' = [connected EXCEPT ![c] = TRUE] /\ count' = count + 1
      <4>1. UpConns' = UpConns \cup {c} /\ c \notin UpConns
        BY <1>2, <1>6, <3>1 DEF UpConns, ControllerType
      <4>2. Cardinality(UpConns \cup {c}) = Cardinality(UpConns) + 1
        BY <4>1, UpFinite, FS_AddElement
      <4> QED
        BY <3>1, <4>1, <4>2 DEF Controlled, Consistent
    <3>2. CASE UNCHANGED <<connected, count>>
      <4>1. UpConns' = UpConns
        BY <1>6, <3>2 DEF UpConns
      <4> QED
        BY <3>2, <4>1 DEF Controlled, Consistent
    <3> QED
      BY <1>3, <3>1, <3>2
  <2> QED
    BY <1>4, <2>1 DEF Controlled, Consistent
<1>14. Shape'
  BY <1>1 DEF Controlled, Shape
<1> QED
  BY <1>5, <1>11, <1>12, <1>13, <1>14 DEF Controlled

\* A failed open with retries left: the work goes back to the queue.
LEMMA ReconnectRetries ==
    ASSUME ControllerType, Controlled, NEW w \in Workers, worker[w].pc = "open", worker' = Rest(w),
           NEW i \in Found(worker[w].work),
           queue' = Append(queue, Work(worker[w].work.conn, worker[w].work.retries + 1)),
           UNCHANGED <<connected, count, managed, round, stopping, shifted>>
    PROVE  ControllerType' /\ Controlled'
<1> DEFINE c == worker[w].work.conn
           new == Work(c, worker[w].work.retries + 1)
<1>1. /\ worker' \in [Workers -> WorkerType]
      /\ worker[w].work \in WorkType
      /\ \A v \in Workers : \A d \in Conns : HasWork(v, d)' <=> HasWork(v, d) /\ v # w
      /\ \A v \in Workers : worker'[v].pc = "open" <=> worker'[v].work # None
  BY Rests
<1>2. /\ c \in Conns
      /\ HasWork(w, c) /\ \A v \in Workers : HasWork(v, c) => v = w
      /\ \A d \in Conns : HasWork(w, d) => d = c
      /\ Pend(c) /\ ~connected[c] /\ ~InQueue(c) /\ ~InRound(c) /\ Man(c)
  BY <1>1, LiveWork
<1>3. new \in WorkType /\ new.conn = c /\ new.live
  BY <1>1 DEF Work, WorkType
<1>4. queue' = Append(queue, new)
  OBVIOUS
<1> HIDE DEF c, new
<1>5. /\ queue' \in Seq(WorkType) /\ DOMAIN queue' = DOMAIN queue \cup {Len(queue) + 1}
      /\ Len(queue) + 1 \notin DOMAIN queue
      /\ \A j \in DOMAIN queue : queue'[j] = queue[j]
      /\ queue'[Len(queue) + 1] = new
  BY <1>3, <1>4, Elements DEF ControllerType
<1>6. ControllerType'
  BY <1>1, <1>5 DEF ControllerType, WorkerType
<1>7. \A d \in Conns : /\ Man(d)' <=> Man(d)
                       /\ Pend(d)' <=> Pend(d)
                       /\ InRound(d)' <=> InRound(d)
  BY DEF Man, Pend, InRound
<1>8. \A d \in Conns : AtWorker(d)' <=> AtWorker(d) /\ d # c
  BY <1>1, <1>2 DEF AtWorker
<1>9. \A d \in Conns : InQueue(d)' <=> InQueue(d) \/ d = c
  BY <1>3, <1>5 DEF InQueue
<1>10. OneHand'
  <2>1. \A v, u \in Workers : \A d \in Conns : (HasWork(v, d) /\ HasWork(u, d))' => v = u
    BY <1>1 DEF Controlled, OneHand
  <2>2. \A j, k \in DOMAIN queue' : queue'[j].conn = queue'[k].conn => j = k
    BY <1>2, <1>3, <1>5 DEF Controlled, OneHand, InQueue
  <2> QED
    BY <1>2, <1>7, <1>8, <1>9, <2>1, <2>2 DEF Controlled, OneHand
<1>11. Marked'
  BY <1>2, <1>7, <1>8, <1>9 DEF Controlled, Marked
<1>12. Consistent'
  <2>1. UpConns' = UpConns
    BY <1>7 DEF UpConns
  <2> QED
    BY <2>1 DEF Controlled, Consistent
<1>13. Shape'
  BY <1>1, <1>3, <1>5 DEF Controlled, Shape
<1> QED
  BY <1>6, <1>10, <1>11, <1>12, <1>13 DEF Controlled

LEMMA LeaveStep ==
    ASSUME ControllerType, Controlled, NEW w \in Workers, Leave(w)
    PROVE  ControllerType' /\ Controlled'
<1>1. /\ worker[w].pc = "wait" /\ worker' = [worker EXCEPT ![w].pc = "gone"]
      /\ UNCHANGED <<connected, managed, count, queue, round, stopping, shifted>>
  BY DEF Leave
<1>2. worker \in [Workers -> WorkerType]
  BY DEF ControllerType, WorkerType
<1>3. /\ worker' \in [Workers -> WorkerType]
      /\ \A v \in Workers : /\ worker'[v].work = worker[v].work
                            /\ worker'[v].pc = IF v = w THEN "gone" ELSE worker[v].pc
  BY <1>1, <1>2 DEF WorkerType
<1>4. ControllerType'
  BY <1>1, <1>3 DEF ControllerType, WorkerType
<1>5. \A v \in Workers : \A d \in Conns : HasWork(v, d)' <=> HasWork(v, d)
  BY <1>3 DEF HasWork
<1>6. \A d \in Conns : /\ Man(d)' <=> Man(d)
                       /\ Pend(d)' <=> Pend(d)
                       /\ InQueue(d)' <=> InQueue(d)
                       /\ InRound(d)' <=> InRound(d)
  BY <1>1 DEF Man, Pend, InQueue, InRound
<1>7. \A d \in Conns : AtWorker(d)' <=> AtWorker(d)
  BY <1>5 DEF AtWorker
<1>8. OneHand' /\ Marked'
  BY <1>1, <1>5, <1>6, <1>7 DEF Controlled, OneHand, Marked
<1>9. UpConns' = UpConns
  BY <1>1, <1>6 DEF UpConns
<1>10. Consistent'
  BY <1>1, <1>9 DEF Controlled, Consistent
<1>11. Shape'
  BY <1>1, <1>3 DEF Controlled, Shape
<1> QED
  BY <1>4, <1>8, <1>10, <1>11 DEF Controlled

-------------------------------------------------------------------------------
LEMMA NotifyStep ==
    ASSUME ControllerType, Controlled, NEW c, NotifyFailure(c)
    PROVE  ControllerType' /\ Controlled'
<1>1. UNCHANGED <<worker, round, stopping, shifted>>
  BY DEF NotifyFailure
<1>2. round \in RoundType /\ (round.pc = "idle" => round.recs = {} /\ round.checks = {})
  BY DEF ControllerType, RoundType, Controlled, Shape
<1>3. CASE Entries(c) = {}
  BY <1>1, <1>2, <1>3, QuietStep DEF NotifyFailure, ControllerType
<1>4. ASSUME NEW i \in DOMAIN managed, Failed(i) PROVE ControllerType' /\ Controlled'
  BY <1>1, <1>2, <1>4, FailedStep DEF RoundType
<1> QED
  BY <1>3, <1>4 DEF NotifyFailure, Entries

LEMMA ControllerStepInv ==
    ASSUME ControllerType, Controlled, ControllerStep \/ StopCalled
    PROVE  ControllerType' /\ Controlled'
<1>1. ASSUME NEW is \in SUBSET Checkable, RunScan(is) PROVE ControllerType' /\ Controlled'
  BY <1>1, RunScanStep
<1>2. CASE RunEnqueues
  BY <1>2, RunEnqueuesStep
<1>3. CASE CheckPasses \/ CheckFails
  BY <1>3, CheckStep
<1>4. ASSUME NEW w \in Workers, Reconnect(w) PROVE ControllerType' /\ Controlled'
  <2>1. CASE Pop(w)
    BY <2>1, PopStep
  <2>2. CASE OpenSucceeds(w)
    <3>1. /\ worker[w].pc = "open" /\ worker' = Rest(w)
          /\ UNCHANGED <<queue, round, stopping, shifted>>
      BY <2>2 DEF OpenSucceeds
    <3>2. CASE Found(worker[w].work) = {} /\ UNCHANGED <<managed, connected, count>>
      BY <3>1, <3>2, GiveBack
    <3>3. ASSUME NEW i \in Found(worker[w].work), managed' = [managed EXCEPT ![i].pending = FALSE],
                 connected' = [connected EXCEPT ![worker[w].work.conn] = TRUE], count' = count + 1
          PROVE  ControllerType' /\ Controlled'
      BY <3>1, <3>3, ReconnectEnds
    <3> QED
      BY <2>2, <3>2, <3>3 DEF OpenSucceeds
  <2>3. CASE OpenFails(w)
    <3>1. /\ worker[w].pc = "open" /\ worker' = Rest(w)
          /\ UNCHANGED <<connected, count, round, stopping, shifted>>
      BY <2>3 DEF OpenFails
    <3>2. CASE Found(worker[w].work) = {} /\ UNCHANGED <<queue, managed>>
      BY <3>1, <3>2, GiveBack
    <3>3. ASSUME NEW i \in Found(worker[w].work), managed' = [managed EXCEPT ![i].pending = FALSE],
                 UNCHANGED queue
          PROVE  ControllerType' /\ Controlled'
      BY <3>1, <3>3, ReconnectEnds
    <3>4. ASSUME NEW i \in Found(worker[w].work), UNCHANGED managed,
                 queue' = Append(queue, Work(worker[w].work.conn, worker[w].work.retries + 1))
          PROVE  ControllerType' /\ Controlled'
      BY <3>1, <3>4, ReconnectRetries
    <3> QED
      BY <2>3, <3>2, <3>3, <3>4 DEF OpenFails
  <2>4. CASE Leave(w)
    BY <2>4, LeaveStep
  <2> QED
    BY <1>4, <2>1, <2>2, <2>3, <2>4 DEF Reconnect
<1>5. CASE StopJoins \/ StopReturns \/ StopCalled
  <2>1. /\ UNCHANGED <<connected, managed, count, queue, worker, round, shifted>>
        /\ stopping' \in {"no", "join", "drain", "done"}
    BY <1>5 DEF StopJoins, StopReturns, StopCalled
  <2>2. round \in RoundType /\ (round.pc = "idle" => round.recs = {} /\ round.checks = {})
    BY DEF ControllerType, RoundType, Controlled, Shape
  <2> QED
    BY <2>1, <2>2, QuietStep
<1> QED
  BY <1>1, <1>2, <1>3, <1>4, <1>5 DEF ControllerStep, RunRound

\* No step of the controller on its own, and no report to it, manages or unmanages.
LEMMA EntriesStay ==
    ASSUME ControllerType, ControllerStep \/ StopCalled \/ (\E c : NotifyFailure(c))
    PROVE  \A d : Man(d)' <=> Man(d)
<1>1. ASSUME NEW i \in DOMAIN managed, NEW b \in BOOLEAN, managed' = [managed EXCEPT ![i].pending = b]
      PROVE  \A d : Man(d)' <=> Man(d)
  <2>1. /\ DOMAIN managed' = DOMAIN managed
        /\ \A j \in DOMAIN managed : managed'[j].conn = managed[j].conn
    BY <1>1, MarkEntry
  <2> QED
    BY <2>1 DEF Man
<1>2. ASSUME NEW is, RunScan(is) PROVE \A d : Man(d)' <=> Man(d)
  <2>1. /\ DOMAIN managed' = DOMAIN managed
        /\ \A j \in DOMAIN managed : managed'[j].conn = managed[j].conn
    BY <1>2, Elements DEF RunScan, EntryType
  <2> QED
    BY <2>1 DEF Man
<1>3. CASE UNCHANGED managed
  BY <1>3 DEF Man
<1>4. CASE \E i \in DOMAIN managed : Failed(i)
  BY <1>1, <1>4 DEF Failed
<1>5. ASSUME NEW w \in Workers, Reconnect(w) PROVE \A d : Man(d)' <=> Man(d)
  <2>1. \/ UNCHANGED managed
        \/ \E i \in DOMAIN managed : managed' = [managed EXCEPT ![i].pending = FALSE]
    BY <1>5 DEF Reconnect, Pop, OpenSucceeds, OpenFails, Leave, Found
  <2> QED
    BY <1>1, <1>3, <2>1
<1>6. CASE RunEnqueues \/ CheckPasses \/ StopJoins \/ StopReturns \/ StopCalled
  BY <1>3, <1>6 DEF RunEnqueues, CheckPasses, StopJoins, StopReturns, StopCalled
<1>7. CASE CheckFails
  BY <1>3, <1>4, <1>7 DEF CheckFails, Found
<1>8. CASE \E c : NotifyFailure(c)
  BY <1>3, <1>4, <1>8 DEF NotifyFailure, Entries
<1> QED
  BY <1>2, <1>5, <1>6, <1>7, <1>8 DEF ControllerStep, RunRound

-------------------------------------------------------------------------------
(* The steps of the actors, by what they do to the connection they are about *)

Tasks == WarmTask \cup PoolTask
Spots == 1..(NumConns + 1)

LEMMA Distinct == Conns \subseteq Spots /\ Busy \subseteq Places /\ \A q \in Queries : q \notin Tasks
BY HttpAssumption DEF Spots, Tasks, Busy, Places

\* at after a step of one actor.
LEMMA Went ==
    ASSUME ActorType, OwnPlaces, NEW a \in Actors, NEW pc \in Places, NEW d \in Spots, Go(a, pc, d),
           pc \in Busy => d \in Conns, a \in Tasks => pc = "idle" \/ d = a[2]
    PROVE  /\ at' \in [Actors -> [pc : Places, conn : Spots]]
           /\ at'[a].pc = pc /\ at'[a].conn = d
           /\ \A b \in Actors : b # a => at'[b] = at[b]
           /\ \A b \in Actors : at'[b].pc \in Busy => at'[b].conn \in Conns
           /\ \A b \in Tasks : at'[b].pc # "idle" => at'[b].conn = b[2]
<1>1. at' = [at EXCEPT ![a] = [pc |-> pc, conn |-> d]] /\ at \in [Actors -> [pc : Places, conn : Spots]]
  BY DEF Go, ActorType, Spots
<1>2. /\ at'[a].pc = pc /\ at'[a].conn = d
      /\ \A b \in Actors : b # a => at'[b] = at[b]
  BY <1>1
<1>3. at' \in [Actors -> [pc : Places, conn : Spots]]
  BY <1>1
<1>4. Tasks \subseteq Actors
  BY DEF Tasks, Actors
<1> QED
  BY <1>2, <1>3, <1>4 DEF OwnPlaces, Tasks

LEMMA Takes ==
    ASSUME ActorType, OwnPlaces, OneOwner, ~overran, NEW a \in Actors, at[a].pc \notin Busy,
           NEW pc \in Busy, NEW c \in Conns, Claim(c), Go(a, pc, c), a \in Tasks => c = a[2],
           UNCHANGED <<warm, leaked, overran>>
    PROVE  ActorType' /\ OwnPlaces' /\ OneOwner'
<1>1. /\ at' \in [Actors -> [pc : Places, conn : Spots]]
      /\ at'[a].pc = pc /\ at'[a].conn = c
      /\ \A b \in Actors : b # a => at'[b] = at[b]
      /\ \A b \in Actors : at'[b].pc \in Busy => at'[b].conn \in Conns
      /\ \A b \in Tasks : at'[b].pc # "idle" => at'[b].conn = b[2]
  <2>1. pc \in Places /\ c \in Spots
    BY Distinct
  <2> QED
    BY <2>1, Went
<1>2. ~inUse[c] /\ inUse' = [inUse EXCEPT ![c] = TRUE] /\ inUse \in [Conns -> BOOLEAN]
  BY DEF Claim, ActorType
<1>3. ActorType' /\ OwnPlaces'
  BY <1>1, <1>2 DEF ActorType, OwnPlaces, Spots, Tasks
<1>4. \A b \in Actors : \A d \in Conns : Has(b, d)' <=> Has(b, d) \/ (b = a /\ d = c)
  BY <1>1 DEF Has
<1>5. \A d \in Conns : WarmHas(d)' <=> WarmHas(d)
  BY DEF WarmHas
<1>6. c \notin leaked /\ ~WarmHas(c) /\ \A b \in Actors : ~Has(b, c)
  BY <1>2 DEF OneOwner
<1>7. \A d \in Conns : inUse'[d] <=> inUse[d] \/ d = c
  BY <1>2
<1> QED
  BY <1>3, <1>4, <1>5, <1>6, <1>7 DEF OneOwner

LEMMA Releases ==
    ASSUME ActorType, OwnPlaces, OneOwner, ~overran, NEW a \in Actors, at[a].pc \in Busy,
           Release(at[a].conn), NEW pc \in Places \ Busy, NEW d \in Spots, Go(a, pc, d),
           a \in Tasks => pc = "idle", UNCHANGED <<warm, leaked, overran>>
    PROVE  ActorType' /\ OwnPlaces' /\ OneOwner'
<1> DEFINE c == at[a].conn
<1>1. /\ at' \in [Actors -> [pc : Places, conn : Spots]]
      /\ at'[a].pc = pc
      /\ \A b \in Actors : b # a => at'[b] = at[b]
      /\ \A b \in Actors : at'[b].pc \in Busy => at'[b].conn \in Conns
      /\ \A b \in Tasks : at'[b].pc # "idle" => at'[b].conn = b[2]
  BY Went
<1>2. /\ c \in Conns /\ Has(a, c) /\ \A d2 \in Conns : Has(a, d2) => d2 = c
      /\ inUse' = [inUse EXCEPT ![c] = FALSE] /\ inUse \in [Conns -> BOOLEAN]
  BY DEF Release, ActorType, OwnPlaces, Has
<1> HIDE DEF c
<1>3. ActorType' /\ OwnPlaces'
  BY <1>1, <1>2 DEF ActorType, OwnPlaces, Spots, Tasks
<1>4. \A b \in Actors : \A e \in Conns : Has(b, e)' <=> Has(b, e) /\ b # a
  BY <1>1 DEF Has
<1>5. \A e \in Conns : WarmHas(e)' <=> WarmHas(e)
  BY DEF WarmHas
<1>6. c \notin leaked /\ ~WarmHas(c) /\ \A b \in Actors : Has(b, c) => b = a
  BY <1>2 DEF OneOwner
<1>7. \A e \in Conns : inUse'[e] <=> inUse[e] /\ e # c
  BY <1>2
<1> QED
  BY <1>2, <1>3, <1>4, <1>5, <1>6, <1>7 DEF OneOwner

LEMMA Moves ==
    ASSUME ActorType, OwnPlaces, OneOwner, ~overran, NEW a \in Actors, NEW pc \in Places,
           NEW d \in Spots, Go(a, pc, d), pc \in Busy <=> at[a].pc \in Busy,
           pc \in Busy => d = at[a].conn, a \in Tasks => pc = "idle" \/ d = a[2],
           UNCHANGED <<inUse, warm, leaked, overran>>
    PROVE  ActorType' /\ OwnPlaces' /\ OneOwner'
<1>1. pc \in Busy => d \in Conns
  BY DEF OwnPlaces
<1>2. /\ at' \in [Actors -> [pc : Places, conn : Spots]]
      /\ at'[a].pc = pc /\ at'[a].conn = d
      /\ \A b \in Actors : b # a => at'[b] = at[b]
      /\ \A b \in Actors : at'[b].pc \in Busy => at'[b].conn \in Conns
      /\ \A b \in Tasks : at'[b].pc # "idle" => at'[b].conn = b[2]
  BY <1>1, Went
<1>3. ActorType' /\ OwnPlaces'
  BY <1>2 DEF ActorType, OwnPlaces, Spots, Tasks
<1>4. \A b \in Actors : \A e \in Conns : Has(b, e)' <=> Has(b, e)
  BY <1>2 DEF Has
<1>5. \A e \in Conns : WarmHas(e)' <=> WarmHas(e)
  BY DEF WarmHas
<1> QED
  BY <1>3, <1>4, <1>5 DEF OneOwner

LEMMA AllStay ==
    ASSUME ActorType, OwnPlaces, OneOwner, UNCHANGED <<at, inUse, warm, leaked, overran>>
    PROVE  ActorType' /\ OwnPlaces' /\ OneOwner'
<1>1. ActorType' /\ OwnPlaces'
  BY DEF ActorType, OwnPlaces
<1>2. \A b \in Actors : \A e \in Conns : Has(b, e)' <=> Has(b, e)
  BY DEF Has
<1>3. \A e \in Conns : WarmHas(e)' <=> WarmHas(e)
  BY DEF WarmHas
<1> QED
  BY <1>1, <1>2, <1>3 DEF OneOwner

\* doPost() takes a second connection and keeps it.
LEMMA SyncBreaksStep ==
    ASSUME ActorType, OwnPlaces, OneOwner, ~overran, NEW q \in Queries, SyncBreaks(q)
    PROVE  ActorType' /\ OwnPlaces' /\ OneOwner'
<1> DEFINE c == at[q].conn
<1>1. /\ at[q].pc = "syncMore" /\ c <= NumConns /\ Claim(c) /\ leaked' = leaked \cup {c}
      /\ Go(q, "idle", 1) /\ UNCHANGED <<warm, overran>>
  BY DEF SyncBreaks, Conn
<1>2. q \in Actors /\ "idle" \in Places \ Busy /\ 1 \in Spots /\ c \in Conns
  <2>1. q \in Actors /\ c \in 1..(NumConns + 1)
    BY DEF ActorType, Actors
  <2> QED
    BY <1>1, <2>1, HttpAssumption DEF Places, Busy, Spots
<1> HIDE DEF c
<1>3. /\ at' \in [Actors -> [pc : Places, conn : Spots]]
      /\ at'[q].pc = "idle"
      /\ \A b \in Actors : b # q => at'[b] = at[b]
      /\ \A b \in Actors : at'[b].pc \in Busy => at'[b].conn \in Conns
      /\ \A b \in Tasks : at'[b].pc # "idle" => at'[b].conn = b[2]
  BY <1>1, <1>2, Went
<1>4. ~inUse[c] /\ inUse' = [inUse EXCEPT ![c] = TRUE] /\ inUse \in [Conns -> BOOLEAN]
  BY <1>1 DEF Claim, ActorType
<1>5. ActorType' /\ OwnPlaces'
  BY <1>1, <1>2, <1>3, <1>4 DEF ActorType, OwnPlaces, Spots, Tasks
<1>6. \A b \in Actors : \A e \in Conns : Has(b, e)' <=> Has(b, e)
  BY <1>1, <1>2, <1>3 DEF Has, Busy
<1>7. \A e \in Conns : WarmHas(e)' <=> WarmHas(e)
  BY <1>1 DEF WarmHas
<1>8. c \notin leaked /\ ~WarmHas(c) /\ \A b \in Actors : ~Has(b, c)
  BY <1>2, <1>4 DEF OneOwner
<1>9. \A e \in Conns : inUse'[e] <=> inUse[e] \/ e = c
  BY <1>4
<1> QED
  BY <1>1, <1>5, <1>6, <1>7, <1>8, <1>9 DEF OneOwner

\* openPoolAsync() takes every connection that is down and free, the one its caller
\* has just released included, each for the task that is to open it.
LEMMA SyncSucceedsStep ==
    ASSUME ActorType, OwnPlaces, OneOwner, ~overran, NEW q \in Queries, SyncSucceeds(q)
    PROVE  ActorType' /\ OwnPlaces' /\ OneOwner'
<1> DEFINE c == at[q].conn
           free == [inUse EXCEPT ![c] = FALSE]
           down == {d \in Conns : ~connected[d] /\ ~free[d]}
<1>1. /\ at[q].pc = "syncExchange"
      /\ inUse' = [d \in Conns |-> free[d] \/ d \in down]
      /\ at' = [a \in Actors |-> IF a = q THEN [pc |-> "idle", conn |-> 1]
                                 ELSE IF a \in PoolTask /\ a[2] \in down THEN [pc |-> "claimed", conn |-> a[2]]
                                 ELSE at[a]]
      /\ UNCHANGED <<warm, leaked, overran>>
  BY DEF SyncSucceeds, Conn
<1>2. q \in Actors /\ "syncExchange" \in Busy /\ q \notin Tasks
  BY Distinct DEF Actors, Busy
<1>3. c \in Conns /\ Has(q, c) /\ \A e \in Conns : Has(q, e) => e = c
  BY <1>1, <1>2 DEF OwnPlaces, Has
<1>4. \A e \in Conns : free[e] <=> inUse[e] /\ e # c
  BY <1>3 DEF ActorType
<1>5. \A e \in Conns : e \in down <=> ~connected[e] /\ ~free[e]
  OBVIOUS
<1>6. down \subseteq Conns
  OBVIOUS
<1> HIDE DEF c, free, down
<1>7. c \notin leaked /\ ~WarmHas(c) /\ \A b \in Actors : Has(b, c) => b = q
  BY <1>2, <1>3 DEF OneOwner
\* Nobody but the caller has a connection that is taken.
<1>8. \A e \in down : e \notin leaked /\ ~WarmHas(e) /\ \A b \in Actors : Has(b, e) => b = q
  BY <1>4, <1>5, <1>6, <1>7 DEF OneOwner
<1>9. PoolTask \subseteq Actors /\ PoolTask \subseteq Tasks /\ Tasks \subseteq Actors
  BY DEF Actors, Tasks
<1>10. \A a \in PoolTask : a[2] \in Conns /\ a = <<"pool", a[2]>>
  BY DEF PoolTask
<1>11. \A e \in Conns : <<"pool", e>> \in PoolTask /\ <<"pool", e>>[2] = e
  BY DEF PoolTask
<1>12. /\ at'[q] = [pc |-> "idle", conn |-> 1]
       /\ \A b \in PoolTask : b[2] \in down => at'[b] = [pc |-> "claimed", conn |-> b[2]]
       /\ \A b \in Actors : b # q /\ ~(b \in PoolTask /\ b[2] \in down) => at'[b] = at[b]
  <2>1. q \notin PoolTask
    BY <1>2, <1>9
  <2> QED
    BY <1>1, <1>2, <1>9, <2>1
<1>13. ASSUME NEW b \in PoolTask, b[2] \in down
       PROVE  at'[b].pc = "claimed" /\ at'[b].conn = b[2]
  <2> DEFINE e == b[2]
  <2>1. at'[b] = [pc |-> "claimed", conn |-> e]
    BY <1>12, <1>13
  <2> HIDE DEF e
  <2>2. at'[b].pc = "claimed" /\ at'[b].conn = e
    BY <2>1
  <2> QED
    BY <2>2 DEF e
<1>14. /\ at' \in [Actors -> [pc : Places, conn : Spots]]
       /\ \A b \in Actors : at'[b].pc \in Busy => at'[b].conn \in Conns
       /\ \A b \in Tasks : at'[b].pc # "idle" => at'[b].conn = b[2]
  <2>1. \A a \in Actors : at[a] \in [pc : Places, conn : Spots]
    BY DEF ActorType, Spots
  <2>2. "idle" \in Places \ Busy /\ "claimed" \in Places \cap Busy /\ 1 \in Spots
    BY HttpAssumption DEF Places, Busy, Spots
  <2>3. \A a \in Actors : at'[a] \in [pc : Places, conn : Spots]
    <3> SUFFICES ASSUME NEW a \in Actors PROVE at'[a] \in [pc : Places, conn : Spots]
      OBVIOUS
    <3>1. CASE a = q
      BY <1>12, <2>2, <3>1
    <3>2. CASE a \in PoolTask /\ a[2] \in down
      <4>1. at'[a] = [pc |-> "claimed", conn |-> a[2]]
        BY <1>12, <3>2
      <4>2. a[2] \in Spots /\ "claimed" \in Places
        BY <1>6, <2>2, <3>2, Distinct
      <4> QED
        BY <4>1, <4>2
    <3> QED
      BY <1>12, <2>1, <3>1, <3>2
  <2>4. at' \in [Actors -> [pc : Places, conn : Spots]]
    BY <1>1, <2>3
  <2>5. \A b \in Actors : at'[b].pc \in Busy => at'[b].conn \in Conns
    <3> SUFFICES ASSUME NEW b \in Actors, at'[b].pc \in Busy PROVE at'[b].conn \in Conns
      OBVIOUS
    <3>1. b # q
      BY <1>12, <2>2
    <3>2. CASE b \in PoolTask /\ b[2] \in down
      <4>1. at'[b].conn = b[2]
        BY <1>13, <3>2
      <4> QED
        BY <1>6, <3>2, <4>1
    <3> QED
      BY <1>12, <3>1, <3>2 DEF OwnPlaces
  <2>6. \A b \in Tasks : at'[b].pc # "idle" => at'[b].conn = b[2]
    <3> SUFFICES ASSUME NEW b \in Tasks, at'[b].pc # "idle" PROVE at'[b].conn = b[2]
      OBVIOUS
    <3>1. CASE b \in PoolTask /\ b[2] \in down
      BY <1>13, <3>1
    <3>2. CASE ~(b \in PoolTask /\ b[2] \in down)
      <4>1. at'[b] = at[b]
        BY <1>2, <1>9, <1>12, <3>2
      <4> QED
        BY <4>1 DEF OwnPlaces, Tasks
    <3> QED
      BY <3>1, <3>2
  <2> QED
    BY <2>4, <2>5, <2>6
<1>15. inUse' \in [Conns -> BOOLEAN] /\ \A e \in Conns : inUse'[e] <=> free[e] \/ e \in down
  <2>1. \A e \in Conns : (free[e] \/ e \in down) \in BOOLEAN
    OBVIOUS
  <2> QED
    BY <1>1, <2>1
<1>16. ActorType' /\ OwnPlaces'
  BY <1>1, <1>14, <1>15 DEF ActorType, OwnPlaces, Spots, Tasks
\* A task that is started had no connection before: it would have been that one.
<1>17. \A b \in Actors : \A e \in Conns :
          Has(b, e)' <=> (Has(b, e) /\ b # q) \/ (e \in down /\ b = <<"pool", e>>)
  <2> SUFFICES ASSUME NEW b \in Actors, NEW e \in Conns
               PROVE  Has(b, e)' <=> (Has(b, e) /\ b # q) \/ (e \in down /\ b = <<"pool", e>>)
    OBVIOUS
  <2>1. "idle" \notin Busy /\ "claimed" \in Busy
    BY DEF Busy
  <2>2. CASE b = q
    <3>1. b # <<"pool", e>>
      BY <1>2, <1>9, <1>11, <2>2
    <3>2. at'[b].pc = "idle"
      BY <1>12, <2>2
    <3> QED
      BY <2>1, <2>2, <3>1, <3>2 DEF Has
  <2>3. CASE b # q /\ b \in PoolTask /\ b[2] \in down
    <3>1. Has(b, e)' <=> e = b[2]
      <4>1. at'[b].pc = "claimed" /\ at'[b].conn = b[2]
        BY <1>13, <2>3
      <4> QED
        BY <2>1, <4>1 DEF Has
    <3>2. ~Has(b, b[2])
      BY <1>8, <2>3
    <3>3. ~Has(b, e)
      <4>1. Has(b, e) => e = b[2]
        BY <1>9, <2>1, <2>3 DEF Has, OwnPlaces, Tasks
      <4> QED
        BY <3>2, <4>1
    <3> QED
      BY <1>10, <1>11, <2>3, <3>1, <3>3
  <2>4. CASE b # q /\ ~(b \in PoolTask /\ b[2] \in down)
    <3>1. Has(b, e)' <=> Has(b, e)
      BY <1>12, <2>4 DEF Has
    <3> QED
      BY <1>11, <2>4, <3>1
  <2> QED
    BY <2>2, <2>3, <2>4
<1>18. \A e \in Conns : WarmHas(e)' <=> WarmHas(e)
  BY <1>1 DEF WarmHas
<1>19. \A e \in Conns : \A b \in Actors : e \in down => ~(Has(b, e) /\ b # q)
  BY <1>8
<1>20. \A e \in down : <<"pool", e>> \in Actors
  BY <1>6, <1>9, <1>11
<1>21. ASSUME NEW e \in Conns
       PROVE  /\ \A a, b \in Actors : (Has(a, e) /\ Has(b, e))' => a = b
              /\ WarmHas(e)' => \A a \in Actors : ~Has(a, e)'
              /\ e \in leaked' => ~WarmHas(e)' /\ \A a \in Actors : ~Has(a, e)'
              /\ inUse'[e] <=> (e \in leaked' \/ WarmHas(e)' \/ \E a \in Actors : Has(a, e)')
  <2>1. CASE e \in down
    BY <1>1, <1>8, <1>15, <1>17, <1>18, <1>19, <1>20, <2>1
  <2>2. CASE e \notin down
    <3>1. \A b \in Actors : Has(b, e)' <=> Has(b, e) /\ b # q
      BY <1>17, <2>2
    <3>2. inUse'[e] <=> inUse[e] /\ e # c
      BY <1>4, <1>15, <2>2
    <3>3. Has(q, e) <=> e = c
      BY <1>3
    <3> QED
      BY <1>1, <1>2, <1>7, <1>18, <3>1, <3>2, <3>3 DEF OneOwner
  <2> QED
    BY <2>1, <2>2
<1> QED
  BY <1>16, <1>21 DEF OneOwner

-------------------------------------------------------------------------------
(* What each kind of step does to the actors *)

\* Nobody comes to open a connection, or to wait to be started.
NobodyComes == \A b \in Actors : at'[b].pc \in {"opening", "start"} => at'[b] = at[b]

LEMMA ComesElsewhere ==
    ASSUME ActorType, NEW a \in Actors, NEW pc, NEW d, Go(a, pc, d), pc \notin {"opening", "start"}
    PROVE  NobodyComes
<1>1. at' = [at EXCEPT ![a] = [pc |-> pc, conn |-> d]] /\ DOMAIN at = Actors
  BY DEF Go, ActorType
<1>2. at'[a].pc = pc /\ \A b \in Actors : b # a => at'[b] = at[b]
  BY <1>1
<1> QED
  BY <1>2 DEF NobodyComes

LEMMA SpotOf ==
    ASSUME ActorType, NEW a \in Actors
    PROVE  at[a].conn \in Spots /\ at[a].pc \in Places /\ (at[a].conn <= NumConns => at[a].conn \in Conns)
BY HttpAssumption DEF ActorType, Spots

LEMMA Named ==
    /\ {"idle", "report", "retry", "sync", "syncMore"} \subseteq Places \ Busy
    /\ {"race", "exchange", "claimed", "syncExchange"} \subseteq Busy
    /\ 1 \in Spots
BY HttpAssumption DEF Places, Busy, Spots

LEMMA QueryStep ==
    ASSUME TypeOK, OwnPlaces, OneOwner, ~overran, NEW q \in Queries, Query(q)
    PROVE  /\ ActorType' /\ OwnPlaces' /\ OneOwner' /\ NobodyComes
           /\ UNCHANGED controller \/ NotifyFailure(at[q].conn)
<1> USE DEF TypeOK
<1>1. q \in Actors /\ q \notin Tasks
  BY Distinct DEF Actors
<1>2. at[q].conn \in Spots
  BY <1>1, SpotOf
<1>3. AfterRace \in {"retry", "sync"} /\ AfterRace' \in {"retry", "sync"}
  BY DEF AfterRace
<1>4. ASSUME NEW fanOut \in BOOLEAN, QueryStarts(q, fanOut)
      PROVE  ActorType' /\ OwnPlaces' /\ OneOwner' /\ NobodyComes /\ UNCHANGED controller
  <2>1. at[q].pc = "idle" /\ UNCHANGED <<controller, warm, leaked, overran>>
    BY <1>4 DEF QueryStarts
  <2>2. ASSUME NEW c \in Conns, Claim(c), Go(q, "race", c)
        PROVE  ActorType' /\ OwnPlaces' /\ OneOwner' /\ NobodyComes
    BY <1>1, <2>1, <2>2, Takes, ComesElsewhere, Named
  <2>3. CASE Go(q, AfterRace, 1) /\ UNCHANGED inUse
    <3>1. AfterRace \in Places \ Busy /\ 1 \in Spots /\ at[q].pc \notin Busy
      BY <1>3, <2>1, Named
    <3>2. ActorType' /\ OwnPlaces' /\ OneOwner'
      BY <1>1, <2>1, <2>3, <3>1, Moves
    <3>3. NobodyComes
      BY <1>1, <1>3, <2>3, ComesElsewhere
    <3> QED
      BY <2>1, <3>2, <3>3
  <2> QED
    BY <1>4, <2>1, <2>2, <2>3 DEF QueryStarts
<1>5. ASSUME NEW c \in Conns, TakeNext(q, c)
      PROVE  ActorType' /\ OwnPlaces' /\ OneOwner' /\ NobodyComes /\ UNCHANGED controller
  <2>1. /\ at[q].pc = "retry" /\ Claim(c) /\ Go(q, "exchange", c)
        /\ UNCHANGED <<controller, warm, leaked, overran>>
    BY <1>5 DEF TakeNext
  <2> QED
    BY <1>1, <2>1, Takes, ComesElsewhere, Named
<1>6. ASSUME NEW ok \in BOOLEAN, RaceEnds(q, ok)
      PROVE  ActorType' /\ OwnPlaces' /\ OneOwner' /\ NobodyComes /\ UNCHANGED controller
  <2>1. PICK pc \in {"idle", "report"} : Go(q, pc, at[q].conn)
    BY <1>6 DEF RaceEnds, Conn
  <2>2. at[q].pc = "race" /\ Release(at[q].conn) /\ UNCHANGED <<controller, warm, leaked, overran>>
    BY <1>6 DEF RaceEnds, Conn
  <2>3. ActorType' /\ OwnPlaces' /\ OneOwner'
    BY <1>1, <1>2, <2>1, <2>2, Releases, Named
  <2>4. NobodyComes
    BY <1>1, <2>1, ComesElsewhere
  <2> QED
    BY <2>2, <2>3, <2>4
<1>7. CASE RaceReports(q)
  <2>1. /\ at[q].pc = "report" /\ NotifyFailure(at[q].conn) /\ Go(q, AfterRace', 1)
        /\ UNCHANGED <<inUse, warm, leaked, overran>>
    BY <1>7 DEF RaceReports, Conn
  <2>2. AfterRace' \in Places \ Busy /\ 1 \in Spots /\ at[q].pc \notin Busy
    BY <1>3, <2>1, Named
  <2>3. ActorType' /\ OwnPlaces' /\ OneOwner'
    BY <1>1, <2>1, <2>2, Moves
  <2>4. NobodyComes
    BY <1>1, <1>3, <2>1, ComesElsewhere
  <2> QED
    BY <2>1, <2>3, <2>4
<1>8. CASE GiveUp(q)
  <2>1. at[q].pc = "retry" /\ Go(q, "sync", 1) /\ UNCHANGED <<controller, inUse, warm, leaked, overran>>
    BY <1>8 DEF GiveUp
  <2> QED
    BY <1>1, <2>1, Moves, ComesElsewhere, Named
<1>9. CASE ExchangeSucceeds(q)
  <2>1. /\ at[q].pc = "exchange" /\ Release(at[q].conn) /\ Go(q, "idle", 1)
        /\ UNCHANGED <<controller, warm, leaked, overran>>
    BY <1>9 DEF ExchangeSucceeds, Conn
  <2> QED
    BY <1>1, <2>1, Releases, ComesElsewhere, Named
<1>10. CASE ExchangeFails(q)
  <2>1. /\ at[q].pc = "exchange" /\ NotifyFailure(at[q].conn) /\ Release(at[q].conn)
        /\ Go(q, "retry", 1) /\ UNCHANGED <<warm, leaked, overran>>
    BY <1>10 DEF ExchangeFails, Conn
  <2> QED
    BY <1>1, <2>1, Releases, ComesElsewhere, Named
<1>11. CASE SyncSkips(q)
  <2>1. /\ at[q].pc \in {"sync", "syncMore"} /\ at[q].conn <= NumConns
        /\ Go(q, at[q].pc, at[q].conn + 1) /\ UNCHANGED <<controller, inUse, warm, leaked, overran>>
    BY <1>11 DEF SyncSkips, Conn
  <2>2. at[q].pc \in Places \ Busy /\ at[q].conn + 1 \in Spots
    BY <1>2, <2>1, Named, HttpAssumption DEF Spots
  <2>3. ActorType' /\ OwnPlaces' /\ OneOwner'
    BY <1>1, <2>1, <2>2, Moves
  <2>4. NobodyComes
    BY <1>1, <2>1, ComesElsewhere
  <2> QED
    BY <2>1, <2>3, <2>4
<1>12. CASE SyncTakes(q)
  <2>1. /\ at[q].pc = "sync" /\ at[q].conn <= NumConns /\ Claim(at[q].conn)
        /\ Go(q, "claimed", at[q].conn) /\ UNCHANGED <<controller, warm, leaked, overran>>
    BY <1>12 DEF SyncTakes, Conn
  <2>2. at[q].conn \in Conns
    BY <1>1, <2>1, SpotOf
  <2> QED
    BY <1>1, <2>1, <2>2, Takes, ComesElsewhere, Named
<1>13. CASE SyncBreaks(q)
  <2>1. Go(q, "idle", 1) /\ UNCHANGED controller
    BY <1>13 DEF SyncBreaks
  <2> QED
    BY <1>1, <1>13, <2>1, SyncBreaksStep, ComesElsewhere
<1>14. CASE SyncEnds(q)
  <2>1. /\ at[q].pc \in {"sync", "syncMore"} /\ Go(q, "idle", 1)
        /\ UNCHANGED <<controller, inUse, warm, leaked, overran>>
    BY <1>14 DEF SyncEnds
  <2> QED
    BY <1>1, <2>1, Moves, ComesElsewhere, Named
<1>15. CASE SyncSucceeds(q)
  <2>1. UNCHANGED controller
    BY <1>15 DEF SyncSucceeds
  <2>2. NobodyComes
    BY <1>15 DEF SyncSucceeds, NobodyComes
  <2> QED
    BY <1>15, <2>1, <2>2, SyncSucceedsStep
<1>16. CASE SyncFails(q)
  <2>1. /\ at[q].pc = "syncExchange" /\ NotifyFailure(at[q].conn) /\ Release(at[q].conn)
        /\ Go(q, "idle", 1) /\ UNCHANGED <<warm, leaked, overran>>
    BY <1>16 DEF SyncFails, Conn
  <2> QED
    BY <1>1, <2>1, Releases, ComesElsewhere, Named
<1> QED
  BY <1>4, <1>5, <1>6, <1>7, <1>8, <1>9, <1>10, <1>11, <1>12, <1>13, <1>14, <1>15, <1>16 DEF Query

\* A task that is started takes its connection or gives up; who has failed to open one
\* gives it back.
LEMMA TaskStep ==
    ASSUME TypeOK, OwnPlaces, Started, OneOwner, ~overran, NEW a \in Actors, TaskStarts(a) \/ NotOpened(a)
    PROVE  ActorType' /\ OwnPlaces' /\ OneOwner' /\ NobodyComes /\ UNCHANGED controller
<1> USE DEF TypeOK
<1>1. CASE TaskStarts(a)
  <2>1. at[a].pc = "start" /\ UNCHANGED <<controller, warm, leaked, overran>> /\ at[a].pc \notin Busy
    BY <1>1 DEF TaskStarts, Busy
  <2>2. a \in WarmTask /\ a[2] \in Conns /\ at[a].conn = a[2] /\ at[a].conn \in Conns
    BY <2>1 DEF Started, OwnPlaces, WarmTask
  <2>3. CASE Claim(at[a].conn) /\ Go(a, "claimed", at[a].conn)
    BY <2>1, <2>2, <2>3, Takes, ComesElsewhere, Named
  <2>4. CASE UNCHANGED inUse /\ Go(a, "idle", at[a].conn)
    <3>1. at[a].conn \in Spots /\ "idle" \in Places \ Busy
      BY SpotOf, Named
    <3> QED
      BY <2>1, <2>4, <3>1, Moves, ComesElsewhere
  <2> QED
    BY <1>1, <2>1, <2>3, <2>4 DEF TaskStarts, Conn
<1>2. CASE NotOpened(a)
  <2>1. /\ at[a].pc = "opening" /\ Release(at[a].conn)
        /\ UNCHANGED <<controller, warm, leaked, overran>>
    BY <1>2 DEF NotOpened, Conn
  <2>2. at[a].pc \in Busy /\ at[a].conn \in Conns
    BY <2>1 DEF Busy, OwnPlaces
  <2>3. CASE a \in Queries /\ Go(a, "syncMore", at[a].conn + 1)
    <3>1. at[a].conn + 1 \in Spots /\ "syncMore" \in Places \ Busy /\ a \notin Tasks
      BY <2>2, <2>3, Named, Distinct, HttpAssumption DEF Spots
    <3> QED
      BY <2>1, <2>2, <2>3, <3>1, Releases, ComesElsewhere
  <2>4. CASE Go(a, "idle", at[a].conn)
    <3>1. at[a].conn \in Spots /\ "idle" \in Places \ Busy
      BY SpotOf, Named
    <3> QED
      BY <2>1, <2>2, <2>4, <3>1, Releases, ComesElsewhere
  <2> QED
    BY <1>2, <2>3, <2>4 DEF NotOpened, Conn
<1> QED
  BY <1>1, <1>2

LEMMA WarmStep ==
    ASSUME TypeOK, OwnPlaces, OneOwner, ~overran, WarmUp
    PROVE  /\ ActorType' /\ OwnPlaces' /\ OneOwner' /\ UNCHANGED at
           /\ UNCHANGED controller \/ NotifyFailure(warm.conn)
<1> USE DEF TypeOK
<1> DEFINE c == warm.conn
<1>1. c \in Conns /\ UNCHANGED <<at, leaked>> /\ c + 1 \in Spots
  BY HttpAssumption DEF WarmUp, WarmSkips, WarmTakes, WarmExchanged, Warming, ActorType, Spots
<1>2. warm \in [conn : Spots, busy : BOOLEAN] /\ inUse \in [Conns -> BOOLEAN]
  BY DEF ActorType, Spots
<1>3. \A b \in Actors : \A e \in Conns : Has(b, e)' <=> Has(b, e)
  BY <1>1 DEF Has
<1>4. CASE WarmSkips
  <2>1. ~warm.busy /\ warm' = [warm EXCEPT !.conn = c + 1] /\ UNCHANGED <<controller, inUse, overran>>
    BY <1>4 DEF WarmSkips
  <2>2. warm' \in [conn : Spots, busy : BOOLEAN] /\ ~warm'.busy
    BY <1>1, <1>2, <2>1
  <2>3. ActorType' /\ OwnPlaces'
    BY <1>1, <2>1, <2>2 DEF ActorType, OwnPlaces, Spots
  <2>4. \A e \in Conns : ~WarmHas(e)' /\ ~WarmHas(e)
    BY <2>1, <2>2 DEF WarmHas
  <2>5. OneOwner'
    BY <1>1, <1>3, <2>1, <2>4 DEF OneOwner
  <2> QED
    BY <1>1, <2>1, <2>3, <2>5
<1>5. CASE WarmTakes
  <2>1. /\ ~warm.busy /\ overran' = inUse[c] /\ inUse' = [inUse EXCEPT ![c] = TRUE]
        /\ warm' = [warm EXCEPT !.busy = TRUE] /\ UNCHANGED controller
    BY <1>5 DEF WarmTakes
  <2>2. warm' \in [conn : Spots, busy : BOOLEAN] /\ warm'.busy /\ warm'.conn = c
    BY <1>1, <1>2, <2>1
  <2>3. inUse' \in [Conns -> BOOLEAN] /\ overran' \in BOOLEAN
    BY <1>1, <1>2, <2>1
  <2>4. ActorType' /\ OwnPlaces'
    BY <1>1, <2>2, <2>3 DEF ActorType, OwnPlaces, Spots
  <2>5. \A e \in Conns : (WarmHas(e)' <=> e = c) /\ ~WarmHas(e)
    BY <2>1, <2>2 DEF WarmHas
  <2>6. \A e \in Conns : inUse'[e] <=> inUse[e] \/ e = c
    BY <1>1, <1>2, <2>1
  <2>7. OneOwner'
    <3> SUFFICES ASSUME ~overran' PROVE OneOwner'
      BY DEF OneOwner
    <3>1. c \notin leaked /\ \A b \in Actors : ~Has(b, c)
      BY <1>1, <2>1 DEF OneOwner
    <3> HIDE DEF c
    <3> QED
      BY <1>1, <1>3, <2>5, <2>6, <3>1 DEF OneOwner
  <2> QED
    BY <1>1, <2>1, <2>4, <2>7
<1>6. ASSUME NEW ok \in BOOLEAN, WarmExchanged(ok)
      PROVE  /\ ActorType' /\ OwnPlaces' /\ OneOwner'
             /\ UNCHANGED controller \/ NotifyFailure(warm.conn)
  <2>1. /\ warm.busy /\ inUse' = [inUse EXCEPT ![c] = FALSE]
        /\ warm' = [conn |-> c + 1, busy |-> FALSE] /\ UNCHANGED overran
        /\ UNCHANGED controller \/ NotifyFailure(c)
    BY <1>6 DEF WarmExchanged, Release
  <2>2. warm' \in [conn : Spots, busy : BOOLEAN] /\ ~warm'.busy
    BY <1>1, <2>1
  <2>3. inUse' \in [Conns -> BOOLEAN]
    BY <1>1, <1>2, <2>1
  <2>4. ActorType' /\ OwnPlaces'
    BY <1>1, <2>1, <2>2, <2>3 DEF ActorType, OwnPlaces, Spots
  <2>5. \A e \in Conns : ~WarmHas(e)' /\ (WarmHas(e) <=> e = c)
    BY <2>1, <2>2 DEF WarmHas
  <2>6. \A e \in Conns : inUse'[e] <=> inUse[e] /\ e # c
    BY <1>1, <1>2, <2>1
  <2>7. c \notin leaked /\ \A b \in Actors : ~Has(b, c)
    BY <1>1, <2>5 DEF OneOwner
  <2>8. OneOwner'
    <3> HIDE DEF c
    <3> QED
      BY <1>1, <1>3, <2>1, <2>5, <2>6, <2>7 DEF OneOwner
  <2> QED
    BY <2>1, <2>4, <2>8
<1> QED
  BY <1>1, <1>4, <1>5, <1>6 DEF WarmUp

-------------------------------------------------------------------------------
(* The invariant is inductive *)

LEMMA NoEntry == \A c : Entries(c) = {} <=> ~Man(c)
BY DEF Entries, Man

\* A step by which nobody comes to open a connection, and none is managed.
LEMMA StillUnmanaged ==
    ASSUME ActorType, ActorType', Started, OpenedUnmanaged, overran' \/ ~overran,
           NobodyComes, \A d : Man(d)' => Man(d)
    PROVE  Started' /\ OpenedUnmanaged'
<1>1. Started'
  BY DEF Started, NobodyComes
<1>2. \A d : (Entries(d) = {})' <=> ~Man(d)'
  BY DEF Entries, Man
<1>3. OpenedUnmanaged'
  BY <1>2, NoEntry DEF OpenedUnmanaged, NobodyComes
<1> QED
  BY <1>1, <1>3

\* Unmanaging and managing: the connection is opened by its owner, and by nobody else.
LEMMA CloseOldStep ==
    ASSUME TypeOK, IInv, ~overran, ~shifted, NEW a \in Actors, CloseOld(a)
    PROVE  TypeOK' /\ IInv'
<1> USE DEF TypeOK, IInv
<1> DEFINE c == at[a].conn
<1>1. /\ at[a].pc = "claimed" /\ UnmanageAndClose(c) /\ Go(a, "opening", c)
      /\ UNCHANGED <<inUse, warm, leaked, overran>>
  BY DEF CloseOld, Conn
<1>2. c \in Conns /\ {"claimed", "opening"} \subseteq Busy
  BY <1>1 DEF OwnPlaces, Busy
<1>3. c \in Spots /\ "opening" \in Places
  BY SpotOf DEF Places
<1>4. a \in Tasks => c = a[2]
  BY <1>1 DEF OwnPlaces, Tasks
<1>5. ActorType' /\ OwnPlaces' /\ OneOwner'
  BY <1>1, <1>2, <1>3, <1>4, Moves
<1>6. ControllerType' /\ (~shifted' => Controlled') /\ \A d \in Conns : Man(d)' <=> Man(d) /\ d # c
  BY <1>1, <1>2, UnmanageStep DEF ControllerInv
<1>7. at'[a].pc = "opening" /\ at'[a].conn = c /\ \A b \in Actors : b # a => at'[b] = at[b]
  BY <1>1 DEF Go, ActorType
<1>8. Started'
  BY <1>7 DEF Started
<1>9. OpenedUnmanaged'
  <2> SUFFICES ASSUME NEW b \in Actors, NEW e, at'[b].pc = "opening", at'[b].conn = e PROVE ~Man(e)'
    BY DEF OpenedUnmanaged, Entries, Man
  <2>1. e \in Conns
    BY <1>2, <1>5 DEF OwnPlaces
  <2>2. CASE b = a
    BY <1>2, <1>6, <1>7, <2>2
  <2>3. CASE b # a
    <3>1. at[b].pc = "opening" /\ at[b].conn = e
      BY <1>7, <2>3
    <3>2. ~Man(e)
      BY <3>1, NoEntry DEF OpenedUnmanaged
    <3> QED
      BY <1>6, <2>1, <3>2
  <2> QED
    BY <2>2, <2>3
<1> QED
  BY <1>5, <1>6, <1>8, <1>9 DEF ControllerInv

LEMMA OpenedStep ==
    ASSUME TypeOK, IInv, ~overran, ~shifted, NEW a \in Actors, Opened(a)
    PROVE  TypeOK' /\ IInv'
<1> USE DEF TypeOK, IInv
<1> DEFINE c == at[a].conn
<1>1. at[a].pc = "opening" /\ Manage(c) /\ UNCHANGED <<warm, leaked, overran>>
  BY DEF Opened, Conn
<1>2. \/ a \in Queries /\ Go(a, "syncExchange", c) /\ UNCHANGED inUse
      \/ Go(a, "idle", c) /\ Release(c)
  BY DEF Opened, Conn
<1>3. c \in Conns /\ at[a].pc \in Busy /\ ~Man(c)
  BY <1>1, NoEntry DEF OwnPlaces, Busy, OpenedUnmanaged
<1>4. c \in Spots
  BY SpotOf
<1>5. ActorType' /\ OwnPlaces' /\ OneOwner'
  <2>1. CASE a \in Queries /\ Go(a, "syncExchange", c) /\ UNCHANGED inUse
    <3>1. "syncExchange" \in Places /\ "syncExchange" \in Busy /\ a \notin Tasks
      BY <2>1, Distinct, Named
    <3> QED
      BY <1>1, <1>3, <1>4, <2>1, <3>1, Moves
  <2>2. CASE Go(a, "idle", c) /\ Release(c)
    BY <1>1, <1>3, <1>4, <2>2, Releases, Named
  <2> QED
    BY <1>2, <2>1, <2>2
<1>6. ControllerType' /\ Controlled'
  BY <1>1, <1>3, ManageStep DEF ControllerInv
<1>7. at'[a].pc \in {"syncExchange", "idle"} /\ \A b \in Actors : b # a => at'[b] = at[b]
  BY <1>2 DEF Go, ActorType
<1>8. \A d : Man(d)' <=> Man(d) \/ d = c
  <2> DEFINE e == [conn |-> c, pending |-> FALSE]
  <2>1. managed' = Append(managed, e) /\ e.conn = c /\ e \in EntryType /\ managed \in Seq(EntryType)
    BY <1>1, <1>3 DEF Manage, EntryType, ControllerType
  <2> HIDE DEF e
  <2>2. /\ DOMAIN managed' = DOMAIN managed \cup {Len(managed) + 1}
        /\ \A i \in DOMAIN managed : managed'[i] = managed[i]
        /\ managed'[Len(managed) + 1] = e
    BY <2>1
  <2> QED
    BY <2>1, <2>2 DEF Man
<1>9. Started'
  BY <1>7 DEF Started
<1>10. OpenedUnmanaged'
  <2> SUFFICES ASSUME NEW b \in Actors, at'[b].pc = "opening" PROVE (Entries(at[b].conn) = {})'
    BY DEF OpenedUnmanaged
  <2>1. b # a /\ at'[b] = at[b]
    BY <1>7
  <2>2. ~Man(at[b].conn)
    BY <1>1, <2>1, NoEntry DEF OpenedUnmanaged
  <2>3. at[b].conn # c
    <3>1. Has(a, c)
      BY <1>3 DEF Has
    <3>2. Has(b, at[b].conn)
      BY <2>1 DEF Has, Busy
    <3> QED
      BY <1>1, <1>3, <2>1, <3>1, <3>2 DEF OneOwner
  <2>4. ~Man(at[b].conn)'
    BY <1>8, <2>1, <2>2, <2>3
  <2> QED
    BY <2>4 DEF Entries, Man
<1> QED
  BY <1>5, <1>6, <1>9, <1>10 DEF ControllerInv

LEMMA InitInv == Init => TypeOK /\ IInv
<1> SUFFICES ASSUME Init PROVE TypeOK /\ IInv
  OBVIOUS
<1>1. ControllerType
  <2>1. managed \in Seq(EntryType) /\ queue \in Seq(WorkType)
    BY DEF Init, ControllerInit
  <2>2. worker \in [Workers -> WorkerType]
    BY DEF Init, ControllerInit, WorkerType
  <2>3. round \in RoundType
    BY DEF Init, ControllerInit, RoundType
  <2>4. connected \in [Conns -> BOOLEAN] /\ count \in Int
    BY DEF Init, ControllerInit
  <2>5. stopping \in {"no", "join", "drain", "done"} /\ shifted \in BOOLEAN
    BY DEF Init, ControllerInit
  <2> QED
    BY <2>1, <2>2, <2>3, <2>4, <2>5 DEF ControllerType, WorkerType, RoundType
<1>2. \A a \in WarmTask : a[2] \in Conns
  BY DEF WarmTask
<1>3. 1 \in Spots /\ Conns \subseteq Spots /\ WarmTask \subseteq Actors /\ "idle" \notin Busy /\ "start" \notin Busy
      /\ {"idle", "start"} \subseteq Places
  BY Distinct, Named DEF Actors, Busy, Places
<1>4. /\ \A a \in WarmTask : at[a].pc = "start" /\ at[a].conn = a[2]
      /\ \A a \in Actors \ WarmTask : at[a].pc = "idle" /\ at[a].conn = 1
  BY <1>3 DEF Init
<1>5. at \in [Actors -> [pc : Places, conn : Spots]]
  <2>1. \A a \in Actors : (IF a \in WarmTask THEN [pc |-> "start", conn |-> a[2]]
                                             ELSE [pc |-> "idle", conn |-> 1]) \in [pc : Places, conn : Spots]
    BY <1>2, <1>3
  <2> QED
    BY <2>1 DEF Init
<1>6. ActorType
  BY <1>3, <1>5 DEF Init, ActorType, Spots
<1>7. \A a \in Actors : at[a].pc \notin Busy /\ at[a].pc # "opening"
  BY <1>3, <1>4 DEF Busy
<1>8. OwnPlaces /\ Started
  <2>1. \A a \in WarmTask \cup PoolTask : at[a].pc # "idle" => at[a].conn = a[2]
    <3>1. WarmTask \cup PoolTask \subseteq Actors
      BY DEF Actors
    <3> QED
      BY <1>4, <3>1
  <2>2. Started
    BY <1>4 DEF Started
  <2> QED
    BY <1>7, <2>1, <2>2 DEF Init, OwnPlaces
<1>9. OneOwner /\ OpenedUnmanaged
  BY <1>7 DEF Init, OneOwner, OpenedUnmanaged, Has, WarmHas
<1>10. ControllerInv
  <2>1. /\ managed = << >> /\ queue = << >> /\ count = 0 /\ round.recs = {} /\ round.checks = {}
        /\ \A w \in Workers : worker[w].work = None /\ worker[w].pc = "wait"
    BY DEF Init, ControllerInit
  <2>2. \A c \in Conns : ~Man(c) /\ ~Pend(c) /\ ~InQueue(c) /\ ~AtWorker(c) /\ ~InRound(c)
    BY <2>1 DEF Man, Pend, InQueue, AtWorker, HasWork, InRound
  <2>3. OneHand /\ Marked
    BY <2>1, <2>2 DEF OneHand, Marked, HasWork
  <2>4. UpConns = {}
    BY <2>2 DEF UpConns
  <2>5. Consistent /\ Shape
    BY <2>1, <2>4, FS_EmptySet DEF Consistent, Shape
  <2> QED
    BY <2>3, <2>5 DEF ControllerInv, Controlled
<1> QED
  BY <1>1, <1>6, <1>8, <1>9, <1>10 DEF TypeOK, IInv

\* A report to the controller, or nothing.
LEMMA ReportKeeps ==
    ASSUME ControllerType, Controlled, NEW c, UNCHANGED controller \/ NotifyFailure(c)
    PROVE  ControllerType' /\ Controlled' /\ \A d : Man(d)' <=> Man(d)
<1>1. CASE NotifyFailure(c)
  BY <1>1, NotifyStep, EntriesStay
<1>2. CASE UNCHANGED controller
  <2>1. UNCHANGED <<connected, managed, count, queue, worker, round, stopping, shifted>>
    BY <1>2 DEF controller
  <2>2. round \in RoundType /\ (round.pc = "idle" => round.recs = {} /\ round.checks = {})
    BY DEF ControllerType, RoundType, Controlled, Shape
  <2>3. ControllerType' /\ Controlled'
    BY <2>1, <2>2, QuietStep DEF ControllerType
  <2> QED
    BY <2>1, <2>3 DEF Man
<1> QED
  BY <1>1, <1>2

LEMMA NextInv == TypeOK /\ IInv /\ [Next]_vars => (TypeOK /\ IInv)'
<1> SUFFICES ASSUME TypeOK, IInv, [Next]_vars PROVE TypeOK' /\ IInv'
  OBVIOUS
<1>1. CASE Next
  <2>1. ~overran /\ ~shifted /\ ControllerType /\ ActorType /\ Controlled
    BY <1>1 DEF Next, TypeOK, IInv, ControllerInv
  <2>2. ASSUME ActorType', OwnPlaces', OneOwner', NobodyComes, ControllerType', Controlled',
               \A d : Man(d)' <=> Man(d)
        PROVE  TypeOK' /\ IInv'
    BY <2>1, <2>2, StillUnmanaged DEF TypeOK, IInv, ControllerInv
  <2>3. ASSUME UNCHANGED at PROVE NobodyComes
    BY <2>3 DEF NobodyComes
  <2>4. CASE Controller \/ Destroy
    <3>1. ControllerStep \/ StopCalled
      BY <2>4 DEF Controller, Destroy
    <3>2. UNCHANGED <<inUse, at, warm, leaked, overran>>
      BY <2>4 DEF Controller, Destroy
    <3>3. ControllerType' /\ Controlled' /\ \A d : Man(d)' <=> Man(d)
      BY <2>1, <3>1, ControllerStepInv, EntriesStay
    <3>4. ActorType' /\ OwnPlaces' /\ OneOwner' /\ NobodyComes
      BY <2>1, <2>3, <3>2, AllStay DEF IInv
    <3> QED
      BY <2>2, <3>3, <3>4
  <2>5. CASE WarmUp
    <3>1. /\ ActorType' /\ OwnPlaces' /\ OneOwner' /\ UNCHANGED at
          /\ UNCHANGED controller \/ NotifyFailure(warm.conn)
      BY <2>1, <2>5, WarmStep DEF IInv
    <3>2. ControllerType' /\ Controlled' /\ \A d : Man(d)' <=> Man(d)
      BY <2>1, <3>1, ReportKeeps
    <3> QED
      BY <2>2, <2>3, <3>1, <3>2
  <2>6. ASSUME NEW q \in Queries, Query(q) PROVE TypeOK' /\ IInv'
    <3>1. /\ ActorType' /\ OwnPlaces' /\ OneOwner' /\ NobodyComes
          /\ UNCHANGED controller \/ NotifyFailure(at[q].conn)
      BY <2>1, <2>6, QueryStep DEF IInv
    <3>2. ControllerType' /\ Controlled' /\ \A d : Man(d)' <=> Man(d)
      BY <2>1, <3>1, ReportKeeps
    <3> QED
      BY <2>2, <3>1, <3>2
  <2>7. ASSUME NEW a \in Actors, Opener(a) PROVE TypeOK' /\ IInv'
    <3>1. CASE TaskStarts(a) \/ NotOpened(a)
      <4>1. ActorType' /\ OwnPlaces' /\ OneOwner' /\ NobodyComes /\ UNCHANGED controller
        BY <2>1, <3>1, TaskStep DEF IInv
      <4>2. ControllerType' /\ Controlled' /\ \A d : Man(d)' <=> Man(d)
        BY <2>1, <4>1, ReportKeeps
      <4> QED
        BY <2>2, <4>1, <4>2
    <3>2. CASE CloseOld(a)
      BY <2>1, <3>2, CloseOldStep
    <3>3. CASE Opened(a)
      BY <2>1, <3>3, OpenedStep
    <3> QED
      BY <2>7, <3>1, <3>2, <3>3 DEF Opener
  <2> QED
    BY <1>1, <2>4, <2>5, <2>6, <2>7 DEF Next
<1>2. CASE UNCHANGED vars
  <2>1. UNCHANGED <<connected, managed, count, queue, worker, round, stopping, shifted>>
    BY <1>2 DEF vars, controller
  <2>2. UNCHANGED <<inUse, at, warm, leaked, overran>>
    BY <1>2 DEF vars
  <2>3. ActorType' /\ OwnPlaces' /\ OneOwner'
    BY <2>2, AllStay DEF TypeOK, IInv
  <2>4. Started' /\ OpenedUnmanaged'
    BY <2>1, <2>2 DEF IInv, Started, OpenedUnmanaged, Entries
  <2>5. ControllerType'
    BY <2>1 DEF TypeOK, ControllerType
  <2>6. ControllerInv'
    <3> SUFFICES ASSUME ~shifted PROVE Controlled'
      BY <2>1 DEF ControllerInv
    <3> QED
      BY <2>1, ReportKeeps DEF TypeOK, IInv, ControllerInv, controller
  <2> QED
    BY <2>3, <2>4, <2>5, <2>6 DEF TypeOK, IInv
<1> QED
  BY <1>1, <1>2

\* The type invariant holds in every reachable state, of any pool of connections.
THEOREM TypeCorrect == Spec => []TypeOK
BY InitInv, NextInv, PTL DEF Spec

\* The inductive invariant holds throughout.
LEMMA Invariance == Spec => [](TypeOK /\ IInv)
BY InitInv, NextInv, PTL DEF Spec

-------------------------------------------------------------------------------
(* What follows from it *)

\* At most one of the threads that go by inUse has a connection, however many there are,
\* and inUse is set for nobody.
THEOREM OneUser == Spec => []ExclusiveUse
<1>1. TypeOK /\ IInv => ExclusiveUse
  <2> SUFFICES ASSUME TypeOK, IInv, ~overran, NEW c \in Conns
               PROVE  /\ Cardinality(Users(c)) <= 1
                      /\ inUse[c] <=> (Users(c) # {} \/ c \in leaked)
    BY DEF ExclusiveUse
  <2>1. /\ \A a, b \in Actors : Has(a, c) /\ Has(b, c) => a = b
        /\ WarmHas(c) => \A a \in Actors : ~Has(a, c)
        /\ inUse[c] <=> (c \in leaked \/ WarmHas(c) \/ \E a \in Actors : Has(a, c))
    BY DEF IInv, OneOwner
  <2>2. Users(c) = {a \in Actors : Has(a, c)} \cup (IF WarmHas(c) THEN {"warm-up"} ELSE {})
    BY DEF Users, Has, WarmHas, Conn
  <2>3. Users(c) = {} \/ \E u : Users(c) = {u}
    <3>1. CASE WarmHas(c)
      <4>1. Users(c) = {"warm-up"}
        BY <2>1, <2>2, <3>1
      <4> QED
        BY <4>1
    <3>2. ASSUME NEW a \in Actors, Has(a, c) PROVE \E u : Users(c) = {u}
      <4>1. Users(c) = {a}
        BY <2>1, <2>2, <3>2
      <4> QED
        BY <4>1
    <3>3. CASE ~WarmHas(c) /\ \A a \in Actors : ~Has(a, c)
      BY <2>2, <3>3
    <3> QED
      BY <3>1, <3>2, <3>3
  <2>4. Cardinality(Users(c)) \in {0, 1}
    BY <2>3, FS_EmptySet, FS_Singleton
  <2>5. Users(c) # {} <=> WarmHas(c) \/ \E a \in Actors : Has(a, c)
    BY <2>2
  <2> QED
    BY <2>1, <2>4, <2>5
<1> QED
  BY <1>1, Invariance, PTL

\* connectedCount_ is the number of managed connections that are up.
THEOREM CountIsExact == Spec => []CountExact
<1>1. TypeOK /\ IInv => CountExact
  <2> SUFFICES ASSUME TypeOK, IInv, ~shifted
               PROVE  count = Cardinality({i \in DOMAIN managed : IsUp(i)})
    BY DEF CountExact
  <2> DEFINE up == {i \in DOMAIN managed : IsUp(i)}
             f == [i \in up |-> managed[i].conn]
  <2>1. Controlled /\ ControllerType
    BY DEF TypeOK, IInv, ControllerInv
  <2>2. \A i \in DOMAIN managed : managed[i].conn \in Conns
    BY <2>1, Elements
  <2>3. \A i \in up : f[i] = managed[i].conn /\ f[i] \in UpConns
    BY <2>2 DEF UpConns, Man, IsUp
  <2>4. \A e \in UpConns : \E i \in up : f[i] = e
    BY DEF UpConns, Man, IsUp
  <2>5. \A i, j \in up : f[i] = f[j] => i = j
    BY <2>1 DEF Controlled, Consistent
  <2>6. f \in [up -> UpConns]
    BY <2>3
  <2>7. f \in Bijection(up, UpConns)
    <3> HIDE DEF up, f
    <3> QED
      BY <2>4, <2>5, <2>6 DEF Bijection, Injection, Surjection, IsInjective
  <2>8. IsFiniteSet(up)
    <3>1. up \subseteq 1..Len(managed) /\ Len(managed) \in Nat
      BY <2>1 DEF ControllerType
    <3> QED
      BY <3>1, UpTo, FS_Subset
  <2>9. Cardinality(UpConns) = Cardinality(up)
    <3> HIDE DEF up, f
    <3>1. ExistsBijection(up, UpConns)
      BY <2>7 DEF ExistsBijection
    <3> QED
      BY <2>8, <3>1, FS_Bijection
  <2> QED
    BY <2>1, <2>9 DEF Controlled, Consistent
<1> QED
  BY <1>1, Invariance, PTL

LEMMA FewOrNone ==
    ASSUME NEW T, NEW p \in BOOLEAN, p <=> T # {}, \A x, y \in T : x = y
    PROVE  Cardinality(T) = IF p THEN 1 ELSE 0
<1>1. CASE T = {}
  BY <1>1, FS_EmptySet
<1>2. ASSUME NEW x \in T PROVE Cardinality(T) = 1
  <2>1. T = {x}
    OBVIOUS
  <2> QED
    BY <2>1, FS_Singleton
<1> QED
  BY <1>1, <1>2

\* A managed connection that is marked has exactly one reconnect under way, in the
\* queue, with a worker or in run(), and one that is not marked has none.
THEOREM ReconnectInOneHand == Spec => []PendingIsServed
<1>1. TypeOK /\ IInv => PendingIsServed
  <2> SUFFICES ASSUME TypeOK, IInv, ~shifted, NEW i \in DOMAIN managed
               PROVE  Hands(managed[i].conn) = IF managed[i].pending THEN 1 ELSE 0
    BY DEF PendingIsServed
  <2> DEFINE c == managed[i].conn
             queued == {j \in DOMAIN queue : queue[j].conn = c}
             held == {w \in Workers : worker[w].work # None /\ worker[w].work.conn = c /\ worker[w].work.live}
             noted == round.recs \cap Entries(c)
  <2>1. Controlled /\ ControllerType
    BY DEF TypeOK, IInv, ControllerInv
  <2>2. c \in Conns /\ managed[i].pending \in BOOLEAN
    BY <2>1, Elements
  <2>3. managed[i].pending <=> Pend(c)
    BY <2>1 DEF Pend, Controlled, Consistent
  <2>4. Cardinality(queued) = IF InQueue(c) THEN 1 ELSE 0
    <3>1. \A x, y \in queued : x = y
      BY <2>1 DEF Controlled, OneHand
    <3>2. (InQueue(c) <=> queued # {}) /\ InQueue(c) \in BOOLEAN
      BY DEF InQueue
    <3> HIDE DEF queued
    <3> QED
      BY <3>1, <3>2, FewOrNone
  <2>5. Cardinality(held) = IF AtWorker(c) THEN 1 ELSE 0
    <3>1. \A x, y \in held : x = y
      BY <2>1, <2>2 DEF Controlled, OneHand, HasWork
    <3>2. (AtWorker(c) <=> held # {}) /\ AtWorker(c) \in BOOLEAN
      BY DEF AtWorker, HasWork
    <3> HIDE DEF held
    <3> QED
      BY <3>1, <3>2, FewOrNone
  <2>6. Cardinality(noted) = IF InRound(c) THEN 1 ELSE 0
    <3>1. \A x, y \in noted : x = y
      BY <2>1 DEF Controlled, Consistent, Entries
    <3>2. (InRound(c) <=> noted # {}) /\ InRound(c) \in BOOLEAN
      BY DEF InRound, Entries
    <3> HIDE DEF noted
    <3> QED
      BY <3>1, <3>2, FewOrNone
  <2>7. Hands(c) = Cardinality(queued) + Cardinality(held) + Cardinality(noted)
    BY DEF Hands
  <2>8. /\ Pend(c) <=> (InQueue(c) \/ AtWorker(c) \/ InRound(c))
        /\ ~(InQueue(c) /\ AtWorker(c)) /\ ~(InQueue(c) /\ InRound(c)) /\ ~(AtWorker(c) /\ InRound(c))
    BY <2>1, <2>2 DEF Controlled, OneHand, Marked
  <2> HIDE DEF queued, held, noted, c
  <2>9. Hands(c) = IF Pend(c) THEN 1 ELSE 0
    BY <2>4, <2>5, <2>6, <2>7, <2>8
  <2> QED
    BY <2>3, <2>9 DEF c
<1> QED
  BY <1>1, Invariance, PTL
===============================================================================
