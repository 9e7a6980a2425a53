---------------------------- MODULE CacheFileProofs ----------------------------
(***************************************************************************)
(* What the cache file does to the life of an answer, for every set of     *)
(* keys, every TTL and every tick of the clock, and over any number of     *)
(* restarts, kills and cut saves; then the threads of the resolver up to   *)
(* the save (module ResolverLifecycle), for every set of keys, every       *)
(* number of periodic threads and every length of the queue.               *)
(***************************************************************************)
EXTENDS CacheFile, ResolverLifecycle, TLAPS, FiniteSetTheorems

RecordType == [key : Keys, ttl : Nat \ {0}, due : Nat, body : {"plain", "lost", "throws"}]

LEMMA FileType ==
    ASSUME TypeOK
    PROVE  /\ file \in Seq(RecordType) /\ out \in Seq(RecordType)
           /\ \A i \in DOMAIN file : file[i] \in RecordType
           /\ \A i \in DOMAIN out : out[i] \in RecordType
<1>1. file \in Seq(RecordType) /\ out \in Seq(RecordType)
  BY DEF TypeOK, RecordType
<1> QED
  BY <1>1

\* What is left is rounded down, by less than a second.
LEMMA RoundedDown ==
    ASSUME NEW n \in Nat
    PROVE  /\ n \div Second \in Nat
           /\ n - (n \div Second) * Second \in 0..(Second - 1)
           /\ n >= Second => n \div Second >= 1
BY FileAssumption

LEMMA SavedSeconds ==
    ASSUME TypeOK, NEW k \in Keys
    PROVE  /\ Left(k) \in Int /\ WholeSeconds(k) \in Nat
           /\ Left(k) >= Second => WholeSeconds(k) = Left(k) \div Second /\ k \in Saved
           /\ k \in Saved => /\ cache[k] # None /\ cache[k] \in [exp : Nat, due : Nat]
                             /\ Left(k) = cache[k].exp - now
                             /\ WholeSeconds(k) * Second <= Left(k)
<1>1. cache[k] # None => cache[k] \in [exp : Nat, due : Nat] /\ cache[k].exp \in Nat
  BY DEF TypeOK
<1>2. Left(k) \in Int
  BY <1>1 DEF TypeOK, Left
<1>3. Second \in Nat /\ Second >= 1
  BY FileAssumption
<1>4. CASE Left(k) <= 0
  <2>1. WholeSeconds(k) = 0 /\ ~(Left(k) >= Second)
    BY <1>2, <1>3, <1>4 DEF WholeSeconds
  <2> QED
    BY <1>2, <2>1 DEF Saved
<1>5. CASE Left(k) > 0
  <2>1. /\ WholeSeconds(k) = Left(k) \div Second
        /\ WholeSeconds(k) \in Nat
        /\ Left(k) - WholeSeconds(k) * Second \in 0..(Second - 1)
        /\ Left(k) >= Second => WholeSeconds(k) >= 1
    BY <1>2, <1>5, RoundedDown DEF WholeSeconds
  <2>2. WholeSeconds(k) * Second \in Int
    BY <2>1, <1>3
  <2>3. cache[k] # None /\ Left(k) = cache[k].exp - now
    BY <1>5 DEF Left
  <2> QED
    BY <1>1, <1>2, <2>1, <2>2, <2>3 DEF Saved
<1> QED
  BY <1>2, <1>4, <1>5

\* The records of a save: one for each answer with a second left, and no other.
LEMMA RecordsExact ==
    ASSUME TypeOK, NEW s \in Records
    PROVE  /\ s \in Seq(RecordType)
           /\ \A i \in DOMAIN s : /\ s[i].key \in Saved
                                  /\ s[i].ttl = WholeSeconds(s[i].key)
                                  /\ s[i].due = cache[s[i].key].due
                                  /\ s[i].key \notin Large => Plain(s[i])
           /\ \A k \in Saved : \E i \in DOMAIN s : s[i].key = k
<1> DEFINE n == Cardinality(Saved)
<1>1. IsFiniteSet(Saved) /\ n \in Nat
  <2>1. Saved \in SUBSET Keys
    BY DEF Saved
  <2> QED
    BY <2>1, FileAssumption, FS_Subset, FS_CardinalityType
<1>2. PICK order \in [1..n -> Saved], body \in [Keys -> {"plain", "lost", "throws"}] :
          /\ \A i, j \in 1..n : order[i] = order[j] => i = j
          /\ s = [i \in 1..n |-> Record(order[i], body[order[i]])]
          /\ \A k \in Keys : body[k] = "plain" <=> k \notin Large
  BY DEF Records
<1>3. \A k \in Saved : \E i \in 1..n : order[i] = k
  <2>1. order \in Injection(1..n, Saved)
    BY <1>2 DEF Injection, IsInjective
  <2>2. Cardinality(1..n) = n
    BY <1>1, FS_Interval
  <2>3. order \in Surjection(1..n, Saved)
    BY <1>1, <2>1, <2>2, FS_Injection
  <2> QED
    BY <2>3 DEF Surjection
<1>4. ASSUME NEW i \in 1..n
      PROVE  /\ s[i] = Record(order[i], body[order[i]])
             /\ s[i] \in RecordType
             /\ s[i].key = order[i] /\ s[i].key \in Saved
             /\ s[i].ttl = WholeSeconds(s[i].key)
             /\ s[i].due = cache[s[i].key].due
             /\ s[i].key \notin Large => Plain(s[i])
  <2>1. s[i] = Record(order[i], body[order[i]]) /\ order[i] \in Saved
    BY <1>2
  <2>2. order[i] \in Keys /\ WholeSeconds(order[i]) >= 1
    BY <2>1 DEF Saved
  <2>3. WholeSeconds(order[i]) \in Nat \ {0} /\ cache[order[i]].due \in Nat
    BY <2>1, <2>2, SavedSeconds
  <2> QED
    BY <1>2, <2>1, <2>2, <2>3 DEF Record, RecordType, Plain
<1>5. DOMAIN s = 1..n /\ s \in Seq(RecordType)
  BY <1>1, <1>2, <1>4
<1> HIDE DEF n
<1> QED
  BY <1>3, <1>4, <1>5

\* What the loader takes from a file it can read in full.
LEMMA LoadedFromFile ==
    ASSUME TypeOK, NEW k \in Keys
    PROVE  \/ /\ Loaded(file, k) = None
              /\ \A i \in Readable(file) : file[i].key # k
           \/ \E i \in Readable(file) :
                 /\ file[i].key = k
                 /\ Loaded(file, k) = [exp |-> now + file[i].ttl * Second, due |-> file[i].due]
BY DEF Loaded

\* A start keeps the type of the cache.
LEMMA LoadedType ==
    ASSUME TypeOK, NEW k \in Keys
    PROVE  Loaded(file, k) \in [exp : Nat, due : Nat] \cup {None}
<1>1. ASSUME NEW i \in Readable(file)
      PROVE  [exp |-> now + file[i].ttl * Second, due |-> file[i].due] \in [exp : Nat, due : Nat]
  <2>1. i \in DOMAIN file /\ file[i] \in RecordType
    BY FileType DEF Readable
  <2>2. file[i].ttl \in Nat /\ file[i].due \in Nat /\ Second \in Nat /\ now \in Nat
    BY <2>1, FileAssumption DEF RecordType, TypeOK
  <2>3. file[i].ttl * Second \in Nat
    BY <2>2
  <2> QED
    BY <2>2, <2>3
<1> QED
  BY <1>1, LoadedFromFile

-------------------------------------------------------------------------------
LEMMA TypeInit == Init => TypeOK
<1> SUFFICES ASSUME Init PROVE TypeOK
  OBVIOUS
<1>1. cache \in [Keys -> [exp : Nat, due : Nat] \cup {None}] /\ left \in [Keys -> Int]
  BY DEF Init, Nothing, Unknown
<1>2. now = 0 /\ now \in 0..MaxTime /\ up \in 0..now /\ fileUp \in 0..now
  BY FileAssumption DEF Init
<1>3. {file, out} \subseteq Seq(RecordType)
  BY DEF Init
<1> QED
  BY <1>1, <1>2, <1>3 DEF Init, TypeOK, RecordType

LEMMA SaveType ==
    ASSUME TypeOK, SaveBegins, prewarm' \in BOOLEAN
    PROVE  TypeOK'
<1>1. out' \in Seq(RecordType) /\ file' \in Seq(RecordType)
  BY RecordsExact DEF SaveBegins
<1>2. left' \in [Keys -> Int]
  BY SavedSeconds DEF SaveBegins
<1> QED
  BY <1>1, <1>2 DEF SaveBegins, TypeOK, RecordType

LEMMA TypeStep == TypeOK /\ [Next]_vars => TypeOK'
<1> SUFFICES ASSUME TypeOK, [Next]_vars PROVE TypeOK'
  OBVIOUS
<1>1. CASE Start
  <2>1. cache' \in [Keys -> [exp : Nat, due : Nat] \cup {None}]
    BY <1>1, LoadedType DEF Start
  <2> QED
    BY <1>1, <2>1 DEF Start, TypeOK
<1>2. CASE Tick
  <2>1. now' \in 0..MaxTime /\ up' \in 0..now' /\ fileUp' \in 0..now'
    BY <1>2, FileAssumption DEF Tick, TypeOK
  <2> QED
    BY <1>2, <2>1 DEF Tick, TypeOK
<1>3. CASE PrewarmEnds
  BY <1>3 DEF PrewarmEnds, TypeOK
<1>4. ASSUME NEW k \in Keys, NEW t \in Ttls, Store(k, t) PROVE TypeOK'
  <2>1. t * Second \in Nat /\ now \in Nat /\ up \in Nat
    BY FileAssumption DEF TypeOK
  <2>2. cache' \in [Keys -> [exp : Nat, due : Nat] \cup {None}]
    BY <1>4, <2>1 DEF Store, TypeOK
  <2> QED
    BY <1>4, <2>2 DEF Store, TypeOK
<1>5. CASE Shutdown
  BY <1>5, SaveType DEF Shutdown, TypeOK
<1>6. CASE ShutdownEarly
  BY <1>6 DEF ShutdownEarly, TypeOK
<1>7. CASE PrewarmSaves
  BY <1>7, SaveType DEF PrewarmSaves
<1>8. CASE SaveRecord
  <2>1. file \in Seq(RecordType) /\ out \in Seq(RecordType) /\ out # << >>
    BY <1>8 DEF SaveRecord, TypeOK, RecordType
  <2>2. file' \in Seq(RecordType) /\ out' \in Seq(RecordType)
    BY <1>8, <2>1 DEF SaveRecord
  <2> QED
    BY <1>8, <2>2 DEF SaveRecord, TypeOK, RecordType
<1>9. CASE SaveEnds
  BY <1>9 DEF SaveEnds, TypeOK, Nothing
<1>10. CASE Killed
  <2>1. out' \in Seq(RecordType) /\ left' \in [Keys -> Int]
    BY <1>10 DEF Killed, TypeOK, Unknown
  <2> QED
    BY <1>10, <2>1 DEF Killed, TypeOK, Nothing, RecordType
<1>11. CASE UNCHANGED vars
  BY <1>11 DEF vars, TypeOK
<1> QED
  BY <1>1, <1>2, <1>3, <1>4, <1>5, <1>6, <1>7, <1>8, <1>9, <1>10, <1>11 DEF Next

\* Type correctness: in particular no record in the file or on its way to it has
\* nothing left, and the time served never gets ahead of the clock.
THEOREM TypeCorrect == Spec => []TypeOK
BY TypeInit, TypeStep, PTL DEF Spec

-------------------------------------------------------------------------------
(* No answer is prolonged.  While the process leaves, the clock goes on and    *)
(* the time served does not; a record promises no more than was due when the   *)
(* file was begun, and the loader starts from there.                           *)

InTime(e) == e.exp - now <= e.due - up
Honest(r) == r.ttl * Second <= r.due - fileUp

AnswersInTime == proc \in {"serving", "leaving"} => \A k \in Keys : cache[k] # None => InTime(cache[k])
FileHonest ==
    /\ \A i \in DOMAIN file : Honest(file[i])
    /\ \A i \in DOMAIN out : Honest(out[i])

LEMMA HonestSave ==
    ASSUME TypeOK, AnswersInTime, proc \in {"serving", "leaving"}, SaveBegins
    PROVE  AnswersInTime' /\ FileHonest'
<1>1. out' \in Records /\ file' = << >> /\ fileUp' = up /\ proc' = "saving"
  BY DEF SaveBegins
<1>2. ASSUME NEW i \in DOMAIN out' PROVE Honest(out[i])'
  <2> DEFINE k == out'[i].key
  <2>1. k \in Saved /\ out'[i].ttl = WholeSeconds(k) /\ out'[i].due = cache[k].due
    BY <1>1, <1>2, RecordsExact
  <2>2. k \in Keys
    BY <2>1 DEF Saved
  <2>3. /\ cache[k] # None /\ cache[k] \in [exp : Nat, due : Nat]
        /\ Left(k) = cache[k].exp - now /\ WholeSeconds(k) * Second <= Left(k)
        /\ WholeSeconds(k) \in Nat
    BY <2>1, <2>2, SavedSeconds
  <2>4. cache[k].exp - now <= cache[k].due - up
    BY <2>2, <2>3 DEF AnswersInTime, InTime
  <2> HIDE DEF k
  <2>5. /\ WholeSeconds(k) * Second \in Int /\ Left(k) \in Int /\ cache[k].exp \in Int
        /\ cache[k].due \in Int /\ up \in Int /\ now \in Int
    <3>1. WholeSeconds(k) * Second \in Int
      BY <2>3, FileAssumption
    <3>2. up \in Int /\ now \in Int
      BY DEF TypeOK
    <3> QED
      BY <2>3, <3>1, <3>2
  <2>6. WholeSeconds(k) * Second <= cache[k].due - up
    BY <2>3, <2>4, <2>5
  <2> QED
    BY <1>1, <2>1, <2>6 DEF Honest, k
<1> QED
  BY <1>1, <1>2 DEF AnswersInTime, FileHonest

LEMMA HonestStep ==
    ASSUME TypeOK, AnswersInTime, FileHonest, [Next]_vars
    PROVE  AnswersInTime' /\ FileHonest'
<1> USE DEF AnswersInTime, FileHonest, InTime, Honest
<1>1. CASE Start
  <2>1. FileHonest'
    BY <1>1 DEF Start
  <2>2. ASSUME NEW k \in Keys, cache'[k] # None PROVE InTime(cache[k])'
    <3>1. PICK i \in Readable(file) :
             cache'[k] = [exp |-> now + file[i].ttl * Second, due |-> file[i].due]
      BY <1>1, <2>2, LoadedFromFile DEF Start
    <3>2. i \in DOMAIN file /\ file[i].ttl * Second <= file[i].due - fileUp
      BY <3>1 DEF Readable
    <3>3. file[i].ttl * Second \in Int /\ now \in Int
      <4>1. file[i] \in RecordType
        BY <3>2, FileType
      <4> QED
        BY <4>1, FileAssumption DEF TypeOK, RecordType
    <3> QED
      BY <1>1, <3>1, <3>2, <3>3 DEF Start
  <2> QED
    BY <2>1, <2>2
<1>2. CASE Tick
  <2>1. FileHonest'
    BY <1>2 DEF Tick
  <2>2. ASSUME proc' \in {"serving", "leaving"}, NEW k \in Keys, cache'[k] # None
        PROVE  InTime(cache[k])'
    <3>1. proc \in {"serving", "leaving"} /\ cache'[k] = cache[k] /\ cache[k] # None
      BY <1>2, <2>2 DEF Tick
    <3>2. cache[k] \in [exp : Nat, due : Nat]
      BY <3>1 DEF TypeOK
    <3>3. now' = now + 1 /\ up' \in {up, up + 1} /\ now \in Int /\ up \in Int
      BY <1>2 DEF Tick, TypeOK
    <3> QED
      BY <3>1, <3>2, <3>3
  <2> QED
    BY <2>1, <2>2
<1>3. CASE PrewarmEnds \/ ShutdownEarly
  BY <1>3 DEF PrewarmEnds, ShutdownEarly
<1>4. ASSUME NEW k \in Keys, NEW t \in Ttls, Store(k, t)
      PROVE  AnswersInTime' /\ FileHonest'
  <2>1. t * Second \in Int /\ now \in Int /\ up \in Int
    BY FileAssumption DEF TypeOK
  <2> QED
    BY <1>4, <2>1 DEF Store, TypeOK
<1>5. CASE Shutdown
  BY <1>5, HonestSave DEF Shutdown
<1>6. CASE PrewarmSaves
  BY <1>6, HonestSave DEF PrewarmSaves
<1>7. CASE SaveRecord
  <2>1. /\ file \in Seq(RecordType) /\ out \in Seq(RecordType) /\ out # << >>
        /\ file' = Append(file, Head(out)) /\ out' = Tail(out) /\ fileUp' = fileUp
        /\ proc' = "saving"
    BY <1>7 DEF SaveRecord, TypeOK, RecordType
  <2>2. 1 \in DOMAIN out /\ Head(out) = out[1]
    BY <2>1
  <2>3. \A i \in DOMAIN out' : i + 1 \in DOMAIN out /\ out'[i] = out[i + 1]
    BY <2>1
  <2>4. \A i \in DOMAIN file' : (i \in DOMAIN file /\ file'[i] = file[i]) \/ file'[i] = out[1]
    BY <2>1, <2>2
  <2> QED
    BY <2>1, <2>2, <2>3, <2>4
<1>8. CASE SaveEnds
  BY <1>8 DEF SaveEnds
<1>9. CASE Killed
  BY <1>9 DEF Killed
<1>10. CASE UNCHANGED vars
  BY <1>10 DEF vars
<1> QED
  BY <1>1, <1>2, <1>3, <1>4, <1>5, <1>6, <1>7, <1>8, <1>9, <1>10 DEF Next

\* No answer is served as fresh for longer than its TTL in served time, whatever the
\* restarts in between: truncation to whole seconds at each save cannot add up.
THEOREM NeverProlonged == Spec => []NoProlonging
<1>1. Init => AnswersInTime /\ FileHonest
  BY DEF Init, AnswersInTime, FileHonest
<1>2. TypeOK /\ (AnswersInTime /\ FileHonest) /\ [Next]_vars => (AnswersInTime /\ FileHonest)'
  BY HonestStep
<1>3. AnswersInTime /\ FileHonest => NoProlonging
  BY DEF AnswersInTime, NoProlonging, InTime
<1> QED
  BY <1>1, <1>2, <1>3, TypeCorrect, PTL DEF Spec

-------------------------------------------------------------------------------
(* What is saved is kept. *)

\* The file with what is still to be written has every answer that had a second left
\* when it was begun, and with what it had left then; only oversized records are ones
\* the loader stumbles over.
Exact(r) ==
    /\ left[r.key] >= Second => r.ttl = left[r.key] \div Second
    /\ r.key \notin Large => Plain(r)

FileComplete ==
    /\ \A i \in DOMAIN file : Exact(file[i])
    /\ \A i \in DOMAIN out : Exact(out[i])
    /\ \A k \in Keys : left[k] >= Second =>
          (\E i \in DOMAIN file : file[i].key = k) \/ (\E i \in DOMAIN out : out[i].key = k)
    /\ proc # "saving" => out = << >>

LEMMA CompleteSave ==
    ASSUME TypeOK, SaveBegins
    PROVE  FileComplete'
<1>1. /\ out' \in Records /\ file' = << >> /\ proc' = "saving"
      /\ left' = [k \in Keys |-> Left(k)]
  BY DEF SaveBegins
<1>2. ASSUME NEW i \in DOMAIN out' PROVE Exact(out[i])'
  <2>1. out'[i].key \in Saved /\ out'[i].ttl = WholeSeconds(out'[i].key)
    BY <1>1, <1>2, RecordsExact
  <2>2. out'[i].key \in Keys
    BY <2>1 DEF Saved
  <2> QED
    BY <1>1, <1>2, <2>1, <2>2, SavedSeconds, RecordsExact DEF Exact
<1>3. ASSUME NEW k \in Keys, left'[k] >= Second PROVE \E i \in DOMAIN out' : out'[i].key = k
  <2>1. k \in Saved
    BY <1>1, <1>3, SavedSeconds
  <2> QED
    BY <1>1, <2>1, RecordsExact
<1> QED
  BY <1>1, <1>2, <1>3 DEF FileComplete

LEMMA CompleteStep ==
    ASSUME TypeOK, FileComplete, [Next]_vars
    PROVE  FileComplete'
<1> USE DEF FileComplete, Exact
<1>1. CASE Start \/ Tick \/ PrewarmEnds \/ ShutdownEarly
  BY <1>1 DEF Start, Tick, PrewarmEnds, ShutdownEarly
<1>2. ASSUME NEW k \in Keys, NEW t \in Ttls, Store(k, t) PROVE FileComplete'
  BY <1>2 DEF Store
<1>3. CASE Shutdown \/ PrewarmSaves
  BY <1>3, CompleteSave DEF Shutdown, PrewarmSaves
<1>4. CASE SaveRecord
  <2>1. /\ file \in Seq(RecordType) /\ out \in Seq(RecordType) /\ out # << >>
        /\ file' = Append(file, Head(out)) /\ out' = Tail(out) /\ left' = left
        /\ proc' = "saving"
    BY <1>4, FileType DEF SaveRecord
  <2>2. 1 \in DOMAIN out /\ Head(out) = out[1]
    BY <2>1
  <2>3. /\ \A i \in DOMAIN out' : i + 1 \in DOMAIN out /\ out'[i] = out[i + 1]
        /\ \A i \in DOMAIN out : i = 1 \/ (i - 1 \in DOMAIN out' /\ out'[i - 1] = out[i])
    BY <2>1
  <2>4. /\ \A i \in DOMAIN file' : (i \in DOMAIN file /\ file'[i] = file[i]) \/ file'[i] = out[1]
        /\ \A i \in DOMAIN file : i \in DOMAIN file' /\ file'[i] = file[i]
        /\ Len(file) + 1 \in DOMAIN file' /\ file'[Len(file) + 1] = out[1]
    BY <2>1, <2>2
  <2>5. (\A i \in DOMAIN file' : Exact(file[i])') /\ (\A i \in DOMAIN out' : Exact(out[i])')
    BY <2>1, <2>2, <2>3, <2>4
  <2>6. ASSUME NEW k \in Keys, left'[k] >= Second
        PROVE  (\E i \in DOMAIN file' : file'[i].key = k) \/ (\E i \in DOMAIN out' : out'[i].key = k)
    <3>1. CASE \E i \in DOMAIN file : file[i].key = k
      BY <2>4, <3>1
    <3>2. CASE \E i \in DOMAIN out : out[i].key = k
      BY <2>3, <2>4, <3>2
    <3> QED
      BY <2>1, <2>6, <3>1, <3>2
  <2> QED
    BY <2>1, <2>5, <2>6
<1>5. CASE SaveEnds
  BY <1>5 DEF SaveEnds
<1>6. CASE Killed
  <2>1. CASE proc = "saving"
    <3>1. \A k \in Keys : ~(left'[k] >= Second)
      BY <1>6, <2>1, FileAssumption DEF Killed, Unknown
    <3>2. file' = file /\ out' = << >>
      BY <1>6 DEF Killed
    <3>3. \A i \in DOMAIN file : file[i].key \in Keys
      BY FileType DEF RecordType
    <3> QED
      BY <1>6, <3>1, <3>2, <3>3 DEF Killed
  <2>2. CASE proc # "saving"
    BY <1>6, <2>2 DEF Killed
  <2> QED
    BY <2>1, <2>2
<1>7. CASE UNCHANGED vars
  BY <1>7 DEF vars
<1> QED
  BY <1>1, <1>2, <1>3, <1>4, <1>5, <1>6, <1>7 DEF Next

LEMMA StartKeeps ==
    ASSUME TypeOK, FileComplete, [Next]_vars,
           proc = "down", proc' = "serving",
           NEW k \in Keys, left[k] >= Second, ~Behind(k)
    PROVE  /\ cache'[k] # None
           /\ left[k] - (cache'[k].exp - now) \in 0..(Second - 1)
<1>1. Start
  BY DEF Next, vars, Tick, PrewarmEnds, Store, Shutdown, ShutdownEarly, PrewarmSaves, SaveBegins,
         SaveRecord, SaveEnds, Killed
<1>2. \E i \in Readable(file) : file[i].key = k
  <2>1. PICK i \in DOMAIN file : file[i].key = k
    BY DEF FileComplete
  <2>2. \A j \in 1..i : j \in DOMAIN file /\ file[j].key \notin Large
    BY <2>1, FileType DEF Behind
  <2>3. i \in Readable(file)
    BY <2>1, <2>2 DEF FileComplete, Exact, Readable
  <2> QED
    BY <2>1, <2>3
<1>3. cache'[k] = Loaded(file, k)
  BY <1>1 DEF Start
<1>4. PICK i \in DOMAIN file :
          /\ file[i].key = k
          /\ cache'[k] = [exp |-> now + file[i].ttl * Second, due |-> file[i].due]
  BY <1>2, <1>3, LoadedFromFile DEF Readable
<1>5. file[i] \in RecordType /\ file[i].ttl = left[k] \div Second
  BY <1>4, FileType DEF FileComplete, Exact
<1>6. file[i].ttl * Second \in Nat /\ now \in Nat /\ file[i].due \in Nat /\ left[k] \in Nat
  <2>1. file[i].ttl \in Nat /\ Second \in Nat /\ now \in Nat /\ file[i].due \in Nat /\ left[k] \in Int
    BY <1>5, FileAssumption DEF RecordType, TypeOK
  <2> QED
    BY <2>1
<1>7. left[k] - file[i].ttl * Second \in 0..(Second - 1)
  BY <1>5, <1>6, RoundedDown
<1>8. cache'[k] \in [exp : Nat, due : Nat] /\ cache'[k].exp - now = file[i].ttl * Second
  BY <1>4, <1>6
<1> QED
  BY <1>7, <1>8, FileAssumption

\* No save and no load loses, swaps or revives a record: see KeptAcrossRestart.
THEOREM KeptByEveryRestart == Spec => KeptAcrossRestart
<1>1. Init => FileComplete
  <2> SUFFICES ASSUME Init PROVE FileComplete
    OBVIOUS
  <2>1. \A k \in Keys : ~(left[k] >= Second)
    BY FileAssumption DEF Init, Unknown
  <2> QED
    BY <2>1 DEF Init, FileComplete
<1>2. TypeOK /\ FileComplete /\ [Next]_vars => FileComplete'
  BY CompleteStep
<1>3. TypeOK /\ FileComplete /\ [Next]_vars =>
        [(proc = "down" /\ proc' = "serving")
           => \A k \in Keys :
                left[k] >= Second /\ ~Behind(k)
                   => /\ cache'[k] # None
                      /\ left[k] - (cache'[k].exp - now) \in 0..(Second - 1)]_vars
  BY StartKeeps
<1> QED
  BY <1>1, <1>2, <1>3, TypeCorrect, PTL DEF Spec, KeptAcrossRestart

-------------------------------------------------------------------------------
(* The threads of the resolver: the worker never sleeps on work, and none      *)
(* outlives the joins.                                                         *)

\* The bound of the queue is kept by the guard of the push.
LEMMA LifeTypeInit == LifeInit => LifeTypeOK
<1> SUFFICES ASSUME LifeInit PROVE LifeTypeOK
  OBVIOUS
<1>1. queue \in Seq(StaleKeys) /\ Len(queue) = 0
  BY DEF LifeInit
<1>2. loop \in [Loops -> {"none", "test", "sleep", "work", "done"}]
  BY DEF LifeInit
<1>3. main = "constructed" /\ running = FALSE /\ worker = "none" /\ warmup = "none"
  BY DEF LifeInit
<1>4. 0 <= MaxQueue
  BY LifecycleAssumption
<1> QED
  BY <1>1, <1>2, <1>3, <1>4, Zenon DEF LifeTypeOK

LEMMA LifeTypeStep == LifeTypeOK /\ [LifeNext]_lifeVars => LifeTypeOK'
<1> SUFFICES ASSUME LifeTypeOK, [LifeNext]_lifeVars PROVE LifeTypeOK'
  OBVIOUS
<1> USE DEF LifeTypeOK
<1>1. CASE InitThreads
  BY <1>1 DEF InitThreads
<1>2. CASE Maintain
  BY <1>2 DEF Maintain
<1>3. CASE Worker
  <2>1. CASE WorkerPop
    <3>1. queue' \in Seq(StaleKeys) /\ Len(queue') = Len(queue) - 1 /\ Len(queue) \in Nat
      BY <2>1 DEF WorkerPop
    <3> QED
      BY <2>1, <3>1, LifecycleAssumption DEF WorkerPop
  <2>2. CASE WorkerTest \/ WorkerDecidesToSleep \/ WorkerSleeps \/ WorkerReturns \/ WorkerRefreshed
    BY <2>2 DEF WorkerTest, WorkerDecidesToSleep, WorkerSleeps, WorkerReturns, WorkerRefreshed
  <2> QED
    BY <1>3, <2>1, <2>2 DEF Worker
<1>4. CASE SpuriousWakeup
  BY <1>4 DEF SpuriousWakeup
<1>5. ASSUME NEW k \in StaleKeys, ServeStale(k) PROVE LifeTypeOK'
  <2>1. queue' \in Seq(StaleKeys) /\ Len(queue') = Len(queue) + 1 /\ Len(queue) \in Nat
    BY <1>5 DEF ServeStale
  <2> QED
    BY <1>5, <2>1, LifecycleAssumption DEF ServeStale, Woken
<1>6. CASE WarmupEnds
  BY <1>6 DEF WarmupEnds
<1>7. ASSUME NEW l \in Loops, Loop(l) PROVE LifeTypeOK'
  BY <1>7 DEF Loop, LoopTest, LoopWakes, LoopWorks
<1>8. CASE DestructorBegins
  BY <1>8 DEF DestructorBegins
<1>9. CASE Destructor
  BY <1>9 DEF Destructor, DestructorNotifies, JoinWorker, JoinOthers, SaveCache, Woken
<1>10. CASE UNCHANGED lifeVars
  BY <1>10 DEF lifeVars
<1> QED
  BY <1>1, <1>2, <1>3, <1>4, <1>5, <1>6, <1>7, <1>8, <1>9, <1>10 DEF LifeNext

\* Type correctness; in particular the queue never outgrows MAX_STALE_REFRESH_QUEUE.
THEOREM LifeTypeCorrect == LifeSpec => []LifeTypeOK
BY LifeTypeInit, LifeTypeStep, PTL DEF LifeSpec

-------------------------------------------------------------------------------
\* NoSleepOnWork is not inductive: the worker goes to sleep without another look at
\* the queue.  What carries it over is the mutex it holds in between.
EmptyWhileFallingAsleep == worker \in {"presleep", "wait"} => queue = << >>

LEMMA SleepStep ==
    ASSUME LifeTypeOK, EmptyWhileFallingAsleep, [LifeNext]_lifeVars
    PROVE  EmptyWhileFallingAsleep'
<1> USE DEF EmptyWhileFallingAsleep
<1>1. CASE InitThreads \/ Maintain \/ SpuriousWakeup \/ WarmupEnds \/ DestructorBegins
  BY <1>1 DEF InitThreads, Maintain, SpuriousWakeup, WarmupEnds, DestructorBegins
<1>2. CASE Worker
  BY <1>2 DEF Worker, WorkerTest, WorkerDecidesToSleep, WorkerSleeps, WorkerReturns, WorkerPop,
              WorkerRefreshed
\* A push is made while the worker does not hold the mutex, and wakes it.
<1>3. ASSUME NEW k \in StaleKeys, ServeStale(k) PROVE EmptyWhileFallingAsleep'
  BY <1>3 DEF ServeStale, Woken
<1>4. ASSUME NEW l \in Loops, Loop(l) PROVE EmptyWhileFallingAsleep'
  BY <1>4 DEF Loop, LoopTest, LoopWakes, LoopWorks
<1>5. CASE Destructor
  BY <1>5 DEF Destructor, DestructorNotifies, JoinWorker, JoinOthers, SaveCache, Woken
<1>6. CASE UNCHANGED lifeVars
  BY <1>6 DEF lifeVars
<1> QED
  BY <1>1, <1>2, <1>3, <1>4, <1>5, <1>6 DEF LifeNext

\* The worker never sleeps on work, however many callers push and whenever they do.
THEOREM WorkerNeverSleepsOnWork == LifeSpec => []NoSleepOnWork
<1>1. LifeInit => EmptyWhileFallingAsleep
  BY DEF LifeInit, EmptyWhileFallingAsleep
<1>2. LifeTypeOK /\ EmptyWhileFallingAsleep /\ [LifeNext]_lifeVars => EmptyWhileFallingAsleep'
  BY SleepStep
<1>3. EmptyWhileFallingAsleep => NoSleepOnWork
  BY DEF EmptyWhileFallingAsleep, NoSleepOnWork
<1> QED
  BY <1>1, <1>2, <1>3, LifeTypeCorrect, PTL DEF LifeSpec

-------------------------------------------------------------------------------
\* What the destructor knows after each of its joins.  A thread that has ended stays
\* ended: threads are only started before the destructor begins.
Joined ==
    /\ main \in {"joiningOthers", "saving", "destroyed"} => worker \in Ended
    /\ main \in {"saving", "destroyed"} =>
          warmup \in Ended /\ \A l \in Loops : loop[l] \in Ended

LEMMA JoinedStep ==
    ASSUME LifeTypeOK, Joined, [LifeNext]_lifeVars
    PROVE  Joined'
<1> USE DEF Joined, Ended
<1>1. CASE InitThreads \/ Maintain \/ SpuriousWakeup \/ WarmupEnds \/ DestructorBegins
  BY <1>1 DEF InitThreads, Maintain, SpuriousWakeup, WarmupEnds, DestructorBegins
<1>2. CASE Worker
  BY <1>2 DEF Worker, WorkerTest, WorkerDecidesToSleep, WorkerSleeps, WorkerReturns, WorkerPop,
              WorkerRefreshed
<1>3. ASSUME NEW k \in StaleKeys, ServeStale(k) PROVE Joined'
  BY <1>3 DEF ServeStale, Woken
<1>4. ASSUME NEW l \in Loops, Loop(l) PROVE Joined'
  BY <1>4 DEF Loop, LoopTest, LoopWakes, LoopWorks, LifeTypeOK
<1>5. CASE Destructor
  BY <1>5 DEF Destructor, DestructorNotifies, JoinWorker, JoinOthers, SaveCache, Woken
<1>6. CASE UNCHANGED lifeVars
  BY <1>6 DEF lifeVars
<1> QED
  BY <1>1, <1>2, <1>3, <1>4, <1>5, <1>6 DEF LifeNext

\* When the cache file is written no thread of the resolver is left, wherever each of
\* them was when the destructor began.
THEOREM NoThreadIsLeftAtSave == LifeSpec => []NoThreadAtSave
<1>1. LifeInit => Joined
  BY DEF LifeInit, Joined
<1>2. LifeTypeOK /\ Joined /\ [LifeNext]_lifeVars => Joined'
  BY JoinedStep
<1>3. Joined => NoThreadAtSave
  BY DEF Joined, NoThreadAtSave
<1> QED
  BY <1>1, <1>2, <1>3, LifeTypeCorrect, PTL DEF LifeSpec
===============================================================================
