------------------------------- MODULE CacheFile -------------------------------
(***************************************************************************)
(* The cache file over several lives of the process: loadCache() at the    *)
(* start, saveCache() in the destructor of CachingResolver, and whatever   *)
(* ends a life in between.  A script starts the program again when it dies.*)
(*                                                                         *)
(* The file is truncated when it is opened and written record by record;   *)
(* a process that dies leaves a prefix, of which the loader ignores a cut  *)
(* record.  A record holds the whole seconds an answer has left; the time  *)
(* the process is down does not count.  The header's count is not below    *)
(* the number of records, so it never stops the loader.                    *)
(*                                                                         *)
(* The loader does not read the body of a record of more than 4096 bytes   *)
(* but does not skip it either: from there on it takes bytes of that       *)
(* message for records.  What comes of it is decided by those bytes: it    *)
(* finds nothing it takes for a message ("lost"), or DnsMessage::parse()   *)
(* throws, which nobody catches ("throws").  An entry made of such bytes   *)
(* is under no name that is asked for, and is not followed.                *)
(*                                                                         *)
(* The resolver is destroyed by whoever drops the last reference: main()   *)
(* when it returns, unless the prewarm thread, which is not joined, has    *)
(* one; then the process ends before, or during, the save.                 *)
(***************************************************************************)
EXTENDS Integers, Sequences, FiniteSets

CONSTANTS
    Keys,         \* cache keys
    Large,        \* those whose answer packs to more than 4096 bytes
    Ttls,         \* TTLs of answers, in seconds
    Second,       \* ticks of the clock in a second
    MaxTime,      \* bound on the clock
    None

ASSUME FileAssumption ==
    /\ IsFiniteSet(Keys) /\ Large \subseteq Keys
    /\ Ttls \subseteq Nat \ {0} /\ Second \in Nat \ {0} /\ MaxTime \in Nat
    /\ None \notin [exp : Nat, due : Nat]

VARIABLES
    now,          \* steady_clock: goes on when the process is down
    proc,         \* "down", "serving", "leaving" (exit() with the prewarm thread alive), "saving"
    cache,        \* cache_: key -> [exp, due] or None
    prewarm,      \* the prewarm thread runs
    file,         \* records in the file
    out,          \* records saveCache() still has to write
    up,           \* history: time served, as far as the file knows
    fileUp,       \* history: up when the file was begun
    left          \* history: key -> ticks left when the save of this file began

vars == <<now, proc, cache, prewarm, file, out, up, fileUp, left>>

Nothing == [k \in Keys |-> None]
Unknown == [k \in Keys |-> 0]

Init ==
    /\ now = 0
    /\ proc = "down"
    /\ cache = Nothing
    /\ prewarm = FALSE
    /\ file = << >> /\ out = << >>
    /\ up = 0 /\ fileUp = 0
    /\ left = Unknown

-------------------------------------------------------------------------------
(* loadCache() *)

Plain(r) == r.body = "plain"

\* The records before the first one the loader stumbles over.
Readable(f) ==
    {i \in DOMAIN f : \A j \in 1..i : Plain(f[j])}

Stumbles(f) == {i \in DOMAIN f : ~Plain(f[i]) /\ \A j \in 1..(i - 1) : Plain(f[j])}
Throws(f)   == \E i \in Stumbles(f) : f[i].body = "throws"

Loaded(f, k) ==
    LET here == {i \in Readable(f) : f[i].key = k}
    IN  IF here = {} THEN None
        ELSE LET r == f[CHOOSE i \in here : TRUE]
             IN  [exp |-> now + r.ttl * Second, due |-> r.due]

\* main() up to its loop.  A start that throws out of main() leaves everything as it
\* is, and so does every one after it: such a file keeps the program down.
Start ==
    /\ proc = "down" /\ ~Throws(file)
    /\ proc' = "serving"
    /\ cache' = [k \in Keys |-> Loaded(file, k)]
    /\ prewarm' = TRUE
    /\ up' = fileUp
    /\ UNCHANGED <<now, file, out, fileUp, left>>

-------------------------------------------------------------------------------
(* A life *)

Tick ==
    /\ now < MaxTime
    /\ now' = now + 1
    /\ up' = IF proc = "serving" THEN up + 1 ELSE up
    /\ UNCHANGED <<proc, cache, prewarm, file, out, fileUp, left>>

\* An answer from upstream.
Store(k, t) ==
    /\ proc = "serving"
    /\ cache' = [cache EXCEPT ![k] = [exp |-> now + t * Second, due |-> up + t * Second]]
    /\ UNCHANGED <<now, proc, prewarm, file, out, up, fileUp, left>>

PrewarmEnds ==
    /\ proc = "serving" /\ prewarm
    /\ prewarm' = FALSE
    /\ UNCHANGED <<now, proc, cache, file, out, up, fileUp, left>>

-------------------------------------------------------------------------------
(* saveCache() *)

Left(k) == IF cache[k] = None THEN 0 ELSE cache[k].exp - now

\* Mutant: what is left is rounded up to whole seconds.
WholeSecondsUp(k) == (Left(k) + Second - 1) \div Second

WholeSeconds(k) == IF Left(k) <= 0 THEN 0 ELSE Left(k) \div Second

Record(k, body) == [key |-> k, ttl |-> WholeSeconds(k), due |-> cache[k].due, body |-> body]

Saved == {k \in Keys : WholeSeconds(k) >= 1}

\* The records of a save, in the order the hash map happens to have.
Records ==
    LET n == Cardinality(Saved)
    IN  {[i \in 1..n |-> Record(order[i], body[order[i]])] :
            order \in {o \in [1..n -> Saved] : \A i, j \in 1..n : o[i] = o[j] => i = j},
            body \in {b \in [Keys -> {"plain", "lost", "throws"}] :
                         \A k \in Keys : b[k] = "plain" <=> k \notin Large}}

\* Opening the file truncates it.
SaveBegins ==
    /\ proc' = "saving"
    /\ file' = << >>
    /\ out' \in Records
    /\ fileUp' = up
    /\ left' = [k \in Keys |-> Left(k)]
    /\ UNCHANGED <<now, cache, up>>

\* main() returns: its references go, and the resolver with them.
Shutdown ==
    /\ proc = "serving" /\ ~prewarm
    /\ SaveBegins
    /\ UNCHANGED prewarm

\* Or they do not: the prewarm thread has one more.
ShutdownEarly ==
    /\ proc = "serving" /\ prewarm
    /\ proc' = "leaving"
    /\ UNCHANGED <<now, cache, prewarm, file, out, up, fileUp, left>>

PrewarmSaves ==
    /\ proc = "leaving"
    /\ prewarm' = FALSE
    /\ SaveBegins

\* Mutant: the last record is not written.
SaveRecordButLast ==
    /\ proc = "saving" /\ out # << >>
    /\ file' = IF Len(out) = 1 THEN file ELSE Append(file, Head(out))
    /\ out' = Tail(out)
    /\ UNCHANGED <<now, proc, cache, prewarm, up, fileUp, left>>

SaveRecord ==
    /\ proc = "saving" /\ out # << >>
    /\ file' = Append(file, Head(out))
    /\ out' = Tail(out)
    /\ UNCHANGED <<now, proc, cache, prewarm, up, fileUp, left>>

SaveEnds ==
    /\ proc = "saving" /\ out = << >>
    /\ proc' = "down"
    /\ cache' = Nothing
    /\ UNCHANGED <<now, prewarm, file, out, up, fileUp, left>>

\* A crash or SIGKILL at any moment, or exit() ending the process under the
\* prewarm thread: the file stays as it is.
Killed ==
    /\ proc # "down"
    /\ proc' = "down"
    /\ cache' = Nothing
    /\ prewarm' = FALSE
    /\ out' = << >>
    /\ left' = IF proc = "saving" THEN Unknown ELSE left
    /\ UNCHANGED <<now, file, up, fileUp>>

-------------------------------------------------------------------------------
Next ==
    \/ Start \/ Tick \/ PrewarmEnds
    \/ \E k \in Keys, t \in Ttls : Store(k, t)
    \/ Shutdown \/ ShutdownEarly \/ PrewarmSaves
    \/ SaveRecord \/ SaveEnds \/ Killed

Spec == Init /\ [][Next]_vars

-------------------------------------------------------------------------------
(* Properties *)

TypeOK ==
    /\ now \in 0..MaxTime
    /\ proc \in {"down", "serving", "leaving", "saving"}
    /\ cache \in [Keys -> [exp : Nat, due : Nat] \cup {None}]
    /\ prewarm \in BOOLEAN
    /\ {file, out} \subseteq Seq([key : Keys, ttl : Nat \ {0}, due : Nat,
                                body : {"plain", "lost", "throws"}])
    /\ up \in 0..now /\ fileUp \in 0..now
    /\ left \in [Keys -> Int]

\* However often the process is restarted, killed or cut off while it saves, no
\* answer is served as fresh for longer than its TTL, in time the process served
\* it (a life that ended without a save is one the file knows nothing of, and
\* does not count).  Rounding is always down, so it cannot add up.
NoProlonging ==
    proc = "serving" => \A k \in Keys : cache[k] # None => cache[k].exp - now <= cache[k].due - up

\* The answer of k is in the file, and an oversized one is there before it or is it.
Behind(k) ==
    \E i \in DOMAIN file : file[i].key = k /\ \E j \in 1..i : file[j].key \in Large

\* No save and no load loses, swaps or revives a record: a start that follows a save
\* which was not cut short has every answer that had a second left when that save
\* began, with what it had left then, less what rounding takes; lives that were
\* killed in between change nothing.  The one exception is what the loader's
\* treatment of an oversized record costs: that record and the ones behind it, and
\* nothing in front of it.
KeptAcrossRestart ==
    [][(proc = "down" /\ proc' = "serving")
         => \A k \in Keys :
              left[k] >= Second /\ ~Behind(k)
                 => /\ cache'[k] # None
                    /\ left[k] - (cache'[k].exp - now) \in 0..(Second - 1)]_vars
===============================================================================
