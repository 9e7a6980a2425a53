----------------------------- MODULE RateLimiter -----------------------------
(***************************************************************************)
(* RateLimiter::allow() of dns_server.cpp, called by every UDP receiver    *)
(* thread before it looks at a datagram.  A client has one entry: the      *)
(* start of its window and a count.  The clock is read before the shard's  *)
(* mutex is taken, so a thread may come to the entry with a reading that   *)
(* is older than the window it finds there.  Clients do not share entries  *)
(* (the shards only split the mutex), and the loopback addresses return    *)
(* before any entry is touched.                                            *)
(***************************************************************************)
EXTENDS Integers, FiniteSets

CONSTANTS
    Clients,    \* addresses other than loopback
    Threads,    \* the UDP receivers
    Window,     \* ticks of a second
    Limit,      \* 100
    MaxTime,    \* bound on the clock
    MaxAsked,   \* bound on the requests of one client
    None        \* no client

ASSUME RateAssumption ==
    /\ IsFiniteSet(Threads) /\ Threads # {}
    /\ Window \in Nat \ {0}
    /\ Limit \in Nat \ {0}
    /\ MaxTime \in Nat /\ MaxTime > Window
    /\ None \notin Clients

VARIABLES
    now,       \* steady_clock::now()
    entry,     \* clients[ip]: window start and count
    call,      \* per thread: the client and the clock reading of its allow()
    admitted,  \* admitted[c][t]: admitted requests of c with the reading t
    asked      \* asked[c][t]: all of them that allow() has decided

vars == <<now, entry, call, admitted, asked>>

Times == 0..MaxTime
NoCall == [client |-> None, at |-> 0]

\* Requests of a client with a reading from t to u, each a reading and a number.
Requests(log, c, t, u) == UNION {{i} \X (1..log[c][i]) : i \in {j \in Times : t <= j /\ j <= u}}
During(log, c, t, u) == Cardinality(Requests(log, c, t, u))

\* An entry is made with the clock's epoch, long ago: any first request finds
\* its second over.
Init ==
    /\ now = Window + 1
    /\ entry = [c \in Clients |-> [last |-> 0, count |-> 0]]
    /\ call = [t \in Threads |-> NoCall]
    /\ admitted = [c \in Clients |-> [i \in Times |-> 0]]
    /\ asked = [c \in Clients |-> [i \in Times |-> 0]]

Asked(c) == During(asked, c, 0, MaxTime) + Cardinality({t \in Threads : call[t].client = c})

\* allow() reads the clock ...
ReadClock(t, c) ==
    /\ call[t] = NoCall
    /\ Asked(c) < MaxAsked
    /\ call' = [call EXCEPT ![t] = [client |-> c, at |-> now]]
    /\ UNCHANGED <<now, entry, admitted, asked>>

\* Mutant: the window moves on, the count stays.
ResetWindowOnly(e, at) == IF at - e.last > Window THEN [e EXCEPT !.last = at] ELSE e

\* The entry the counting finds: a second after its start the window begins anew.
Reset(e, at) == IF at - e.last > Window THEN [last |-> at, count |-> 0] ELSE e

\* Mutant: the count is compared before it is incremented.
AllowOneMore(t) ==
    LET c  == call[t].client
        at == call[t].at
        e  == Reset(entry[c], at)
    IN
    /\ call[t] # NoCall
    /\ entry' = [entry EXCEPT ![c] = [e EXCEPT !.count = @ + 1]]
    /\ asked' = [asked EXCEPT ![c][at] = @ + 1]
    /\ admitted' = IF e.count > Limit THEN admitted ELSE [admitted EXCEPT ![c][at] = @ + 1]
    /\ call' = [call EXCEPT ![t] = NoCall]
    /\ UNCHANGED now

\* ... and then, under the mutex, resets the window or not, and counts.
Allow(t) ==
    LET c  == call[t].client
        at == call[t].at
        e  == Reset(entry[c], at)
    IN
    /\ call[t] # NoCall
    /\ entry' = [entry EXCEPT ![c] = [e EXCEPT !.count = @ + 1]]
    /\ asked' = [asked EXCEPT ![c][at] = @ + 1]
    /\ admitted' = IF e.count + 1 > Limit THEN admitted ELSE [admitted EXCEPT ![c][at] = @ + 1]
    /\ call' = [call EXCEPT ![t] = NoCall]
    /\ UNCHANGED now

Tick ==
    /\ now < MaxTime
    /\ now' = now + 1
    /\ UNCHANGED <<entry, call, admitted, asked>>

Next ==
    \/ \E t \in Threads, c \in Clients : ReadClock(t, c)
    \/ \E t \in Threads : Allow(t)
    \/ Tick

Spec == Init /\ [][Next]_vars

-------------------------------------------------------------------------------
(* Properties *)

TypeOK ==
    /\ now \in Times
    /\ entry \in [Clients -> [last : Times, count : Nat]]
    /\ call \in [Threads -> [client : Clients \cup {None}, at : Times]]
    /\ admitted \in [Clients -> [Times -> Nat]]
    /\ asked \in [Clients -> [Times -> Nat]]

\* In no second is a client admitted twice the limit, late threads aside: each
\* thread but one may add a request for which it read the clock in that second
\* and which it counted after a later window had begun.
BurstBounded ==
    \A c \in Clients : \A t \in Times :
        During(admitted, c, t, t + Window) < 2 * Limit + Cardinality(Threads) - 1

\* A client is turned away only if it asked for more than the limit within the
\* second of its window, late threads aside.
RefusedOnlyOverLimit ==
    \A c \in Clients :
        entry[c].count > Limit =>
            During(asked, c, entry[c].last, entry[c].last + Window) + Cardinality(Threads) - 1 > Limit
===============================================================================
