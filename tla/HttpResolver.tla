----------------------------- MODULE HttpResolver -----------------------------
(***************************************************************************)
(* The DoH client over one upstream: its pool of connections, the query    *)
(* threads in doPost() and raceUpstreams(), the asynchronous opens of      *)
(* openPoolAsync() and the warm-up, on top of ConnectionController.        *)
(*                                                                         *)
(* A connection belongs to whoever has set its inUse; connections are      *)
(* visited in the order of the pool, 1 to NumConns.  Whether an exchange   *)
(* or an open succeeds is up to the network.  The second pass of warmUp()  *)
(* sets inUse without looking: when somebody has the connection, two       *)
(* threads are in one TLS stream and nothing can be said of what follows,  *)
(* so behaviours are followed up to there (overran).  They are also only   *)
(* followed up to where unmanage() shifts managed_ under run() (shifted):  *)
(* from then on two workers may be in one stream.                          *)
(*                                                                         *)
(* Left out: reload() after a change of proxy, which closes connections    *)
(* under their users, and maintain(), which does nothing with one upstream.*)
(***************************************************************************)
EXTENDS ConnectionController

CONSTANTS
    Queries,      \* threads in query()
    NumConns      \* connections of the pool, once ensurePoolSize() has run

WarmTask == {<<"warm", c>> : c \in Conns}    \* the asyncs of warmUp()
PoolTask == {<<"pool", c>> : c \in Conns}    \* those of openPoolAsync()
Actors   == Queries \cup WarmTask \cup PoolTask

ASSUME HttpAssumption ==
    /\ NumConns \in Nat \ {0} /\ Conns = 1..NumConns
    /\ Queries \cap (WarmTask \cup PoolTask) = {}

VARIABLES
    inUse,        \* inUse[c]
    at,           \* at[a]: where actor a is, and its connection
    warm,         \* the second pass of warmUp(): next connection, and whether it is in an exchange
    leaked,       \* history: connections doPost() took and let nobody have again
    overran       \* history: the warm-up has stepped on somebody's connection

vars == <<controller, inUse, at, warm, leaked, overran>>

Conn(a) == at[a].conn
Go(a, pc, c) == at' = [at EXCEPT ![a] = [pc |-> pc, conn |-> c]]

Init ==
    /\ ControllerInit
    /\ inUse = [c \in Conns |-> FALSE]
    /\ at = [a \in Actors |-> IF a \in WarmTask THEN [pc |-> "start", conn |-> a[2]]
                              ELSE [pc |-> "idle", conn |-> 1]]
    /\ warm = [conn |-> 1, busy |-> FALSE]
    /\ leaked = {} /\ overran = FALSE

-------------------------------------------------------------------------------
(* Taking a connection and giving it back *)

\* Mutant: tested and set in two steps, the second of which is not looked at.
ClaimUnchecked(c) == inUse' = [inUse EXCEPT ![c] = TRUE]

\* inUse.exchange(true) returning false.
Claim(c) == ~inUse[c] /\ inUse' = [inUse EXCEPT ![c] = TRUE]

Release(c) == inUse' = [inUse EXCEPT ![c] = FALSE]

-------------------------------------------------------------------------------
(* query(): raceUpstreams(), then the retry loop of doPost() *)

AfterRace == IF \E c \in Conns : connected[c] THEN "retry" ELSE "sync"

\* With fan-out, a connection from getNextConnection() is raced first, if there is one.
QueryStarts(q, fanOut) ==
    /\ at[q].pc = "idle" /\ stopping = "no"
    /\ \/ \E c \in Conns : fanOut /\ connected[c] /\ Claim(c) /\ Go(q, "race", c)
       \/ /\ fanOut => \A c \in Conns : ~connected[c] \/ inUse[c]
          /\ Go(q, AfterRace, 1)
          /\ UNCHANGED inUse
    /\ UNCHANGED <<controller, warm, leaked, overran>>

\* The race lets the connection go before it reports on it.
RaceEnds(q, ok) ==
    /\ at[q].pc = "race"
    /\ Release(Conn(q))
    /\ Go(q, IF ok THEN "idle" ELSE "report", Conn(q))
    /\ UNCHANGED <<controller, warm, leaked, overran>>

RaceReports(q) ==
    /\ at[q].pc = "report"
    /\ NotifyFailure(Conn(q))
    /\ Go(q, AfterRace', 1)
    /\ UNCHANGED <<inUse, warm, leaked, overran>>

\* getNextConnection() in the retry loop.
TakeNext(q, c) ==
    /\ at[q].pc = "retry"
    /\ connected[c] /\ Claim(c)
    /\ Go(q, "exchange", c)
    /\ UNCHANGED <<controller, warm, leaked, overran>>

\* Six attempts, or 400 ms, are over.
GiveUp(q) ==
    /\ at[q].pc = "retry"
    /\ Go(q, "sync", 1)
    /\ UNCHANGED <<controller, inUse, warm, leaked, overran>>

ExchangeSucceeds(q) ==
    /\ at[q].pc = "exchange"
    /\ Release(Conn(q))
    /\ Go(q, "idle", 1)
    /\ UNCHANGED <<controller, warm, leaked, overran>>

ExchangeFails(q) ==
    /\ at[q].pc = "exchange"
    /\ NotifyFailure(Conn(q))
    /\ Release(Conn(q))
    /\ Go(q, "retry", 1)
    /\ UNCHANGED <<warm, leaked, overran>>

-------------------------------------------------------------------------------
(* doPost()'s last loop: reopen one connection, in this thread.  In "syncMore" one *)
(* has been tried.                                                                 *)

SyncSkips(q) ==
    /\ at[q].pc \in {"sync", "syncMore"} /\ Conn(q) <= NumConns
    /\ connected[Conn(q)] \/ inUse[Conn(q)]
    /\ Go(q, at[q].pc, Conn(q) + 1)
    /\ UNCHANGED <<controller, inUse, warm, leaked, overran>>

SyncTakes(q) ==
    /\ at[q].pc = "sync" /\ Conn(q) <= NumConns
    /\ ~connected[Conn(q)] /\ Claim(Conn(q))
    /\ Go(q, "claimed", Conn(q))
    /\ UNCHANGED <<controller, warm, leaked, overran>>

\* A second one is taken before it is found to be one too many, and kept.
SyncBreaks(q) ==
    /\ at[q].pc = "syncMore" /\ Conn(q) <= NumConns
    /\ ~connected[Conn(q)] /\ Claim(Conn(q))
    /\ leaked' = leaked \cup {Conn(q)}
    /\ Go(q, "idle", 1)
    /\ UNCHANGED <<controller, warm, overran>>

SyncEnds(q) ==
    /\ at[q].pc \in {"sync", "syncMore"} /\ Conn(q) > NumConns
    /\ Go(q, "idle", 1)
    /\ UNCHANGED <<controller, inUse, warm, leaked, overran>>

\* A reply on the reopened connection: openPoolAsync() for the others.
SyncSucceeds(q) ==
    LET free == [inUse EXCEPT ![Conn(q)] = FALSE]
        down == {c \in Conns : ~connected[c] /\ ~free[c]}
    IN
    /\ at[q].pc = "syncExchange"
    /\ inUse' = [c \in Conns |-> free[c] \/ c \in down]
    /\ at' = [a \in Actors |-> IF a = q THEN [pc |-> "idle", conn |-> 1]
                               ELSE IF a \in PoolTask /\ a[2] \in down THEN [pc |-> "claimed", conn |-> a[2]]
                               ELSE at[a]]
    /\ UNCHANGED <<controller, warm, leaked, overran>>

SyncFails(q) ==
    /\ at[q].pc = "syncExchange"
    /\ NotifyFailure(Conn(q))
    /\ Release(Conn(q))
    /\ Go(q, "idle", 1)
    /\ UNCHANGED <<warm, leaked, overran>>

-------------------------------------------------------------------------------
(* Opening a connection one has taken: doPost(), openConnectionAsync(), warmUp() *)

\* A task of the warm-up takes its connection or gives up.
TaskStarts(a) ==
    /\ at[a].pc = "start"
    /\ \/ Claim(Conn(a)) /\ Go(a, "claimed", Conn(a))
       \/ inUse[Conn(a)] /\ UNCHANGED inUse /\ Go(a, "idle", Conn(a))
    /\ UNCHANGED <<controller, warm, leaked, overran>>

CloseOld(a) ==
    /\ at[a].pc = "claimed"
    /\ UnmanageAndClose(Conn(a))
    /\ Go(a, "opening", Conn(a))
    /\ UNCHANGED <<inUse, warm, leaked, overran>>

\* Opened and managed: until then only its owner can see the new stream.
Opened(a) ==
    /\ at[a].pc = "opening"
    /\ Manage(Conn(a))
    /\ \/ a \in Queries /\ Go(a, "syncExchange", Conn(a)) /\ UNCHANGED inUse
       \/ a \notin Queries /\ Go(a, "idle", Conn(a)) /\ Release(Conn(a))
    /\ UNCHANGED <<warm, leaked, overran>>

NotOpened(a) ==
    /\ at[a].pc = "opening"
    /\ Release(Conn(a))
    /\ IF a \in Queries THEN Go(a, "syncMore", Conn(a) + 1) ELSE Go(a, "idle", Conn(a))
    /\ UNCHANGED <<controller, warm, leaked, overran>>

-------------------------------------------------------------------------------
(* warmUp(), once its tasks have ended *)

Warming == warm.conn <= NumConns /\ \A a \in WarmTask : at[a].pc = "idle"

WarmSkips ==
    /\ Warming /\ ~warm.busy /\ ~connected[warm.conn]
    /\ warm' = [warm EXCEPT !.conn = @ + 1]
    /\ UNCHANGED <<controller, inUse, at, leaked, overran>>

WarmTakes ==
    /\ Warming /\ ~warm.busy /\ connected[warm.conn]
    /\ overran' = inUse[warm.conn]
    /\ inUse' = [inUse EXCEPT ![warm.conn] = TRUE]
    /\ warm' = [warm EXCEPT !.busy = TRUE]
    /\ UNCHANGED <<controller, at, leaked>>

WarmExchanged(ok) ==
    /\ Warming /\ warm.busy
    /\ \/ ok /\ UNCHANGED controller
       \/ ~ok /\ NotifyFailure(warm.conn)
    /\ Release(warm.conn)
    /\ warm' = [conn |-> warm.conn + 1, busy |-> FALSE]
    /\ UNCHANGED <<at, leaked, overran>>

\* ~HttpResolver(): no query is under way, but the warm-up and the tasks of
\* openPoolAsync() may be; it stops the controller before it waits for them.
Destroy ==
    /\ \A q \in Queries : at[q].pc = "idle"
    /\ StopCalled
    /\ UNCHANGED <<inUse, at, warm, leaked, overran>>

-------------------------------------------------------------------------------
Query(q) ==
    \/ (\E fanOut \in BOOLEAN : QueryStarts(q, fanOut))
    \/ \E c \in Conns : TakeNext(q, c)
    \/ (\E ok \in BOOLEAN : RaceEnds(q, ok)) \/ RaceReports(q)
    \/ GiveUp(q) \/ ExchangeSucceeds(q) \/ ExchangeFails(q)
    \/ SyncSkips(q) \/ SyncTakes(q) \/ SyncBreaks(q) \/ SyncEnds(q) \/ SyncSucceeds(q) \/ SyncFails(q)

Opener(a) == TaskStarts(a) \/ CloseOld(a) \/ Opened(a) \/ NotOpened(a)

WarmUp == WarmSkips \/ WarmTakes \/ (\E ok \in BOOLEAN : WarmExchanged(ok))

Controller == ControllerStep /\ UNCHANGED <<inUse, at, warm, leaked, overran>>

Next ==
    /\ ~overran /\ ~shifted
    /\ \/ Controller \/ WarmUp \/ Destroy
       \/ \E q \in Queries : Query(q)
       \/ \E a \in Actors : Opener(a)

\* The threads of the controller go on; health checks and opens end by their timeouts.
\* Nothing is asked of the resolver or of when it is destroyed.
Goes == ~overran /\ ~shifted /\ UNCHANGED <<inUse, at, warm, leaked, overran>>

Fairness ==
    /\ WF_vars(Goes /\ RunRound) /\ WF_vars(Goes /\ (StopJoins \/ StopReturns))
    /\ \A w \in Workers : WF_vars(Goes /\ Reconnect(w))

Spec == Init /\ [][Next]_vars /\ Fairness

-------------------------------------------------------------------------------
(* Properties *)

Busy == {"race", "exchange", "claimed", "opening", "syncExchange"}
Users(c) == {a \in Actors : at[a].pc \in Busy /\ Conn(a) = c}
              \cup (IF warm.busy /\ warm.conn = c THEN {"warm-up"} ELSE {})

\* Of the threads that go by inUse, at most one has a connection, and a connection is
\* taken only while somebody has it, or for ever if doPost() has leaked it: up to the
\* moment the warm-up steps on a connection that is in use.
ExclusiveUse ==
    ~overran => \A c \in Conns :
                   /\ Cardinality(Users(c)) <= 1
                   /\ inUse[c] <=> (Users(c) # {} \/ c \in leaked)

\* ~HttpResolver() gets past stop(): the workers run out of work though failing
\* reconnects queue new ones, and though the warm-up and the openers, which stop()
\* does not wait for, go on managing connections and reporting them broken.
StopEnds == (stopping = "join") ~> (stopping = "done" \/ overran \/ shifted)
===============================================================================
