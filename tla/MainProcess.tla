------------------------------ MODULE MainProcess ------------------------------
(***************************************************************************)
(* main() from the start of its loop to its return: signals, reload, the   *)
(* drain, and the order in which the servers are stopped.  It composes     *)
(* DnsServer's threads and its stop() (module ServerStop) with the HTTP    *)
(* front ends (module FrontEnds) and the thread of AutoTuner.              *)
(*                                                                         *)
(* The drain polls the pool's load as PerfMonitor has it, which the        *)
(* server's perf monitor thread writes every two seconds and which counts  *)
(* queued tasks only, not the ones a worker runs.                          *)
(***************************************************************************)
EXTENDS Naturals, Sequences, FiniteSets

CONSTANTS
    UdpThreads, MainSocket, Addresses, MaxQueries, MaxClients,   \* of ServerStop
    Clients, MaxViews, MonitorLocal,                             \* of FrontEnds
    Modes,        \* the servers that the configuration enables, and whether
                  \* somebody looks at the monitor or sends SIGHUP
    Polls,        \* 30: polls of the drain, 100 ms apart
    MaxHups       \* bound on SIGHUPs

ASSUME ProcessAssumption ==
    /\ IsFiniteSet(UdpThreads) /\ MainSocket \notin UdpThreads
    /\ {MaxQueries, MaxClients, MaxViews, Polls, MaxHups} \subseteq Nat
    /\ MonitorLocal \in BOOLEAN
    /\ Addresses \subseteq {"any", "loopback", "other"}
    /\ Modes \subseteq SUBSET {"dns", "https", "viewers", "hups"}

VARIABLES
    addr, stopper, running, kicks, buf, sent, wk, handler, topen, backlog, clients, acc, perf,
    flight, posted, hrun, hopen, hstop, hacc, hreq, late, mrun, mon, mback, views, stream,
    main,         \* where main() is
    on,           \* running, the flag of main.cpp
    draining,     \* draining
    reload,       \* reloadRequested
    hups,         \* SIGHUPs so far
    watch,        \* the thread a signal starts, which clears running after 3 s
    polls,        \* polls of the drain so far
    load,         \* poolPending_ of PerfMonitor
    tuner         \* tuneThread_

Dns   == INSTANCE ServerStop
Front == INSTANCE FrontEnds

dnsVars   == <<addr, stopper, running, kicks, buf, sent, wk, handler, topen, backlog, clients, acc, perf,
               flight, posted>>
frontVars == <<hrun, hopen, hstop, hacc, hreq, late, mrun, mon, mback, views, stream>>
mainVars  == <<main, on, draining, reload, hups, watch, polls, load, tuner>>
processVars == <<dnsVars, frontVars, mainVars>>

ProcessInit ==
    /\ \E mode \in Modes :
          /\ IF "dns" \in mode THEN Dns!Init ELSE Dns!Absent
          /\ IF "https" \in mode THEN Front!HttpsInit ELSE Front!HttpsAbsent
          /\ views = IF "viewers" \in mode THEN 0 ELSE MaxViews
          /\ hups = IF "hups" \in mode THEN 0 ELSE MaxHups
    /\ Front!MonitorInit
    /\ main = "loop"
    /\ on = TRUE /\ draining = FALSE /\ reload = FALSE
    /\ watch = "none" /\ polls = 0 /\ load = 0
    /\ tuner = "loop"

-------------------------------------------------------------------------------
(* Signals *)

Sighup ==
    /\ main # "exit" /\ hups < MaxHups
    /\ hups' = hups + 1 /\ reload' = TRUE
    /\ UNCHANGED <<dnsVars, frontVars, main, on, draining, watch, polls, load, tuner>>

\* SIGINT or SIGTERM: a second one changes nothing but the number of threads that
\* will clear the flag.
Sigterm ==
    /\ main # "exit" /\ ~draining
    /\ draining' = TRUE /\ watch' = "asleep"
    /\ UNCHANGED <<dnsVars, frontVars, main, on, reload, hups, polls, load, tuner>>

WatchdogFires ==
    /\ watch = "asleep"
    /\ watch' = "done" /\ on' = FALSE
    /\ UNCHANGED <<dnsVars, frontVars, main, draining, reload, hups, polls, load, tuner>>

-------------------------------------------------------------------------------
(* The main loop *)

ToDrain == IF draining THEN "drain" ELSE "loop"

\* One iteration; with no flag set it only sleeps.
LoopTest ==
    /\ main = "loop" /\ (~on \/ reload \/ draining)
    /\ main' = IF ~on THEN "dns" ELSE IF reload THEN "reload" ELSE "drain"
    /\ reload' = IF on THEN FALSE ELSE reload
    /\ UNCHANGED <<dnsVars, frontVars, on, draining, hups, watch, polls, load, tuner>>

\* resolverRef->reload() has returned; draining is tested next, running is not.
Reloaded ==
    /\ main = "reload"
    /\ main' = ToDrain
    /\ UNCHANGED <<dnsVars, frontVars, on, draining, reload, hups, watch, polls, load, tuner>>

Poll ==
    /\ main = "drain"
    /\ IF load = 0 \/ polls = Polls
       THEN main' = "dns" /\ on' = FALSE /\ polls' = polls
       ELSE main' = "drain" /\ on' = on /\ polls' = polls + 1
    /\ UNCHANGED <<dnsVars, frontVars, draining, reload, hups, watch, load, tuner>>

\* perfMonitorLoop(): some of the tasks in the pool are still queued.
RecordLoad ==
    /\ perf = "loop"
    /\ load' \in 0..flight
    /\ UNCHANGED <<dnsVars, frontVars, main, on, draining, reload, hups, watch, polls, tuner>>

-------------------------------------------------------------------------------
(* Shutdown, in the order of main() *)

Goes(from, to) ==
    /\ main = from /\ main' = to
    /\ UNCHANGED <<on, draining, reload, hups, watch, polls, load, tuner>>

\* Mutant: main() goes on while DnsServer::stop() still waits for its threads.
StopHttpsEarly == Goes("https", "monitor") /\ UNCHANGED dnsVars /\ Front!HttpsStop

StopDns     == /\ Goes("dns", "https") /\ UNCHANGED frontVars
               /\ IF stopper = "none" THEN Dns!StopBegins ELSE UNCHANGED dnsVars
StopHttps   == /\ Goes("https", "monitor") /\ UNCHANGED dnsVars
               /\ stopper = "closed" /\ Front!HttpsStop
StopMonitor == Goes("monitor", "join") /\ Front!MonitorStop /\ UNCHANGED dnsVars
JoinMonitor == Goes("join", "tuner") /\ mon = "gone" /\ UNCHANGED <<dnsVars, frontVars>>

\* AutoTuner::stop() clears its flag, which the thread tests every 100 ms; main()
\* joins it, sleeps 200 ms and returns.
TunerEnds ==
    /\ main = "tuner" /\ tuner = "loop"
    /\ tuner' = "gone"
    /\ UNCHANGED <<dnsVars, frontVars, main, on, draining, reload, hups, watch, polls, load>>

Return == Goes("tuner", "exit") /\ tuner = "gone" /\ UNCHANGED <<dnsVars, frontVars>>

Main == \/ LoopTest \/ Reloaded \/ Poll
        \/ StopDns \/ StopHttps \/ StopMonitor \/ JoinMonitor \/ Return

ProcessNext ==
    \/ Sighup \/ Sigterm \/ WatchdogFires \/ RecordLoad \/ TunerEnds \/ Main
    \/ Dns!Next /\ UNCHANGED <<frontVars, mainVars>>
    \/ Front!FrontNext /\ UNCHANGED <<dnsVars, mainVars>>

\* Every thread of the program runs; signals and clients owe nothing.
ProcessSpec ==
    /\ ProcessInit /\ [][ProcessNext]_processVars
    /\ WF_processVars(Main) /\ WF_processVars(WatchdogFires) /\ WF_processVars(TunerEnds)
    /\ Dns!Fairness /\ Front!FrontFairness

-------------------------------------------------------------------------------
(* Properties *)

ProcessTypeOK ==
    /\ Dns!StopTypeOK /\ Front!FrontTypeOK
    /\ main \in {"loop", "reload", "drain", "dns", "https", "monitor", "join", "tuner", "exit"}
    /\ {on, draining, reload} \subseteq BOOLEAN
    /\ watch \in {"none", "asleep", "done"} /\ tuner \in {"loop", "gone"}
    /\ polls \in 0..Polls /\ load \in Nat /\ hups \in 0..MaxHups

\* Once stop() has reset the main socket, no receiver, not even one woken by a late
\* datagram, begins to handle a query whose task would use that socket; what the
\* io_context thread was handling at that moment is the only one still to come.
NoWorkAfterClose == Dns!NoWorkAfterClose

\* A front end that is being stopped takes on at most one more client, the one its
\* accept() already had.
AtMostOneLate == Front!AtMostOneLate

\* When main() returns, every thread that its shutdown joins has left its loop: the
\* receivers, the accept thread and the perf monitor of DnsServer, the monitor's
\* accept thread, the tuner.
NothingRunsAtExit ==
    main = "exit" => /\ \A u \in UdpThreads : wk[u] = "gone"
                     /\ acc = "gone" /\ perf = "gone" /\ mon = "gone" /\ tuner = "gone"

\* What can keep the joins of main() waiting: a receiver of DnsServer that no data
\* reaches, its accept thread reading from a client that says nothing, and the two
\* accept threads that a connection to 127.0.0.1 does not wake because their server
\* listens elsewhere.
Held ==
    \/ main = "https" /\ stopper = "join" /\ (Dns!Stuck # {} \/ acc = "read")
    \/ main = "https" /\ stopper = "join" /\ addr = "other" /\ Dns!AcceptStuck
    \/ main = "join" /\ ~MonitorLocal /\ mon = "accept" /\ mback = 0

\* A SIGTERM ends the process, whatever the load, the reloads before it and the
\* clients of three servers, unless one of the known calls holds up a join; it may
\* end in a crash.
SignalEndsProcess == draining ~> (main = "exit" \/ Dns!Crashed \/ Held)
===============================================================================
