------------------------------ MODULE TaskQueue -------------------------------
(***************************************************************************)
(* What a user of the worker pool of dns_server.cpp may rely on, without   *)
(* threads, locks or counts: a bounded queue that is served in the order   *)
(* of submission, each accepted task once, by at most Capacity servers,    *)
(* and that is told to stop at most once.  ThreadPool implements it.       *)
(***************************************************************************)
EXTENDS Integers, Sequences, FiniteSets

CONSTANTS
    Task,       \* what can be submitted
    Limit,      \* how many may wait
    Capacity    \* how many may run

VARIABLES
    queue,      \* submitted and not started, oldest first
    inService,  \* started and not finished
    stopped

qvars == <<queue, inService, stopped>>

Waiting == {queue[i] : i \in 1..Len(queue)}

QInit ==
    /\ queue = << >>
    /\ inService = {}
    /\ stopped = FALSE

\* A task waits or runs at most once at a time.
Accept(t) ==
    /\ t \notin Waiting \cup inService
    /\ Len(queue) < Limit
    /\ queue' = Append(queue, t)
    /\ UNCHANGED <<inService, stopped>>

Begin ==
    /\ queue # << >>
    /\ Cardinality(inService) < Capacity
    /\ queue' = Tail(queue)
    /\ inService' = inService \cup {Head(queue)}
    /\ UNCHANGED stopped

Finish(t) ==
    /\ t \in inService
    /\ inService' = inService \ {t}
    /\ UNCHANGED <<queue, stopped>>

Close ==
    /\ ~stopped
    /\ stopped' = TRUE
    /\ UNCHANGED <<queue, inService>>

QNext ==
    \/ \E t \in Task : Accept(t) \/ Finish(t)
    \/ Begin
    \/ Close

QSpec == QInit /\ [][QNext]_qvars
===============================================================================
