---------------------------- MODULE MCRateLimiter ----------------------------
(* One client, a second of two ticks, a limit of two.  The clients are         *)
(* independent of each other.                                                  *)
EXTENDS RateLimiter, TLC

CONSTANTS c1, t1, t2
MCClients == {c1}
MCThreads == {t1, t2}
ThreadSymmetry == Permutations(MCThreads)
===============================================================================
