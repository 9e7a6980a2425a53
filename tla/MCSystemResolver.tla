--------------------------- MODULE MCSystemResolver ---------------------------
(* Two callers; getaddrinfo() is probed again every second cycle, twice.  The  *)
(* network changes once.                                                       *)
EXTENDS SystemResolver

CONSTANTS t1, t2
MCThreads == {t1, t2}
===============================================================================
