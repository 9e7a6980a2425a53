----------------------------- MODULE MCAutoTuner -----------------------------
(* Samples of a server without HttpResolver: util is 0 there. *)
EXTENDS AutoTuner

Quiet(load) == [lat |-> 20, p95 |-> 40, err |-> 0, hit |-> 97, util |-> 0,
                load |-> load, trend |-> 0, var |-> 5, qps |-> 1, gap |-> 10]

\* idle, trickle, busy and failing, deep queue and late, over target with misses
MCSamples ==
    { Quiet(0), Quiet(1),
      [Quiet(60) EXCEPT !.err = 60, !.qps = 9],
      [Quiet(300) EXCEPT !.lat = 1100, !.p95 = 2000, !.gap = 110],
      [Quiet(2) EXCEPT !.lat = 300, !.p95 = 500, !.hit = 40, !.gap = 25] }
===============================================================================
