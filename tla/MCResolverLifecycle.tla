------------------------ MODULE MCResolverLifecycle ------------------------
(* Two keys, the three periodic loops and a queue of two. *)
EXTENDS ResolverLifecycle

CONSTANTS k1, k2, gc, refresh, prewarm
MCKeys  == {k1, k2}
MCLoops == {gc, refresh, prewarm}
=============================================================================
