---------------------------- MODULE MCHttpResolver ----------------------------
EXTENDS HttpResolver

CONSTANTS w1, w2, q1, q2
===============================================================================
