----------------------------- MODULE MCMainProcess -----------------------------
EXTENDS MainProcess

CONSTANTS u1, io, c1, c2

\* One kind of server at a time: the two share nothing but main().
MCModes == {{"dns"}, {"https", "viewers", "hups"}}
===============================================================================
