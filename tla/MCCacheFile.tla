------------------------------ MODULE MCCacheFile ------------------------------
EXTENDS CacheFile

\* One answer of ordinary size, one oversized.
CONSTANTS k1, k2
===============================================================================
