--------------------------- MODULE MCEvictionPool ---------------------------
\* Small instances of EvictionPool.
EXTENDS EvictionPool
=============================================================================
