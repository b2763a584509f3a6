---- MODULE MCServerProcess ----
EXTENDS ServerProcess

CONSTANTS d1, d2, r1, r2
====
