---- MODULE MCSessions ----
EXTENDS Sessions, TLC

CONSTANTS u1, u2, t1, t2, s1, s2

\* Users, tabs and calls are interchangeable.
Symmetry == Permutations({u1, u2}) \cup Permutations({t1, t2}) \cup Permutations({s1, s2})
====
