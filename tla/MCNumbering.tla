---- MODULE MCNumbering ----
EXTENDS Numbering, TLC

CONSTANTS w1, w2, d1, d2, s1, s2

\* Browsers, documents and calls are interchangeable.
Symmetry == Permutations({w1, w2}) \cup Permutations({d1, d2}) \cup Permutations({s1, s2})
====
