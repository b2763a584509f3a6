-------------------------------- MODULE Sums --------------------------------
(***************************************************************************)
(* Sums of integer functions whose domain is 1..n: the ledger adds up the  *)
(* amounts of the payments of an invoice, and what the requests in flight  *)
(* still owe to its credit.  The recursion is a recursive function, so     *)
(* that LedgerProofs can reason about it.                                  *)
(***************************************************************************)
EXTENDS Integers

\* The sums of the first 0, 1, ..., n values of f.
PartialSums(f, n) ==
    LET s[k \in 0..n] == IF k = 0 THEN 0 ELSE s[k - 1] + f[k]
    IN  s

\* f[1] + ... + f[n].
SumTo(f, n) == PartialSums(f, n)[n]
=============================================================================
