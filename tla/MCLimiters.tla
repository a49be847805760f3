----------------------------- MODULE MCLimiters -----------------------------
(* Three requests of two keys, on one thread and on three.                   *)
EXTENDS Limiters, TLC

CONSTANTS k1, k2, r1, r2, r3

TwoKeys   == {k1, k2}
Requests3 == {r1, r2, r3}

\* Keys and requests are interchangeable; no formula chooses among them.
Symmetry == Permutations(Keys) \cup Permutations(Requests)
=============================================================================
