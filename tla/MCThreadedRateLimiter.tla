----------------------- MODULE MCThreadedRateLimiter -----------------------
(* Model values and symmetry for the runs of ThreadedRateLimiter.          *)
EXTENDS ThreadedRateLimiter, TLC

CONSTANTS k1, k2, c1, c2, c3

OneKey  == {k1}
TwoKeys == {k1, k2}
Calls3  == {c1, c2, c3}

\* Keys and calls are interchangeable; no formula chooses among them.
Symmetry == Permutations(Keys) \cup Permutations(Calls)
=============================================================================
