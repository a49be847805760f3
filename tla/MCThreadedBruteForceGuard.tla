--------------------- MODULE MCThreadedBruteForceGuard ---------------------
(* Model values and symmetry for the runs of ThreadedBruteForceGuard.      *)
EXTENDS ThreadedBruteForceGuard, TLC

CONSTANTS i1, i2, a1, a2, c1, c2, c3, c4

OneIP      == {i1}
TwoIPs     == {i1, i2}
TwoAccounts == {a1, a2}
NoAccounts == {}
Calls3     == {c1, c2, c3}
Calls4     == {c1, c2, c3, c4}

\* Addresses, accounts and calls are interchangeable; no formula chooses.
Symmetry == Permutations(IPs) \cup Permutations(Accounts) \cup Permutations(Calls)
=============================================================================
