------------------------------ MODULE MCGuards ------------------------------
(* Two addresses: four requests of one account on one thread, three logins   *)
(* of two accounts on three.                                                 *)
EXTENDS Guards, TLC

CONSTANTS i1, i2, a1, a2, a3, r1, r2, r3, r4, c1, c2, c3

TwoIPs      == {i1, i2}
OneAccount  == {a1}
TwoAccounts == {a2, a3}
Requests4   == {r1, r2, r3, r4}
Calls3      == {c1, c2, c3}

Swap(x, y) == x :> y @@ y :> x

\* Addresses are interchangeable, requests too, and calls too; no formula chooses among
\* them.  A swap of requests is tied to one of calls (as it permutes the three ways to
\* pair the requests), which keeps the group small.
Symmetry == Permutations(IPs) \cup
  {Swap(r1, r2) @@ Swap(c2, c3), Swap(r2, r3) @@ Swap(c1, c2), Swap(r3, r4) @@ Swap(c2, c3)}
=============================================================================
