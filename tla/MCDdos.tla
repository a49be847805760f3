------------------------------- MODULE MCDdos -------------------------------
(* One client in its two spellings under three threads; two addresses with   *)
(* three requests on one.                                                    *)
EXTENDS Ddos, TLC

CONSTANTS plain, mapped, a1, a2, c1, c2, c3

Spellings == {plain, mapped}
AllNormal == [a \in Spellings |-> plain]
Flood     == {"flood", "penalty"}
Slow      == {"slowloris", "penalty"}
Resets    == {"rapidReset"}
EachAlone == {Flood, Slow, Resets}
TwoIPs    == {a1, a2}
Calls3    == {c1, c2, c3}

\* Addresses and calls, which are also the requests, are interchangeable; the one CHOOSE
\* picks from at most one.
Symmetry == Permutations(IPs) \cup Permutations(Calls)
=============================================================================
