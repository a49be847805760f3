------------------------------ MODULE MCEngine ------------------------------
(* Model values for the runs of Engine.                                    *)
EXTENDS Engine, TLC

CONSTANTS a1, a2, p1, p2, r1, r2, r3

OneIP == {a1}
TwoIPs == {a1, a2}
OnePeer == {p1}
TwoPeers == {p1, p2}
Requests2 == {r1, r2}
Requests3 == {r1, r2, r3}

\* Addresses, peers and requests are interchangeable.
Symmetry == Permutations(IPs) \cup Permutations(Peers) \cup Permutations(Requests)
=============================================================================
