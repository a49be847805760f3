-------------------------------- MODULE Maps --------------------------------
(***************************************************************************)
(* The two kinds of Map the JavaScript sources keep: a function from its   *)
(* keys, and, where the order in which keys were added decides what is     *)
(* evicted, such a function with the sequence of its keys.                 *)
(***************************************************************************)
EXTENDS Naturals, Sequences, FiniteSets

Empty        == [x \in {} |-> x]
Put(f, k, v) == [x \in DOMAIN f \cup {k} |-> IF x = k THEN v ELSE f[x]]
Drop(f, S)   == [x \in DOMAIN f \ S |-> f[x]]

EmptyMap == [of |-> Empty, keys |-> <<>>]

MapHas(m, k) == k \in DOMAIN m.of

MapSize(m) == Cardinality(DOMAIN m.of)

\* map.set(k, v): a key that is there already keeps its place.
MapSet(m, k, v) ==
  [of   |-> Put(m.of, k, v),
   keys |-> IF MapHas(m, k) THEN m.keys ELSE Append(m.keys, k)]

\* The keys that are not in S, in their order: the n-th of those left is the one
\* with n of them up to it.
Without(keys, S) ==
  LET left     == {i \in DOMAIN keys : keys[i] \notin S}
      place(n) == CHOOSE i \in left : Cardinality({j \in left : j <= i}) = n
  IN  [n \in 1 .. Cardinality(left) |-> keys[place(n)]]

\* map.delete(k) for every k of S.
MapDelete(m, S) ==
  [of   |-> Drop(m.of, S),
   keys |-> Without(m.keys, S)]

\* map.delete(map.keys().next().value)
MapDeleteFirst(m) ==
  IF m.keys = <<>> THEN m ELSE MapDelete(m, {Head(m.keys)})

\* The sequence lists the keys, each once.
MapOrdered(m) ==
  /\ {m.keys[i] : i \in DOMAIN m.keys} = DOMAIN m.of
  /\ \A i, j \in DOMAIN m.keys : m.keys[i] = m.keys[j] => i = j
=============================================================================
