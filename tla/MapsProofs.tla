----------------------------- MODULE MapsProofs -----------------------------
(***************************************************************************)
(* What the operations on ordered maps return, whatever they hold.  A      *)
(* table that makes room by deleting its first key stays within its limit  *)
(* only because the sequence lists every key once: that is Ordered, and    *)
(* every operation keeps it.                                               *)
(***************************************************************************)
EXTENDS Maps, Integers, FiniteSetTheorems, SequenceTheorems, TLAPS

-----------------------------------------------------------------------------
(* Which keys an operation leaves, with which values.                      *)

\* Setting a key touches no other.
LEMMA SetValue ==
  ASSUME NEW m, NEW k, NEW v
  PROVE  /\ DOMAIN MapSet(m, k, v).of = DOMAIN m.of \cup {k}
         /\ MapSet(m, k, v).of[k] = v
         /\ \A j \in DOMAIN m.of : j # k => MapSet(m, k, v).of[j] = m.of[j]
BY DEF MapSet, Put

\* Deleting keys touches no other.
LEMMA DeletedKeys ==
  ASSUME NEW m, NEW S
  PROVE  /\ DOMAIN MapDelete(m, S).of = DOMAIN m.of \ S
         /\ \A j \in DOMAIN m.of \ S : MapDelete(m, S).of[j] = m.of[j]
BY DEF MapDelete, Drop

\* Making room only drops others.
LEMMA DeletedFirst ==
  ASSUME NEW m
  PROVE  /\ DOMAIN MapDeleteFirst(m).of \subseteq DOMAIN m.of
         /\ \A j \in DOMAIN MapDeleteFirst(m).of : MapDeleteFirst(m).of[j] = m.of[j]
BY DeletedKeys DEF MapDeleteFirst

-----------------------------------------------------------------------------
(* Sequences that list each of their elements once.                        *)

Listed(s) == {s[i] : i \in DOMAIN s}

EachOnce(s) == \A i, j \in DOMAIN s : s[i] = s[j] => i = j

LEMMA AppendedOnce ==
  ASSUME NEW D, NEW s \in Seq(D), EachOnce(s), NEW k \in D, k \notin Listed(s)
  PROVE  /\ Append(s, k) \in Seq(D) /\ EachOnce(Append(s, k))
         /\ Listed(Append(s, k)) = Listed(s) \cup {k}
<1> DEFINE n    == Append(s, k)
           last == Len(s) + 1
<1>1. /\ n \in Seq(D) /\ Len(n) = last
      /\ \A i \in 1 .. Len(s) : n[i] = s[i]
      /\ n[last] = k
  BY AppendProperties
<1>. HIDE DEF n
<1>2. DOMAIN s = 1 .. Len(s) /\ Len(s) \in Nat /\ DOMAIN n = 1 .. last
  BY <1>1, LenProperties
<1>3. DOMAIN n = DOMAIN s \cup {last} /\ last \notin DOMAIN s
  BY <1>2
<1>4. Listed(n) = Listed(s) \cup {k}
  BY <1>1, <1>2, <1>3 DEF Listed
<1>5. \A i \in DOMAIN s : n[i] = s[i] /\ s[i] # k
  BY <1>1, <1>2 DEF Listed
<1>6. EachOnce(n)
  BY <1>1, <1>3, <1>5 DEF EachOnce
<1>. QED  BY <1>1, <1>4, <1>6 DEF n

LEMMA TailOnce ==
  ASSUME NEW D, NEW s \in Seq(D), EachOnce(s), s # <<>>
  PROVE  /\ Head(s) \in D /\ Head(s) \in Listed(s)
         /\ Tail(s) \in Seq(D) /\ EachOnce(Tail(s))
         /\ Listed(Tail(s)) = Listed(s) \ {Head(s)}
<1> DEFINE t == Tail(s)
<1>1. /\ Head(s) = s[1] /\ Head(s) \in D
      /\ t \in Seq(D) /\ Len(t) = Len(s) - 1
      /\ \A i \in 1 .. Len(t) : t[i] = s[i + 1]
  BY HeadTailProperties
<1>. HIDE DEF t
<1>2. /\ DOMAIN s = 1 .. Len(s) /\ Len(s) \in Nat /\ Len(s) # 0
      /\ DOMAIN t = 1 .. Len(t) /\ Len(t) \in Nat
  BY <1>1, LenProperties, EmptySeq
<1>3. \A i \in DOMAIN t : i \in Nat /\ i + 1 \in DOMAIN s /\ i + 1 # 1 /\ t[i] = s[i + 1]
  BY <1>1, <1>2
<1>4. \A i \in DOMAIN s : i # 1 => i - 1 \in DOMAIN t /\ t[i - 1] = s[i]
  BY <1>1, <1>2
<1>5. 1 \in DOMAIN s
  BY <1>2
<1>6. EachOnce(t)
  BY <1>3 DEF EachOnce
<1>7. Listed(t) = Listed(s) \ {Head(s)}
  <2>1. ASSUME NEW i \in DOMAIN t PROVE t[i] \in Listed(s) \ {Head(s)}
    BY <1>1, <1>3, <1>5 DEF EachOnce, Listed
  <2>2. ASSUME NEW i \in DOMAIN s, s[i] # Head(s) PROVE s[i] \in Listed(t)
    BY <1>1, <1>4, <2>2 DEF Listed
  <2>. QED  BY <2>1, <2>2 DEF Listed
<1>. QED  BY <1>1, <1>5, <1>6, <1>7 DEF t, Listed

-----------------------------------------------------------------------------
(* The order of the keys.                                                  *)

\* Finitely many keys, listed by a sequence, each once.
Ordered(m) ==
  /\ IsFiniteSet(DOMAIN m.of)
  /\ m.keys \in Seq(DOMAIN m.of)
  /\ MapOrdered(m)

LEMMA EmptyOrdered == Ordered(EmptyMap) /\ MapSize(EmptyMap) = 0
<1>1. DOMAIN EmptyMap.of = {} /\ EmptyMap.keys = <<>>
  BY DEF EmptyMap, Empty
<1>. QED  BY <1>1, FS_EmptySet DEF Ordered, MapOrdered, MapSize

\* The order is that of the keys alone, not of what they map to.
LEMMA OrderedByKeys ==
  ASSUME NEW m, NEW n, Ordered(m), DOMAIN n.of = DOMAIN m.of, n.keys = m.keys
  PROVE  Ordered(n) /\ MapSize(n) = MapSize(m)
BY DEF Ordered, MapOrdered, MapSize

\* A size is a number.
LEMMA SizeType ==
  ASSUME NEW m, Ordered(m)
  PROVE  MapSize(m) \in Nat /\ (MapSize(m) = 0 <=> DOMAIN m.of = {})
BY FS_CardinalityType, FS_EmptySet DEF Ordered, MapSize

\* A new key comes last, an old one keeps its place.
LEMMA SetOrdered ==
  ASSUME NEW m, Ordered(m), NEW k, NEW v
  PROVE  /\ Ordered(MapSet(m, k, v))
         /\ MapSize(MapSet(m, k, v)) = IF MapHas(m, k) THEN MapSize(m) ELSE MapSize(m) + 1
<1> DEFINE n == MapSet(m, k, v)
<1>1. DOMAIN n.of = DOMAIN m.of \cup {k}
  BY SetValue
<1>2. IsFiniteSet(DOMAIN n.of) /\ MapSize(n) = IF MapHas(m, k) THEN MapSize(m) ELSE MapSize(m) + 1
  BY <1>1, FS_AddElement DEF Ordered, MapSize, MapHas
<1>3. CASE MapHas(m, k)
  <2>1. n.keys = m.keys /\ DOMAIN n.of = DOMAIN m.of
    BY <1>1, <1>3 DEF MapSet, MapHas
  <2>. QED  BY <1>2, <2>1 DEF Ordered, MapOrdered
<1>4. CASE ~MapHas(m, k)
  <2>1. n.keys = Append(m.keys, k)
    BY <1>4 DEF MapSet
  <2>. HIDE DEF n
  <2>2. m.keys \in Seq(DOMAIN n.of) /\ k \in DOMAIN n.of
    BY <1>1, SeqMonotonic DEF Ordered
  <2>3. EachOnce(m.keys) /\ Listed(m.keys) = DOMAIN m.of /\ k \notin Listed(m.keys)
    BY <1>4 DEF Ordered, MapOrdered, MapHas, EachOnce, Listed
  <2>4. /\ n.keys \in Seq(DOMAIN n.of) /\ EachOnce(n.keys)
        /\ Listed(n.keys) = DOMAIN m.of \cup {k}
    <3> DEFINE D == DOMAIN n.of
    <3>. HIDE DEF D
    <3>1. m.keys \in Seq(D) /\ k \in D
      BY <2>2 DEF D
    <3>2. Append(m.keys, k) \in Seq(D) /\ EachOnce(Append(m.keys, k))
          /\ Listed(Append(m.keys, k)) = Listed(m.keys) \cup {k}
      BY <2>3, <3>1, AppendedOnce
    <3>. QED  BY <2>1, <2>3, <3>2, Zenon DEF D
  <2>. QED  BY <1>1, <1>2, <2>4 DEF Ordered, MapOrdered, EachOnce, Listed, n
<1>. QED  BY <1>2, <1>3, <1>4

\* The members of a finite set of numbers, counted from the least, have each its
\* place, and every place is taken.
LEMMA Places ==
  ASSUME NEW left \in SUBSET Int, IsFiniteSet(left)
  PROVE  LET nth(i) == Cardinality({j \in left : j <= i})
         IN  /\ Cardinality(left) \in Nat
             /\ \A i \in left : nth(i) \in 1 .. Cardinality(left)
             /\ \A i, k \in left : i < k => nth(i) < nth(k)
             /\ \A n \in 1 .. Cardinality(left) : \E i \in left : nth(i) = n
<1> DEFINE upTo(i) == {j \in left : j <= i}
           nth(i)  == Cardinality(upTo(i))
           N       == Cardinality(left)
           place   == [i \in left |-> nth(i)]
<1>1. N \in Nat
  BY FS_CardinalityType
<1>2. ASSUME NEW i \in left
      PROVE  IsFiniteSet(upTo(i)) /\ nth(i) \in 1 .. N
  <2>1. upTo(i) \in SUBSET left /\ i \in upTo(i)
    OBVIOUS
  <2>2. IsFiniteSet(upTo(i)) /\ nth(i) <= N
    BY <2>1, FS_Subset
  <2>3. nth(i) \in Nat /\ nth(i) # 0
    BY <2>1, <2>2, FS_CardinalityType, FS_EmptySet
  <2>. QED  BY <1>1, <2>2, <2>3
<1>3. ASSUME NEW i \in left, NEW k \in left, i < k
      PROVE  nth(i) < nth(k)
  <2>1. upTo(i) \in SUBSET upTo(k) /\ k \in upTo(k) /\ k \notin upTo(i)
    <3>1. i \in Int /\ k \in Int /\ ~(k <= i) /\ k <= k
      BY <1>3
    <3>2. \A j \in left : j <= i => j <= k
      BY <1>3, <3>1
    <3>. QED  BY <3>1, <3>2
  <2>2. IsFiniteSet(upTo(k)) /\ nth(i) \in Nat /\ nth(k) \in Nat
    BY <1>2
  <2>3. nth(i) <= nth(k) /\ (nth(k) = nth(i) => upTo(k) = upTo(i))
    <3>. HIDE DEF upTo
    <3>. QED  BY <2>1, <2>2, FS_Subset
  <2>. QED  BY <2>1, <2>2, <2>3
<1>4. \A n \in 1 .. N : \E i \in left : nth(i) = n
  <2>1. IsFiniteSet(1 .. N) /\ Cardinality(1 .. N) = N
    BY <1>1, FS_Interval
  <2>2. place \in Injection(left, 1 .. N)
    <3>. HIDE DEF nth, N, upTo
    <3>1. place \in [left -> 1 .. N]
      BY <1>2 DEF N
    <3>2. \A i, k \in left : place[i] = place[k] => i = k
      <4>. SUFFICES ASSUME NEW i \in left, NEW k \in left, nth(i) = nth(k) PROVE i = k
        OBVIOUS
      <4>1. nth(i) \in Nat
        BY <1>1, <1>2
      <4>2. ~(i < k) /\ ~(k < i)
        BY <1>3, <4>1
      <4>3. i \in Int /\ k \in Int
        OBVIOUS
      <4>. QED  BY <4>2, <4>3
    <3>. QED  BY <3>1, <3>2 DEF Injection, IsInjective
  <2>3. place \in Surjection(left, 1 .. N)
    <3>. HIDE DEF place
    <3>. QED  BY <2>1, <2>2, FS_Injection
  <2>. QED  BY <2>3 DEF Surjection
<1>. QED  BY <1>1, <1>2, <1>3, <1>4

\* What is left of a sequence is its elements outside the set, in their order: the
\* n-th of them was at place[n].
Remaining(keys, S) == {i \in DOMAIN keys : keys[i] \notin S}

IsRest(rest, place, keys, left) ==
  /\ place \in Bijection(DOMAIN rest, left)
  /\ DOMAIN rest = 1 .. Cardinality(left) /\ Len(rest) = Cardinality(left) /\ IsFiniteSet(left)
  /\ \A n \in DOMAIN rest : rest[n] = keys[place[n]]
  /\ \A n, l \in DOMAIN rest : n < l => place[n] < place[l]

LEMMA WithoutPlaces ==
  ASSUME NEW D, NEW keys \in Seq(D), NEW S
  PROVE  /\ Without(keys, S) \in Seq(D \ S)
         /\ \E place : IsRest(Without(keys, S), place, keys, Remaining(keys, S))
<1> DEFINE left     == {i \in DOMAIN keys : keys[i] \notin S}
           nth(i)   == Cardinality({j \in left : j <= i})
           N        == Cardinality(left)
           place(n) == CHOOSE i \in left : nth(i) = n
           rest     == Without(keys, S)
<1>1. DOMAIN keys = 1 .. Len(keys) /\ Len(keys) \in Nat /\ \A i \in DOMAIN keys : keys[i] \in D
  BY LenProperties, ElementOfSeq
<1>2. left \in SUBSET Int /\ IsFiniteSet(left)
  <2>1. IsFiniteSet(1 .. Len(keys)) /\ left \in SUBSET (1 .. Len(keys))
    BY <1>1, FS_Interval
  <2>. QED  BY <2>1, FS_Subset
<1>3. rest = [n \in 1 .. N |-> keys[place(n)]]
  BY DEF Without
<1>. HIDE DEF rest
<1>4. /\ N \in Nat
      /\ \A i \in left : nth(i) \in 1 .. N
      /\ \A i, k \in left : i < k => nth(i) < nth(k)
      /\ \A n \in 1 .. N : \E i \in left : nth(i) = n
  <2>. HIDE DEF left
  <2>. QED  BY <1>2, Places
<1>. HIDE DEF nth, N
<1>5. \A i, k \in left : nth(i) = nth(k) => i = k
  <2>. SUFFICES ASSUME NEW i \in left, NEW k \in left, nth(i) = nth(k) PROVE i = k
    OBVIOUS
  <2>1. nth(i) \in Nat /\ i \in Int /\ k \in Int
    BY <1>2, <1>4
  <2>2. ~(i < k) /\ ~(k < i)
    BY <1>4, <2>1
  <2>. QED  BY <2>1, <2>2
<1>6. \A n \in 1 .. N : place(n) \in left /\ nth(place(n)) = n
  BY <1>4
<1>7. \A i \in left : place(nth(i)) = i
  BY <1>4, <1>5, <1>6
<1>. HIDE DEF place
<1>8. DOMAIN rest = 1 .. N /\ \A n \in 1 .. N : rest[n] = keys[place(n)]
  BY <1>3
<1>9. rest \in Seq(D \ S) /\ Len(rest) = N
  <2>1. \A n \in 1 .. N : rest[n] \in D \ S
    BY <1>1, <1>6, <1>8
  <2>2. rest \in [1 .. N -> D \ S]
    BY <1>3, <1>8, <2>1
  <2>3. rest \in Seq(D \ S)
    BY <1>4, <2>2, SeqDef
  <2>. QED  BY <1>4, <1>8, <2>3, LenProperties
<1> DEFINE f == [n \in 1 .. N |-> place(n)]
<1>10. \A n, l \in 1 .. N : n < l => f[n] < f[l]
  <2>. SUFFICES ASSUME NEW n \in 1 .. N, NEW l \in 1 .. N, n < l PROVE place(n) < place(l)
    OBVIOUS
  <2>1. place(n) \in Int /\ place(l) \in Int /\ nth(place(n)) = n /\ nth(place(l)) = l
    BY <1>2, <1>6
  <2>2. place(n) # place(l) /\ ~(place(l) < place(n))
    BY <1>4, <1>6, <2>1
  <2>. QED  BY <2>1, <2>2
<1>11. f \in Bijection(1 .. N, left)
  <2>1. f \in [1 .. N -> left]
    BY <1>6
  <2>2. \A n, l \in 1 .. N : f[n] = f[l] => n = l
    BY <1>6
  <2>3. \A i \in left : \E n \in 1 .. N : f[n] = i
    BY <1>4, <1>7
  <2>. QED  BY <2>1, <2>2, <2>3 DEF Bijection, Injection, Surjection, IsInjective
<1>12. IsRest(rest, f, keys, left)
  BY <1>2, <1>8, <1>9, <1>10, <1>11 DEF IsRest, N
<1>. QED  BY <1>9, <1>12 DEF rest, Remaining

\* What is left of a sequence without repetitions lists what is left of its
\* members, without repetitions.
LEMMA WithoutKeys ==
  ASSUME NEW D, NEW keys \in Seq(D), NEW S,
         \A i, j \in DOMAIN keys : keys[i] = keys[j] => i = j
  PROVE  LET rest == Without(keys, S)
         IN  /\ rest \in Seq(D \ S)
             /\ {rest[n] : n \in DOMAIN rest} = {keys[i] : i \in DOMAIN keys} \ S
             /\ \A n, l \in DOMAIN rest : rest[n] = rest[l] => n = l
<1> DEFINE left == {i \in DOMAIN keys : keys[i] \notin S}
           rest == Without(keys, S)
<1>. HIDE DEF rest
<1>1. PICK place : rest \in Seq(D \ S) /\ IsRest(rest, place, keys, left)
  BY WithoutPlaces DEF rest, Remaining
<1>2. /\ \A n \in DOMAIN rest : place[n] \in left
      /\ \A n, l \in DOMAIN rest : place[n] = place[l] => n = l
      /\ \A i \in left : \E n \in DOMAIN rest : place[n] = i
      /\ \A n \in DOMAIN rest : rest[n] = keys[place[n]]
      /\ IsFiniteSet(left)
  BY <1>1 DEF IsRest, Bijection, Injection, Surjection, IsInjective
<1>3. {rest[n] : n \in DOMAIN rest} = {keys[i] : i \in DOMAIN keys} \ S
  BY <1>1, <1>2
<1>4. \A n, l \in DOMAIN rest : rest[n] = rest[l] => n = l
  BY <1>1, <1>2
<1>. QED  BY <1>1, <1>3, <1>4 DEF rest

\* Where the elements of T are.
Where(s, T) == {i \in DOMAIN s : s[i] \in T}

\* It keeps as many elements of T as there were, if none of T is dropped.
LEMMA WithoutCount ==
  ASSUME NEW D, NEW keys \in Seq(D), NEW S, NEW T, \A x \in T : x \notin S
  PROVE  /\ IsFiniteSet(Where(Without(keys, S), T))
         /\ Cardinality(Where(Without(keys, S), T)) = Cardinality(Where(keys, T))
<1> DEFINE left   == {i \in DOMAIN keys : keys[i] \notin S}
           rest   == Without(keys, S)
           now    == {n \in DOMAIN rest : rest[n] \in T}
           before == {i \in DOMAIN keys : keys[i] \in T}
<1>. HIDE DEF rest
<1>1. PICK place : IsRest(rest, place, keys, left)
  BY WithoutPlaces DEF rest, Remaining
<1>2. /\ \A n \in DOMAIN rest : place[n] \in left
      /\ \A n, l \in DOMAIN rest : place[n] = place[l] => n = l
      /\ \A i \in left : \E n \in DOMAIN rest : place[n] = i
      /\ \A n \in DOMAIN rest : rest[n] = keys[place[n]]
      /\ IsFiniteSet(left)
  BY <1>1 DEF IsRest, Bijection, Injection, Surjection, IsInjective
<1> DEFINE f == [n \in now |-> place[n]]
<1>3. f \in Bijection(now, before)
  <2>1. f \in [now -> before]
    BY <1>1, <1>2
  <2>2. \A n, l \in now : f[n] = f[l] => n = l
    BY <1>2
  <2>3. \A i \in before : \E n \in now : f[n] = i
    BY <1>1, <1>2
  <2>. QED  BY <2>1, <2>2, <2>3 DEF Bijection, Injection, Surjection, IsInjective
<1>4. IsFiniteSet(before)
  <2>1. before \in SUBSET left
    OBVIOUS
  <2>. QED  BY <1>2, <2>1, FS_Subset
<1>5. f \in Surjection(now, before) /\ f \in Injection(now, before)
  BY <1>3 DEF Bijection
<1>. HIDE DEF now, before, f
<1>6. IsFiniteSet(now) /\ Cardinality(now) = Cardinality(before)
  BY <1>4, <1>5, FS_Injection
<1>. QED  BY <1>4, <1>6 DEF now, before, rest, Where

\* One element more counts if it is one of those counted.
LEMMA AppendCount ==
  ASSUME NEW D, NEW s \in Seq(D), NEW x \in D, NEW T
  PROVE  /\ IsFiniteSet(Where(s, T)) /\ Cardinality(Where(s, T)) \in Nat
         /\ IsFiniteSet(Where(Append(s, x), T))
         /\ Cardinality(Where(Append(s, x), T)) = Cardinality(Where(s, T)) + (IF x \in T THEN 1 ELSE 0)
<1> DEFINE old == {i \in DOMAIN s : s[i] \in T}
           new == {i \in DOMAIN Append(s, x) : Append(s, x)[i] \in T}
<1>1. /\ DOMAIN s = 1 .. Len(s) /\ Len(s) \in Nat
      /\ DOMAIN Append(s, x) = DOMAIN s \cup {Len(s) + 1} /\ Len(s) + 1 \notin DOMAIN s
      /\ \A i \in DOMAIN s : Append(s, x)[i] = s[i]
      /\ Append(s, x)[Len(s) + 1] = x
  BY LenProperties, AppendProperties
<1>2. IsFiniteSet(old)
  <2>1. IsFiniteSet(1 .. Len(s)) /\ old \in SUBSET (1 .. Len(s))
    BY <1>1, FS_Interval
  <2>. QED  BY <2>1, FS_Subset
<1>3. Cardinality(old) \in Nat
  BY <1>2, FS_CardinalityType
<1>4. new = IF x \in T THEN old \cup {Len(s) + 1} ELSE old
  BY <1>1
<1>5. Len(s) + 1 \notin old
  BY <1>1
<1>. HIDE DEF old, new
<1>6. IsFiniteSet(new) /\ Cardinality(new) = Cardinality(old) + (IF x \in T THEN 1 ELSE 0)
  <2>1. IsFiniteSet(old \cup {Len(s) + 1}) /\ Cardinality(old \cup {Len(s) + 1}) = Cardinality(old) + 1
    BY <1>2, <1>5, FS_AddElement
  <2>2. CASE x \in T
    BY <1>4, <2>1, <2>2
  <2>3. CASE x \notin T
    BY <1>2, <1>3, <1>4, <2>3
  <2>. QED  BY <2>2, <2>3
<1>. QED  BY <1>2, <1>3, <1>6 DEF old, new, Where

\* Deleting keys leaves the others in their order.
LEMMA DeleteOrdered ==
  ASSUME NEW m, Ordered(m), NEW S
  PROVE  Ordered(MapDelete(m, S)) /\ MapSize(MapDelete(m, S)) <= MapSize(m)
<1> DEFINE n == MapDelete(m, S)
           D == DOMAIN m.of
<1>1. DOMAIN n.of = D \ S /\ n.keys = Without(m.keys, S)
  BY DeletedKeys DEF MapDelete
<1>2. IsFiniteSet(D) /\ D \ S \in SUBSET D
  BY DEF Ordered
<1>3. IsFiniteSet(D \ S) /\ Cardinality(D \ S) <= Cardinality(D)
  <2>. HIDE DEF D
  <2>. QED  BY <1>2, FS_Subset
<1>4. /\ m.keys \in Seq(D) /\ {m.keys[i] : i \in DOMAIN m.keys} = D
      /\ \A i, j \in DOMAIN m.keys : m.keys[i] = m.keys[j] => i = j
  BY DEF Ordered, MapOrdered
<1>. HIDE DEF n
<1>5. /\ n.keys \in Seq(D \ S)
      /\ {n.keys[i] : i \in DOMAIN n.keys} = D \ S
      /\ \A i, j \in DOMAIN n.keys : n.keys[i] = n.keys[j] => i = j
  <2> DEFINE keys == m.keys
             rest == Without(keys, S)
  <2>. HIDE DEF D, keys
  <2>1. keys \in Seq(D) /\ \A i, j \in DOMAIN keys : keys[i] = keys[j] => i = j
    BY <1>4 DEF keys
  <2>2. /\ rest \in Seq(D \ S)
        /\ {rest[i] : i \in DOMAIN rest} = {keys[i] : i \in DOMAIN keys} \ S
        /\ \A i, j \in DOMAIN rest : rest[i] = rest[j] => i = j
    BY <2>1, WithoutKeys
  <2>3. n.keys = rest /\ D = {keys[i] : i \in DOMAIN keys}
    BY <1>1, <1>4 DEF keys
  <2>. QED  BY <2>2, <2>3
<1>. QED  BY <1>1, <1>3, <1>5 DEF Ordered, MapOrdered, MapSize, n

\* Deleting the first key of a map that has one makes room for one.
LEMMA DeleteFirstOrdered ==
  ASSUME NEW m, Ordered(m)
  PROVE  /\ Ordered(MapDeleteFirst(m))
         /\ MapSize(MapDeleteFirst(m)) = IF MapSize(m) = 0 THEN 0 ELSE MapSize(m) - 1
<1> DEFINE D == DOMAIN m.of
<1>1. IsFiniteSet(D) /\ MapSize(m) \in Nat /\ (MapSize(m) = 0 <=> D = {})
  BY SizeType DEF Ordered
<1>2. m.keys \in Seq(D) /\ D = {m.keys[i] : i \in DOMAIN m.keys}
  BY DEF Ordered, MapOrdered
<1>3. DOMAIN m.keys = 1 .. Len(m.keys) /\ Len(m.keys) \in Nat
  <2>. HIDE DEF D
  <2>. QED  BY <1>2, LenProperties
<1>4. CASE m.keys = <<>>
  <2>1. D = {}
    BY <1>2, <1>4
  <2>. QED  BY <1>1, <1>4, <2>1 DEF MapDeleteFirst
<1>5. CASE m.keys # <<>>
  <2>1. Head(m.keys) \in D /\ D # {}
    <3>. HIDE DEF D
    <3>. QED  BY <1>2, <1>5, HeadTailProperties
  <2>2. MapDeleteFirst(m) = MapDelete(m, {Head(m.keys)})
    BY <1>5 DEF MapDeleteFirst
  <2>3. Cardinality(D \ {Head(m.keys)}) = Cardinality(D) - 1
    <3>. HIDE DEF D
    <3>. QED  BY <1>1, <2>1, FS_RemoveElement
  <2>4. MapSize(MapDeleteFirst(m)) = MapSize(m) - 1
    BY <2>2, <2>3, DeletedKeys DEF MapSize
  <2>. QED  BY <1>1, <2>1, <2>2, <2>4, DeleteOrdered
<1>. QED  BY <1>4, <1>5

-----------------------------------------------------------------------------
(* A table with a limit.                                                   *)

Within(m, limit) == Ordered(m) /\ MapSize(m) <= limit

\* Room made for k, at the expense of the first key, is there for k.
LEMMA RoomWithin ==
  ASSUME NEW m, NEW limit \in Nat \ {0}, Within(m, limit), NEW k
  PROVE  LET room == IF ~MapHas(m, k) /\ MapSize(m) >= limit THEN MapDeleteFirst(m) ELSE m
         IN  /\ Within(room, limit)
             /\ MapHas(room, k) \/ MapSize(room) < limit
             /\ MapHas(m, k) => room = m
<1>1. Ordered(m) /\ MapSize(m) \in Nat /\ MapSize(m) <= limit
  BY SizeType DEF Within
<1>2. CASE ~MapHas(m, k) /\ MapSize(m) >= limit
  <2>1. Ordered(MapDeleteFirst(m)) /\ MapSize(MapDeleteFirst(m)) = MapSize(m) - 1
    BY <1>1, <1>2, DeleteFirstOrdered
  <2>. QED  BY <1>1, <1>2, <2>1 DEF Within
<1>3. CASE ~(~MapHas(m, k) /\ MapSize(m) >= limit)
  BY <1>1, <1>3 DEF Within
<1>. QED  BY <1>2, <1>3

LEMMA SetWithin ==
  ASSUME NEW m, NEW limit \in Nat, Within(m, limit), NEW k, NEW v,
         MapHas(m, k) \/ MapSize(m) < limit
  PROVE  Within(MapSet(m, k, v), limit)
<1>1. MapSize(m) \in Nat
  BY SizeType DEF Within
<1>. QED  BY <1>1, SetOrdered DEF Within

LEMMA DeleteWithin ==
  ASSUME NEW m, NEW limit \in Nat, Within(m, limit), NEW S
  PROVE  Within(MapDelete(m, S), limit)
<1>1. /\ Ordered(m) /\ Ordered(MapDelete(m, S)) /\ MapSize(m) <= limit
      /\ MapSize(MapDelete(m, S)) <= MapSize(m)
  BY DeleteOrdered DEF Within
<1>2. MapSize(m) \in Nat /\ MapSize(MapDelete(m, S)) \in Nat
  BY <1>1, SizeType
<1>. QED  BY <1>1, <1>2 DEF Within

\* A key moved to the back takes no room.
LEMMA MovedWithin ==
  ASSUME NEW m, NEW limit \in Nat, Within(m, limit), NEW k, MapHas(m, k), NEW v
  PROVE  Within(MapSet(MapDelete(m, {k}), k, v), limit)
<1> DEFINE d == MapDelete(m, {k})
           n == MapSet(d, k, v)
<1>1. Ordered(d) /\ DOMAIN d.of = DOMAIN m.of \ {k}
  BY DeleteOrdered, DeletedKeys DEF Within
<1>. HIDE DEF d
<1>2. Ordered(n) /\ DOMAIN n.of = DOMAIN d.of \cup {k}
  BY <1>1, SetOrdered, SetValue
<1>3. DOMAIN n.of = DOMAIN m.of
  BY <1>1, <1>2 DEF MapHas
<1>. QED  BY <1>2, <1>3 DEF Within, MapSize, d
=============================================================================
