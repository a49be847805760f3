--------------------------- MODULE MemoriesProofs ---------------------------
(***************************************************************************)
(* Of what the engine remembers: adaptive baselines, fingerprints, traps,  *)
(* endpoints, sessions, scores and generated rules.  Each part has an      *)
(* inductive invariant of its own, and a step of the composition is a step *)
(* of one.                                                                 *)
(***************************************************************************)
EXTENDS Memories, MapsProofs

-----------------------------------------------------------------------------
(* Fingerprints: what is assumed of the limits.                            *)

PrintsLimits == /\ ttlMs \in Nat /\ ttlMs > 0 /\ ONE_HOUR \in Nat /\ MaxTime \in Nat
                /\ caps.behavioral \in Nat
                /\ maxHistory \in Nat \ {0} /\ maxHistory <= 101

LEMMA PrintsCardinality == \A S : Prints!Cardinality(S) = Cardinality(S)
BY DEF Prints!Cardinality, Cardinality

LEMMA Limits ==
  ASSUME Prints!PrintsAssumption
  PROVE  PrintsLimits
BY DEF PrintsLimits, Prints!PrintsAssumption

-----------------------------------------------------------------------------
(* Fingerprints: the list of an address.                                   *)

SentBy(L, ip)   == {m \in DOMAIN L : L[m].ip = ip}
Later(L, ip, m) == {k \in SentBy(L, ip) : m < k}
Entries(L)      == {[fp |-> L[m].fp, ts |-> L[m].at] : m \in DOMAIN L}

\* The list of an address at t holds its calls from some call on, the n-th of them at
\* at[n] of the log; what is missing is out of the window or has maxHistory calls
\* after it.
Lists(list, at, ip, L) ==
  /\ list \in Seq(Entries(L)) /\ at \in [DOMAIN list -> SentBy(L, ip)]
  /\ \A i \in DOMAIN list : list[i] = [fp |-> L[at[i]].fp, ts |-> L[at[i]].at]
  /\ \A i, j \in DOMAIN list : i < j => at[i] < at[j]
  /\ \A i \in DOMAIN list, m \in SentBy(L, ip) : at[i] < m => \E j \in DOMAIN list : at[j] = m

Misses(list, at, ip, L, t) ==
  \A m \in SentBy(L, ip) :
    \/ \E j \in DOMAIN list : at[j] = m
    \/ t - L[m].at >= ttlMs
    \/ Cardinality(Later(L, ip, m)) >= maxHistory

IsHistory(list, at, ip, L, t) == Lists(list, at, ip, L) /\ Misses(list, at, ip, L, t)

\* A log: every call has a time, none later than t, nor earlier than the one before.
IsLog(L, t) ==
  /\ \E S : L \in Seq(S)
  /\ t \in Nat
  /\ \A m \in DOMAIN L : L[m].at \in 0 .. t
  /\ \A m, n \in DOMAIN L : m < n => L[m].at <= L[n].at

LEMMA LogElements ==
  ASSUME NEW L, NEW t, IsLog(L, t)
  PROVE  DOMAIN L = 1 .. Len(L) /\ Len(L) \in Nat /\ IsFiniteSet(DOMAIN L)
<1>1. PICK S : L \in Seq(S)
  BY DEF IsLog
<1>2. DOMAIN L = 1 .. Len(L) /\ Len(L) \in Nat
  BY <1>1, LenProperties
<1>. QED  BY <1>2, FS_Interval

LEMMA FirstNumbers ==
  ASSUME NEW k \in Nat
  PROVE  IsFiniteSet(1 .. k) /\ Cardinality(1 .. k) = k
BY FS_Interval

LEMMA LaterFinite ==
  ASSUME NEW L, NEW t, IsLog(L, t), NEW ip, NEW m
  PROVE  IsFiniteSet(Later(L, ip, m)) /\ Cardinality(Later(L, ip, m)) \in Nat
<1>1. IsFiniteSet(DOMAIN L) /\ Later(L, ip, m) \in SUBSET DOMAIN L
  BY LogElements DEF Later, SentBy
<1>. QED  BY <1>1, FS_Subset, FS_CardinalityType

\* One call more.
Logged(L, e, L2) ==
  /\ DOMAIN L2 = DOMAIN L \cup {Len(L) + 1} /\ Len(L) + 1 \notin DOMAIN L
  /\ \A m \in DOMAIN L : L2[m] = L[m] /\ m < Len(L) + 1
  /\ L2[Len(L) + 1] = e /\ Len(L2) = Len(L) + 1

LEMMA LogAppended ==
  ASSUME NEW L, NEW t, IsLog(L, t), NEW e, e.at = t
  PROVE  IsLog(Append(L, e), t) /\ Logged(L, e, Append(L, e))
<1>1. PICK S : L \in Seq(S)
  BY DEF IsLog
<1> DEFINE D  == S \cup {e}
           L2 == Append(L, e)
<1>2. L \in Seq(D) /\ e \in D
  BY <1>1, SeqMonotonic
<1>. HIDE DEF D
<1>3. /\ L2 \in Seq(D) /\ Len(L2) = Len(L) + 1 /\ DOMAIN L = 1 .. Len(L) /\ Len(L) \in Nat
      /\ DOMAIN L2 = 1 .. Len(L) + 1
      /\ \A i \in DOMAIN L : L2[i] = L[i]
      /\ L2[Len(L) + 1] = e
  BY <1>2, AppendProperties, LenProperties
<1>4. Logged(L, e, L2)
  BY <1>3 DEF Logged
<1>5. IsLog(L2, t)
  <2>. HIDE DEF L2
  <2>1. \A m \in DOMAIN L2 : L2[m].at \in 0 .. t
    BY <1>3 DEF IsLog
  <2>2. \A m, n \in DOMAIN L2 : m < n => L2[m].at <= L2[n].at
    BY <1>3 DEF IsLog
  <2>. QED  BY <1>3, <2>1, <2>2 DEF IsLog
<1>. QED  BY <1>4, <1>5

\* Another's call leaves the list as it is.
LEMMA ListOfOther ==
  ASSUME NEW L, NEW t, IsLog(L, t), NEW e, NEW L2, Logged(L, e, L2), NEW ip, e.ip # ip,
         NEW list, NEW at, IsHistory(list, at, ip, L, t)
  PROVE  IsHistory(list, at, ip, L2, t)
<1>1. SentBy(L2, ip) = SentBy(L, ip) /\ \A m \in SentBy(L, ip) : m \in DOMAIN L /\ L2[m] = L[m]
  BY DEF Logged, SentBy
<1>2. \A m : Later(L2, ip, m) = Later(L, ip, m)
  BY <1>1 DEF Later
<1>3. Entries(L) \subseteq Entries(L2)
  BY DEF Logged, Entries
<1>4. list \in Seq(Entries(L2))
  BY <1>3, SeqMonotonic DEF IsHistory, Lists
<1>5. Lists(list, at, ip, L2)
  BY <1>1, <1>4 DEF IsHistory, Lists
<1>6. Misses(list, at, ip, L2, t)
  BY <1>1, <1>2 DEF IsHistory, Misses
<1>. QED  BY <1>5, <1>6 DEF IsHistory

\* Its own is added.
LEMMA ListOfOwn ==
  ASSUME NEW L, NEW t, IsLog(L, t), NEW e, NEW L2, Logged(L, e, L2), IsLog(L2, t),
         NEW ip, e.ip = ip, maxHistory \in Nat,
         NEW list, NEW at, IsHistory(list, at, ip, L, t)
  PROVE  \E place : IsHistory(Append(list, [fp |-> e.fp, ts |-> e.at]), place, ip, L2, t)
<1> DEFINE h     == [fp |-> e.fp, ts |-> e.at]
           l     == Len(L) + 1
           new   == Append(list, h)
           place == [i \in DOMAIN new |-> IF i \in DOMAIN list THEN at[i] ELSE l]
<1>1. /\ DOMAIN L2 = DOMAIN L \cup {l} /\ l \notin DOMAIN L /\ L2[l] = e
      /\ \A m \in DOMAIN L : L2[m] = L[m] /\ m < l
      /\ DOMAIN L \subseteq Nat /\ l \in Nat
  BY LogElements DEF Logged
<1>2. /\ SentBy(L2, ip) = SentBy(L, ip) \cup {l}
      /\ \A m \in SentBy(L, ip) : m \in DOMAIN L /\ L2[m] = L[m] /\ m < l /\ m \in Nat
  BY <1>1 DEF SentBy
<1>3. Entries(L) \subseteq Entries(L2) /\ h \in Entries(L2)
  BY <1>1 DEF Entries
<1>4. list \in Seq(Entries(L2)) /\ list \in Seq(Entries(L))
  BY <1>3, SeqMonotonic DEF IsHistory, Lists
<1>. HIDE DEF h, l
<1>5. /\ new \in Seq(Entries(L2)) /\ DOMAIN list = 1 .. Len(list) /\ Len(list) \in Nat
      /\ DOMAIN new = DOMAIN list \cup {Len(list) + 1} /\ Len(list) + 1 \notin DOMAIN list
      /\ \A i \in DOMAIN list : new[i] = list[i]
      /\ new[Len(list) + 1] = h
  <2> DEFINE E == Entries(L2)
  <2>. HIDE DEF E
  <2>1. list \in Seq(E) /\ h \in E
    BY <1>3, <1>4 DEF E
  <2>. QED  BY <2>1, AppendProperties, LenProperties DEF E
<1>. HIDE DEF new
<1>6. /\ \A i \in DOMAIN list : place[i] = at[i] /\ at[i] \in SentBy(L, ip)
      /\ place[Len(list) + 1] = l
      /\ place \in [DOMAIN new -> SentBy(L2, ip)]
  BY <1>2, <1>5 DEF IsHistory, Lists
<1>. HIDE DEF place
<1>7. Lists(new, place, ip, L2)
  <2>1. \A i \in DOMAIN new : new[i] = [fp |-> L2[place[i]].fp, ts |-> L2[place[i]].at]
    BY <1>1, <1>2, <1>5, <1>6 DEF IsHistory, Lists, h
  <2>2. \A i, j \in DOMAIN new : i < j => place[i] < place[j]
    BY <1>1, <1>2, <1>5, <1>6 DEF IsHistory, Lists
  <2>3. ASSUME NEW i \in DOMAIN new, NEW m \in SentBy(L2, ip), place[i] < m
        PROVE  \E j \in DOMAIN new : place[j] = m
    <3>1. CASE m = l
      BY <1>5, <1>6, <3>1
    <3>2. CASE m # l
      <4>1. m \in SentBy(L, ip) /\ i \in DOMAIN list
        BY <1>1, <1>2, <1>5, <1>6, <2>3, <3>2
      <4>2. \E j \in DOMAIN list : at[j] = m
        BY <1>6, <2>3, <4>1 DEF IsHistory, Lists
      <4>. QED  BY <1>5, <1>6, <4>2
    <3>. QED  BY <3>1, <3>2
  <2>. QED  BY <1>5, <1>6, <2>1, <2>2, <2>3 DEF Lists
<1>8. Misses(new, place, ip, L2, t)
  <2>. SUFFICES ASSUME NEW m \in SentBy(L2, ip), ~\E j \in DOMAIN new : place[j] = m
                PROVE  t - L2[m].at >= ttlMs \/ Cardinality(Later(L2, ip, m)) >= maxHistory
    BY DEF Misses
  <2>1. m \in SentBy(L, ip) /\ ~\E j \in DOMAIN list : at[j] = m
    BY <1>2, <1>5, <1>6
  <2>2. t - L[m].at >= ttlMs \/ Cardinality(Later(L, ip, m)) >= maxHistory
    BY <2>1 DEF IsHistory, Misses
  <2>3. Later(L, ip, m) \in SUBSET Later(L2, ip, m)
    BY <1>2 DEF Later
  <2>4. /\ Cardinality(Later(L, ip, m)) <= Cardinality(Later(L2, ip, m))
        /\ Cardinality(Later(L, ip, m)) \in Nat /\ Cardinality(Later(L2, ip, m)) \in Nat
    BY <2>3, LaterFinite, FS_Subset
  <2>. QED  BY <1>2, <2>1, <2>2, <2>4
<1>9. IsHistory(new, place, ip, L2, t)
  BY <1>7, <1>8 DEF IsHistory
<1>. QED  BY <1>9 DEF new, h

\* Time passes.
LEMMA LogLater ==
  ASSUME NEW L, NEW t, IsLog(L, t), NEW s \in Nat, t <= s
  PROVE  IsLog(L, s)
<1>1. t \in Nat /\ \A m \in DOMAIN L : L[m].at \in 0 .. t
  BY DEF IsLog
<1>. QED  BY <1>1 DEF IsLog

LEMMA ListLater ==
  ASSUME NEW L, NEW t, IsLog(L, t), NEW s \in Nat, t <= s, ttlMs \in Nat,
         NEW ip, NEW list, NEW at, IsHistory(list, at, ip, L, t)
  PROVE  IsHistory(list, at, ip, L, s)
<1>1. t \in Nat /\ \A m \in DOMAIN L : L[m].at \in 0 .. t
  BY DEF IsLog
<1>3. \A m \in SentBy(L, ip) : m \in DOMAIN L /\ (t - L[m].at >= ttlMs => s - L[m].at >= ttlMs)
  BY <1>1 DEF SentBy
<1>. QED  BY <1>3 DEF IsHistory, Misses

\* What is out of the window goes.
Old(list, t)   == {h \in {list[i] : i \in DOMAIN list} : t - h.ts >= ttlMs}
Fresh(list, t) == \A i \in DOMAIN list : t - list[i].ts < ttlMs

LEMMA ListFresh ==
  ASSUME NEW L, NEW t, IsLog(L, t), ttlMs \in Nat,
         NEW ip, NEW list, NEW at, IsHistory(list, at, ip, L, t)
  PROVE  LET left == Without(list, Old(list, t))
         IN  Fresh(left, t) /\ \E place : IsHistory(left, place, ip, L, t)
<1> DEFINE E    == Entries(L)
           left == Without(list, Old(list, t))
<1>1. list \in Seq(E) /\ DOMAIN list = 1 .. Len(list) /\ Len(list) \in Nat
  BY LenProperties DEF IsHistory, Lists
<1>. HIDE DEF E, left
<1>2. PICK p : left \in Seq(E \ Old(list, t))
               /\ IsRest(left, p, list, Remaining(list, Old(list, t)))
  BY <1>1, WithoutPlaces DEF left
<1>3. /\ DOMAIN left \subseteq Nat
      /\ \A i \in DOMAIN left : p[i] \in DOMAIN list /\ list[p[i]] \notin Old(list, t)
                                /\ left[i] = list[p[i]]
      /\ \A i, j \in DOMAIN left : i < j => p[i] < p[j]
      /\ \A i, j \in DOMAIN left : p[i] = p[j] => i = j
      /\ \A k \in DOMAIN list : list[k] \notin Old(list, t) => \E i \in DOMAIN left : p[i] = k
  <2>1. DOMAIN left \subseteq Nat
    BY <1>2, LenProperties
  <2>. QED  BY <1>2, <2>1 DEF IsRest, Remaining, Bijection, Injection, Surjection, IsInjective
<1>4. t \in Nat /\ \A m \in SentBy(L, ip) : m \in DOMAIN L /\ L[m].at \in 0 .. t /\ m \in Nat
  BY LogElements DEF IsLog, SentBy
<1>5. \A i \in DOMAIN list : at[i] \in SentBy(L, ip) /\ list[i].ts = L[at[i]].at
                             /\ list[i] = [fp |-> L[at[i]].fp, ts |-> L[at[i]].at]
  BY DEF IsHistory, Lists
<1>6. \A i \in DOMAIN list : list[i] \in Old(list, t) <=> t - L[at[i]].at >= ttlMs
  BY <1>5 DEF Old
<1> DEFINE place == [i \in DOMAIN left |-> at[p[i]]]
<1>7. \A i \in DOMAIN left : place[i] = at[p[i]]
  OBVIOUS
<1>8. place \in [DOMAIN left -> SentBy(L, ip)]
  BY <1>3, <1>5
<1>. HIDE DEF place
<1>9. Fresh(left, t)
  BY <1>3, <1>4, <1>5, <1>6 DEF Fresh
<1>10. Lists(left, place, ip, L)
  <2>1. left \in Seq(Entries(L))
    BY <1>2, SeqMonotonic DEF E
  <2>2. \A i \in DOMAIN left : left[i] = [fp |-> L[place[i]].fp, ts |-> L[place[i]].at]
    BY <1>3, <1>5, <1>7
  <2>3. \A i, j \in DOMAIN left : i < j => place[i] < place[j]
    BY <1>3, <1>7 DEF IsHistory, Lists
  <2>4. ASSUME NEW i \in DOMAIN left, NEW m \in SentBy(L, ip), place[i] < m
        PROVE  \E j \in DOMAIN left : place[j] = m
    <3>1. PICK k \in DOMAIN list : at[k] = m
      BY <1>3, <1>7, <2>4 DEF IsHistory, Lists
    <3>2. L[place[i]].at <= L[m].at /\ L[place[i]].at \in 0 .. t /\ L[m].at \in 0 .. t
      BY <1>4, <1>8, <2>4 DEF IsLog
    <3>3. ~(t - L[place[i]].at >= ttlMs)
      BY <1>3, <1>6, <1>7
    <3>4. ~(t - L[m].at >= ttlMs)
      BY <1>4, <3>2, <3>3
    <3>5. list[k] \notin Old(list, t)
      BY <1>6, <3>1, <3>4
    <3>. QED  BY <1>3, <1>7, <3>1, <3>5
  <2>. QED  BY <1>8, <2>1, <2>2, <2>3, <2>4 DEF Lists
<1>11. Misses(left, place, ip, L, t)
  <2>. SUFFICES ASSUME NEW m \in SentBy(L, ip), ~(t - L[m].at >= ttlMs),
                       ~\E j \in DOMAIN left : place[j] = m
                PROVE  Cardinality(Later(L, ip, m)) >= maxHistory
    BY DEF Misses
  <2>1. ~\E k \in DOMAIN list : at[k] = m
    BY <1>3, <1>6, <1>7
  <2>. QED  BY <2>1 DEF IsHistory, Misses
<1>12. IsHistory(left, place, ip, L, t)
  BY <1>10, <1>11 DEF IsHistory
<1>. QED  BY <1>9, <1>12 DEF left

\* The last maxHistory stay.
Last(list) == SubSeq(list, IF Len(list) > maxHistory THEN Len(list) - maxHistory + 1 ELSE 1,
                     Len(list))

LEMMA ListTrimmed ==
  ASSUME NEW L, NEW t, IsLog(L, t), maxHistory \in Nat \ {0},
         NEW ip, NEW list, NEW at, IsHistory(list, at, ip, L, t), Fresh(list, t)
  PROVE  /\ Fresh(Last(list), t) /\ Len(Last(list)) <= maxHistory
         /\ list # <<>> => Last(list) # <<>>
         /\ \E place : IsHistory(Last(list), place, ip, L, t)
<1> DEFINE E == Entries(L)
<1>1. /\ list \in Seq(E) /\ DOMAIN list = 1 .. Len(list) /\ Len(list) \in Nat
      /\ \A i \in 1 .. Len(list) : list[i] \in E
  <2>1. list \in Seq(E)
    BY DEF IsHistory, Lists
  <2>. HIDE DEF E
  <2>. QED  BY <2>1, LenProperties, ElementOfSeq
<1>0. PICK N \in Nat : N = Len(list)
  BY <1>1
<1>14. DOMAIN list = 1 .. N
  BY <1>0, <1>1
<1>2. PICK d \in Nat : d = IF N > maxHistory THEN N - maxHistory ELSE 0
  <2>1. CASE N > maxHistory
    <3>1. N - maxHistory \in Nat
      BY <2>1
    <3>. QED  BY <2>1, <3>1
  <2>2. CASE ~(N > maxHistory)
    BY <2>2
  <2>. QED  BY <2>1, <2>2
<1>3. d <= N /\ Last(list) = SubSeq(list, d + 1, N)
  <2>1. d <= N /\ d + 1 = IF N > maxHistory THEN N - maxHistory + 1 ELSE 1
    BY <1>2
  <2>. QED  BY <1>0, <2>1 DEF Last
<1> DEFINE left == Last(list)
<1>4. /\ left \in Seq(E) /\ Len(left) = N - d /\ DOMAIN left = 1 .. N - d
      /\ \A i \in 1 .. N - d : left[i] = list[d + i]
  <2>. HIDE DEF E
  <2>1. \A i \in d + 1 .. N : list[i] \in E
    BY <1>1, <1>14
  <2>2. /\ SubSeq(list, d + 1, N) \in Seq(E)
        /\ Len(SubSeq(list, d + 1, N))
             = IF d + 1 <= N THEN N - (d + 1) + 1 ELSE 0
        /\ \A i \in 1 .. N - (d + 1) + 1 :
             SubSeq(list, d + 1, N)[i] = list[d + 1 + i - 1]
    BY <2>1, SubSeqProperties
  <2>3. left \in Seq(E) /\ Len(left) = N - d
    BY <1>3, <2>2
  <2>4. DOMAIN left = 1 .. Len(left)
    BY <2>3, LenProperties
  <2>5. \A i \in 1 .. N - d : d + 1 + i - 1 = d + i
    OBVIOUS
  <2>6. 1 .. N - d = 1 .. N - (d + 1) + 1
    OBVIOUS
  <2>. QED  BY <1>3, <2>2, <2>3, <2>4, <2>5, <2>6
<1>. HIDE DEF E, left
<1>5. \A i \in DOMAIN left : i \in Nat /\ d + i \in DOMAIN list /\ left[i] = list[d + i]
  BY <1>4, <1>14
<1>6. \A k \in DOMAIN list : k > d => k - d \in DOMAIN left /\ d + (k - d) = k
  BY <1>4, <1>14
<1> DEFINE place == [i \in DOMAIN left |-> at[d + i]]
<1>7. /\ \A i \in DOMAIN left : place[i] = at[d + i]
      /\ \A k \in DOMAIN list : k > d => \E i \in DOMAIN left : place[i] = at[k]
      /\ place \in [DOMAIN left -> SentBy(L, ip)]
  BY <1>5, <1>6 DEF IsHistory, Lists
<1>. HIDE DEF place
<1>8. DOMAIN list \subseteq Nat /\ SentBy(L, ip) \subseteq Nat
  BY <1>14, LogElements DEF SentBy
<1>9. Fresh(left, t)
  BY <1>5 DEF Fresh
<1>10. Lists(left, place, ip, L)
  <2>1. \A i \in DOMAIN left : left[i] = [fp |-> L[place[i]].fp, ts |-> L[place[i]].at]
    BY <1>5, <1>7 DEF IsHistory, Lists
  <2>2. \A i, j \in DOMAIN left : i < j => place[i] < place[j]
    BY <1>5, <1>7 DEF IsHistory, Lists
  <2>3. ASSUME NEW i \in DOMAIN left, NEW m \in SentBy(L, ip), place[i] < m
        PROVE  \E j \in DOMAIN left : place[j] = m
    <3>1. PICK k \in DOMAIN list : at[k] = m
      BY <1>5, <1>7, <2>3 DEF IsHistory, Lists
    <3>2. k > d
      <4>. SUFFICES ASSUME k <= d PROVE FALSE
        BY <1>8
      <4>1. k < d + i
        BY <1>4, <1>8
      <4>2. at[k] < at[d + i]
        BY <1>5, <4>1 DEF IsHistory, Lists
      <4>3. at[k] \in Nat /\ at[d + i] \in Nat
        BY <1>5, <1>8 DEF IsHistory, Lists
      <4>. QED  BY <1>7, <2>3, <3>1, <4>2, <4>3
    <3>. QED  BY <1>7, <3>1, <3>2
  <2>. QED  BY <1>4, <1>7, <2>1, <2>2, <2>3 DEF Lists, E
<1>11. Misses(left, place, ip, L, t)
  <2>. SUFFICES ASSUME NEW m \in SentBy(L, ip), ~(t - L[m].at >= ttlMs),
                       ~\E j \in DOMAIN left : place[j] = m
                PROVE  Cardinality(Later(L, ip, m)) >= maxHistory
    BY DEF Misses
  <2>1. CASE ~\E k \in DOMAIN list : at[k] = m
    BY <2>1 DEF IsHistory, Misses
  <2>2. CASE \E k \in DOMAIN list : at[k] = m
    <3>1. PICK k \in DOMAIN list : at[k] = m
      BY <2>2
    <3>2. k <= d /\ d = N - maxHistory
      BY <1>2, <1>7, <1>8, <1>14, <3>1
    <3> DEFINE f == [i \in 1 .. maxHistory |-> at[d + i]]
    <3>3. ASSUME NEW i \in 1 .. maxHistory
          PROVE  d + i \in DOMAIN list /\ k < d + i /\ at[d + i] \in Later(L, ip, m)
      <4>1. d + i \in DOMAIN list /\ k < d + i
        BY <1>2, <1>3, <1>8, <1>14, <3>2
      <4>. QED  BY <3>1, <4>1 DEF Later, IsHistory, Lists
    <3>4. ASSUME NEW i \in 1 .. maxHistory, NEW j \in 1 .. maxHistory, at[d + i] = at[d + j]
          PROVE  i = j
      <4>1. d + i \in DOMAIN list /\ d + j \in DOMAIN list /\ at[d + i] \in Nat
        BY <1>8, <3>3 DEF Later
      <4>2. ~(d + i < d + j) /\ ~(d + j < d + i)
        BY <3>4, <4>1 DEF IsHistory, Lists
      <4>. QED  BY <4>2
    <3>5. f \in Injection(1 .. maxHistory, Later(L, ip, m))
      BY <3>3, <3>4 DEF Injection, IsInjective
    <3>6. IsFiniteSet(Later(L, ip, m)) /\ Cardinality(Later(L, ip, m)) \in Nat
      BY LaterFinite
    <3>7. Cardinality(1 .. maxHistory) <= Cardinality(Later(L, ip, m))
      <4>. HIDE DEF f
      <4>. QED  BY <3>5, <3>6, FS_Injection
    <3>8. Cardinality(1 .. maxHistory) = maxHistory
      BY FS_Interval
    <3>. QED  BY <3>6, <3>7, <3>8
  <2>. QED  BY <2>1, <2>2
<1>12. IsHistory(left, place, ip, L, t)
  BY <1>10, <1>11 DEF IsHistory
<1>13. Len(left) <= maxHistory /\ (list # <<>> => left # <<>>)
  <2>1. Len(left) <= maxHistory
    BY <1>2, <1>4
  <2>2. ASSUME list # <<>> PROVE left # <<>>
    <3>1. N # 0
      BY <1>0, <1>1, <2>2, EmptySeq
    <3>2. Len(left) # 0
      BY <1>2, <1>4, <3>1
    <3>. QED  BY <1>4, <3>2, EmptySeq
  <2>. QED  BY <2>1, <2>2
<1>. QED  BY <1>9, <1>12, <1>13 DEF left

\* The requests of its address that the n-th is charged for.
OwnTo(L, n)  == {m \in 1 .. n : L[m].ip = L[n].ip}
Charged(L, n) ==
  {m \in OwnTo(L, n) : /\ L[n].at - L[m].at < ttlMs
                       /\ Cardinality({k \in OwnTo(L, n) : k > m}) < maxHistory}
FpsOf(L, S)  == {L[m].fp : m \in S}
FpsIn(list)  == {list[i].fp : i \in DOMAIN list}

\* A list of none but fresh calls, and not too many, has what the last call is charged for.
LEMMA ListCharged ==
  ASSUME NEW L, NEW t, IsLog(L, t), NEW n, n = Len(L), n # 0, L[n].at = t,
         ttlMs \in Nat, maxHistory \in Nat \ {0},
         NEW list, NEW at, IsHistory(list, at, L[n].ip, L, t), Fresh(list, t),
         Len(list) <= maxHistory
  PROVE  FpsIn(list) = FpsOf(L, Charged(L, n))
<1> DEFINE ip == L[n].ip
<1>1. n \in Nat /\ DOMAIN L = 1 .. n
  BY LogElements
<1>2. /\ OwnTo(L, n) = SentBy(L, ip)
      /\ \A m : {k \in OwnTo(L, n) : k > m} = {k \in SentBy(L, ip) : k > m}
  BY <1>1 DEF OwnTo, SentBy
<1>3. \A m \in SentBy(L, ip) : {k \in OwnTo(L, n) : k > m} = Later(L, ip, m)
  BY <1>1, <1>2 DEF Later, SentBy
<1>4. Charged(L, n) = {m \in SentBy(L, ip) : t - L[m].at < ttlMs
                                             /\ Cardinality(Later(L, ip, m)) < maxHistory}
  <2>1. \A m \in SentBy(L, ip) :
          m \in Charged(L, n) <=> t - L[m].at < ttlMs /\ Cardinality(Later(L, ip, m)) < maxHistory
    BY <1>2, <1>3 DEF Charged
  <2>2. Charged(L, n) \subseteq SentBy(L, ip)
    BY <1>2 DEF Charged
  <2>. QED  BY <2>1, <2>2
<1>5. /\ DOMAIN list = 1 .. Len(list) /\ Len(list) \in Nat
      /\ \A i \in DOMAIN list : at[i] \in SentBy(L, ip) /\ list[i].fp = L[at[i]].fp
                                /\ t - L[at[i]].at < ttlMs
  BY LenProperties DEF IsHistory, Lists, Fresh
<1>6. SentBy(L, ip) \subseteq Nat
  BY <1>1 DEF SentBy
<1>7. ASSUME NEW i \in DOMAIN list PROVE at[i] \in Charged(L, n)
  <2> DEFINE S == {at[j] : j \in DOMAIN list}
             M == Later(L, ip, at[i])
             f == [j \in DOMAIN list |-> at[j]]
  <2>1. f \in Surjection(DOMAIN list, S) /\ IsFiniteSet(DOMAIN list)
        /\ Cardinality(DOMAIN list) <= maxHistory
    <3>1. IsFiniteSet(DOMAIN list) /\ Cardinality(DOMAIN list) <= maxHistory
      <4>1. PICK k \in Nat : k = Len(list)
        BY <1>5
      <4>2. DOMAIN list = 1 .. k /\ k <= maxHistory
        BY <1>5, <4>1
      <4>3. IsFiniteSet(1 .. k) /\ Cardinality(1 .. k) = k
        BY FirstNumbers
      <4>. QED  BY <4>2, <4>3, SMTT(30)
    <3>. QED  BY <3>1 DEF Surjection
  <2>2. IsFiniteSet(S) /\ Cardinality(S) <= Cardinality(DOMAIN list)
    <3>. HIDE DEF f, S
    <3>. QED  BY <2>1, FS_Surjection
  <2>3. M \in SUBSET S /\ at[i] \in S /\ at[i] \notin M
    BY <1>5, <1>6 DEF Later, IsHistory, Lists
  <2>4. IsFiniteSet(M) /\ Cardinality(M) \in Nat
    BY LaterFinite
  <2>. HIDE DEF S, M
  <2>5. Cardinality(M \cup {at[i]}) = Cardinality(M) + 1 /\ M \cup {at[i]} \in SUBSET S
    BY <2>3, <2>4, FS_AddElement
  <2>6. Cardinality(M \cup {at[i]}) <= Cardinality(S)
    BY <2>2, <2>5, FS_Subset
  <2>7. Cardinality(S) \in Nat /\ Cardinality(DOMAIN list) \in Nat
    BY <2>1, <2>2, FS_CardinalityType
  <2>8. Cardinality(M) < maxHistory
    BY <2>1, <2>2, <2>4, <2>5, <2>6, <2>7
  <2>. QED  BY <1>4, <1>5, <2>8 DEF M
<1>8. ASSUME NEW m \in Charged(L, n) PROVE \E i \in DOMAIN list : at[i] = m
  <2>1. m \in SentBy(L, ip) /\ t - L[m].at < ttlMs /\ Cardinality(Later(L, ip, m)) < maxHistory
    BY <1>4
  <2>2. Cardinality(Later(L, ip, m)) \in Nat /\ t - L[m].at \in Int
    <3>1. Cardinality(Later(L, ip, m)) \in Nat
      BY LaterFinite
    <3>2. t \in Nat /\ L[m].at \in 0 .. t
      BY <2>1 DEF IsLog, SentBy
    <3>. QED  BY <3>1, <3>2
  <2>. QED  BY <2>1, <2>2 DEF IsHistory, Misses
<1>. QED  BY <1>5, <1>7, <1>8 DEF FpsIn, FpsOf

\* The least of a finite set of numbers.
LEMMA LeastOf ==
  ASSUME NEW S \in SUBSET Int, IsFiniteSet(S), S # {}
  PROVE  \E i \in S : \A j \in S : i <= j
<1> DEFINE nth(i) == Cardinality({j \in S : j <= i})
<1>1. /\ Cardinality(S) \in Nat
      /\ \A i \in S : nth(i) \in 1 .. Cardinality(S)
      /\ \A i, k \in S : i < k => nth(i) < nth(k)
      /\ \A n \in 1 .. Cardinality(S) : \E i \in S : nth(i) = n
  BY Places
<1>. HIDE DEF nth
<1>2. Cardinality(S) # 0
  BY FS_EmptySet
<1>3. PICK i \in S : nth(i) = 1
  BY <1>1, <1>2
<1>4. \A j \in S : ~(j < i)
  BY <1>1, <1>3
<1>. QED  BY <1>4

-----------------------------------------------------------------------------
(* Fingerprints: the counts, unit by unit.                                 *)

Units(pop) == UNION {{fp} \X (1 .. pop[fp]) : fp \in DOMAIN pop}

LEMMA UnitOf ==
  ASSUME NEW pop, NEW fp, NEW k
  PROVE  <<fp, k>> \in Units(pop) <=> fp \in DOMAIN pop /\ k \in 1 .. pop[fp]
BY DEF Units

LEMMA UnitIs ==
  ASSUME NEW pop, NEW u \in Units(pop)
  PROVE  \E fp \in DOMAIN pop : \E k \in 1 .. pop[fp] : u = <<fp, k>>
<1>1. PICK fp \in DOMAIN pop : u \in {fp} \X (1 .. pop[fp])
  BY DEF Units
<1>2. PICK k \in 1 .. pop[fp] : u = <<fp, k>>
  BY <1>1
<1>. QED  BY <1>2

\* A fingerprint that is seen adds one.
LEMMA UnitAdded ==
  ASSUME NEW pop, NEW fp, NEW c, NEW new, \A f \in DOMAIN pop : pop[f] \in Nat,
         c = IF fp \in DOMAIN pop THEN pop[fp] ELSE 0,
         DOMAIN new = DOMAIN pop \cup {fp}, new[fp] = c + 1,
         \A f \in DOMAIN pop : f # fp => new[f] = pop[f],
         IsFiniteSet(Units(pop))
  PROVE  /\ IsFiniteSet(Units(new))
         /\ Cardinality(Units(new)) = Cardinality(Units(pop)) + 1
<1>1. c \in Nat
  OBVIOUS
<1>2. <<fp, c + 1>> \notin Units(pop)
  <2>. SUFFICES ASSUME <<fp, c + 1>> \in Units(pop) PROVE FALSE
    OBVIOUS
  <2>1. fp \in DOMAIN pop /\ c + 1 \in 1 .. pop[fp]
    BY UnitOf
  <2>. QED  BY <1>1, <2>1
<1>3. ASSUME NEW u \in Units(new) PROVE u \in Units(pop) \cup {<<fp, c + 1>>}
  <2>1x. PICK f \in DOMAIN new : \E k \in 1 .. new[f] : u = <<f, k>>
    BY UnitIs
  <2>1. PICK k \in 1 .. new[f] : u = <<f, k>>
    BY <2>1x
  <2>2. CASE f = fp
    <3>1. k = c + 1 \/ (fp \in DOMAIN pop /\ k \in 1 .. pop[fp])
      BY <1>1, <2>1, <2>2
    <3>. QED  BY <2>1, <2>2, <3>1, UnitOf
  <2>3. CASE f # fp
    BY <2>1, <2>3, UnitOf
  <2>. QED  BY <2>2, <2>3
<1>4. ASSUME NEW u \in Units(pop) PROVE u \in Units(new)
  <2>1x. PICK f \in DOMAIN pop : \E k \in 1 .. pop[f] : u = <<f, k>>
    BY UnitIs
  <2>1. PICK k \in 1 .. pop[f] : u = <<f, k>>
    BY <2>1x
  <2>2. f \in DOMAIN new /\ k \in 1 .. new[f]
    <3>1. CASE f = fp
      BY <1>1, <2>1, <3>1
    <3>2. CASE f # fp
      BY <2>1, <3>2
    <3>. QED  BY <3>1, <3>2
  <2>. QED  BY <2>1, <2>2, UnitOf
<1>5. <<fp, c + 1>> \in Units(new)
  <2>1. c + 1 \in 1 .. new[fp] /\ fp \in DOMAIN new
    BY <1>1
  <2>. QED  BY <2>1, UnitOf
<1>6. Units(new) = Units(pop) \cup {<<fp, c + 1>>}
  BY <1>3, <1>4, <1>5
<1>. QED  BY <1>2, <1>6, FS_AddElement

\* Halved and rounded down, they are at most half.
LEMMA UnitsHalved ==
  ASSUME NEW pop, NEW new, \A f \in DOMAIN pop : pop[f] \in Nat,
         DOMAIN new \subseteq DOMAIN pop, \A f \in DOMAIN new : new[f] = pop[f] \div 2,
         IsFiniteSet(Units(pop))
  PROVE  /\ IsFiniteSet(Units(new))
         /\ 2 * Cardinality(Units(new)) <= Cardinality(Units(pop))
<1> DEFINE U == Units(pop)
           V == Units(new)
<1>1. ASSUME NEW f \in DOMAIN new, NEW k \in 1 .. new[f]
      PROVE  /\ k \in Nat /\ f \in DOMAIN pop
             /\ k \in 1 .. pop[f] /\ 2 * k \in 1 .. pop[f] /\ 2 * k - 1 \in 1 .. pop[f]
  <2>1. PICK p \in Nat : p = pop[f] /\ new[f] = p \div 2
    OBVIOUS
  <2>2. k \in Nat /\ k >= 1 /\ k <= p \div 2
    BY <1>1, <2>1
  <2>3. 2 * k <= p
    BY <2>2
  <2>. QED  BY <2>1, <2>2, <2>3
<1>2. V \in SUBSET U
  <2>1. ASSUME NEW v \in V PROVE v \in U
    <3>1x. PICK f \in DOMAIN new : \E k \in 1 .. new[f] : v = <<f, k>>
      BY UnitIs
    <3>1. PICK k \in 1 .. new[f] : v = <<f, k>>
      BY <3>1x
    <3>. QED  BY <1>1, <3>1, UnitOf
  <2>. QED  BY <2>1
<1>3. IsFiniteSet(V) /\ Cardinality(V) \in Nat /\ Cardinality(U) \in Nat
  BY <1>2, FS_Subset, FS_CardinalityType
<1> DEFINE P == V \X {0, 1}
           g == [w \in P |-> <<w[1][1], 2 * w[1][2] - w[2]>>]
<1>4. ASSUME NEW w \in P
      PROVE  \E f \in DOMAIN new : \E k \in 1 .. new[f], b \in {0, 1} :
               w = <<<<f, k>>, b>> /\ k \in Nat /\ g[w] = <<f, 2 * k - b>>
  <2>1. PICK v \in V, b \in {0, 1} : w = <<v, b>>
    OBVIOUS
  <2>2x. PICK f \in DOMAIN new : \E k \in 1 .. new[f] : v = <<f, k>>
    BY UnitIs
  <2>2. PICK k \in 1 .. new[f] : v = <<f, k>>
    BY <2>2x
  <2>3. w[1] = v /\ w[2] = b /\ v[1] = f /\ v[2] = k
    BY <2>1, <2>2
  <2>. QED  BY <1>1, <2>1, <2>2, <2>3
<1>. HIDE DEF g, P
<1>5. ASSUME NEW w \in P PROVE g[w] \in U
  <2>1x. PICK f \in DOMAIN new : \E k \in 1 .. new[f], b \in {0, 1} : g[w] = <<f, 2 * k - b>>
    BY <1>4
  <2>1. PICK k \in 1 .. new[f], b \in {0, 1} : g[w] = <<f, 2 * k - b>>
    BY <2>1x
  <2>2. f \in DOMAIN pop /\ 2 * k - b \in 1 .. pop[f]
    <3>1. CASE b = 0
      BY <1>1, <3>1
    <3>2. CASE b = 1
      BY <1>1, <3>2
    <3>. QED  BY <3>1, <3>2
  <2>. QED  BY <2>1, <2>2, UnitOf
<1>6. ASSUME NEW w \in P, NEW x \in P, g[w] = g[x] PROVE w = x
  <2>1x. PICK f \in DOMAIN new : \E k \in 1 .. new[f], b \in {0, 1} :
           w = <<<<f, k>>, b>> /\ k \in Nat /\ g[w] = <<f, 2 * k - b>>
    BY <1>4
  <2>1. PICK k \in 1 .. new[f], b \in {0, 1} :
           w = <<<<f, k>>, b>> /\ k \in Nat /\ g[w] = <<f, 2 * k - b>>
    BY <2>1x
  <2>2x. PICK h \in DOMAIN new : \E l \in 1 .. new[h], d \in {0, 1} :
           x = <<<<h, l>>, d>> /\ l \in Nat /\ g[x] = <<h, 2 * l - d>>
    BY <1>4
  <2>2. PICK l \in 1 .. new[h], d \in {0, 1} :
           x = <<<<h, l>>, d>> /\ l \in Nat /\ g[x] = <<h, 2 * l - d>>
    BY <2>2x
  <2>3. f = h /\ 2 * k - b = 2 * l - d
    BY <1>6, <2>1, <2>2
  <2>4. k = l /\ b = d
    BY <2>1, <2>2, <2>3
  <2>. QED  BY <2>1, <2>2, <2>3, <2>4
<1>7. g \in Injection(P, U)
  <2>1. g \in [P -> U]
    BY <1>5 DEF g
  <2>. QED  BY <1>6, <2>1 DEF Injection, IsInjective
<1>8. Cardinality(P) <= Cardinality(U)
  BY <1>7, FS_Injection
<1>9. Cardinality(P) = 2 * Cardinality(V)
  <2>1. IsFiniteSet({0, 1}) /\ Cardinality({0, 1}) = 2
    <3>1. {1} = {} \cup {1} /\ {0, 1} = {1} \cup {0}
      OBVIOUS
    <3>2. IsFiniteSet({1}) /\ Cardinality({1}) = 1
      BY FS_Singleton
    <3>3. 0 \notin {1}
      OBVIOUS
    <3>4. IsFiniteSet({1} \cup {0}) /\ Cardinality({1} \cup {0}) = Cardinality({1}) + 1
      BY <3>2, <3>3, FS_AddElement
    <3>. QED  BY <3>1, <3>2, <3>4
  <2>2. Cardinality(P) = Cardinality(V) * Cardinality({0, 1})
    BY <1>3, <2>1, FS_Product DEF P
  <2>. QED  BY <1>3, <2>1, <2>2
<1>. QED  BY <1>3, <1>8, <1>9

-----------------------------------------------------------------------------
(* Fingerprints: what an address is charged for.                           *)

HistoryOf(H, ip) == IF ip \in DOMAIN H THEN H[ip] ELSE <<>>

Remembers(H, L, t) ==
  \A ip \in IPs \ {Unknown} : \E at : IsHistory(HistoryOf(H, ip), at, ip, L, t)

\* A list whose last call is now has it.
LEMMA LastKept ==
  ASSUME NEW L, NEW t, IsLog(L, t), NEW n, n = Len(L), n # 0, L[n].at = t,
         ttlMs \in Nat, ttlMs > 0, maxHistory \in Nat \ {0},
         NEW list, NEW at, IsHistory(list, at, L[n].ip, L, t)
  PROVE  DOMAIN list # {}
<1> DEFINE ip == L[n].ip
<1>1. n \in Nat /\ DOMAIN L = 1 .. n
  BY LogElements
<1>2. n \in SentBy(L, ip) /\ Later(L, ip, n) = {}
  BY <1>1 DEF SentBy, Later
<1>3. Cardinality(Later(L, ip, n)) = 0
  BY <1>2, FS_EmptySet
<1>4. ~(t - L[n].at >= ttlMs) /\ ~(0 >= maxHistory)
  BY DEF IsLog
<1>5. Misses(list, at, ip, L, t)
  BY DEF IsHistory
<1>. QED  BY <1>2, <1>3, <1>4, <1>5 DEF Misses

\* As many fingerprints as it has entries, at most, and one at least.
LEMMA FewPrints ==
  ASSUME NEW E, NEW list \in Seq(E), DOMAIN list # {}, Len(list) <= maxHistory, maxHistory \in Nat
  PROVE  Cardinality(FpsIn(list)) \in 1 .. maxHistory
<1>1. PICK k \in Nat : k = Len(list) /\ DOMAIN list = 1 .. k
  BY LenProperties
<1>2. IsFiniteSet(DOMAIN list) /\ Cardinality(DOMAIN list) = k
  BY <1>1, FirstNumbers
<1> DEFINE F == FpsIn(list)
           f == [i \in DOMAIN list |-> list[i].fp]
<1>3. f \in Surjection(DOMAIN list, F) /\ F # {}
  BY DEF FpsIn, Surjection
<1>. HIDE DEF F, f
<1>4. IsFiniteSet(F) /\ Cardinality(F) <= Cardinality(DOMAIN list)
  BY <1>2, <1>3, FS_Surjection
<1>5. Cardinality(F) \in Nat /\ Cardinality(F) # 0
  BY <1>3, <1>4, FS_CardinalityType, FS_EmptySet
<1>. QED  BY <1>1, <1>2, <1>4, <1>5 DEF F

LEMMA Quotient ==
  ASSUME NEW a \in Nat, NEW b \in Nat \ {0}, a >= b
  PROVE  a \div b \in Nat \ {0}
OBVIOUS

\* One fingerprint is no drift, and two are some.
LEMMA DriftScored ==
  ASSUME PrintsLimits, NEW list, NEW u \in 1 .. maxHistory, u = Cardinality(FpsIn(list))
  PROVE  Prints!DriftScore(list) \in Nat /\ (Prints!DriftScore(list) = 0 <=> u = 1)
<1>1. Prints!DriftScore(list) =
        IF u <= 1 THEN 0
        ELSE Prints!Least(50, (100 * (u - 1) + maxHistory - 1) \div (2 * (maxHistory - 1)))
  <2>1. Prints!Cardinality({list[i].fp : i \in DOMAIN list}) = u
    BY PrintsCardinality DEF FpsIn
  <2>. QED  BY <2>1 DEF Prints!DriftScore
<1>2. CASE u <= 1
  BY <1>1, <1>2 DEF PrintsLimits
<1>3. CASE ~(u <= 1)
  <2> DEFINE a == 100 * (u - 1) + maxHistory - 1
             b == 2 * (maxHistory - 1)
  <2>1. a \in Nat /\ b \in Nat \ {0} /\ a >= b
    BY <1>3 DEF PrintsLimits
  <2>. HIDE DEF a, b
  <2>2. a \div b \in Nat \ {0}
    BY <2>1, Quotient
  <2>3. Prints!DriftScore(list) = Prints!Least(50, a \div b)
    BY <1>1, <1>3 DEF a, b
  <2>4. PICK d \in Nat \ {0} : d = a \div b
    BY <2>2
  <2>5. Prints!DriftScore(list) \in Nat \ {0}
    BY <2>3, <2>4 DEF Prints!Least
  <2>. QED  BY <1>3, <2>5 DEF PrintsLimits
<1>. QED  BY <1>2, <1>3

\* What a request scores for its behaviour keeps to the cap.
LEMMA RarityTyped ==
  ASSUME Prints!PrintsAssumption, NEW fp
  PROVE  Prints!RarityScore(fp) \in Nat
<1> DEFINE below == {i \in DOMAIN RarityLevels :
                       Prints!Count(fp) * RarityLevels[i].den
                         < RarityLevels[i].num * totalSeen}
           least == CHOOSE i \in below : \A j \in below : i <= j
<1>1. DOMAIN RarityLevels = 1 .. Len(RarityLevels) /\ Len(RarityLevels) \in Nat
      /\ \A i \in DOMAIN RarityLevels : RarityLevels[i].score \in Nat
  <2>1. RarityLevels \in Seq([num : Nat, den : Nat, score : Nat])
    BY DEF Prints!PrintsAssumption
  <2>2. /\ DOMAIN RarityLevels = 1 .. Len(RarityLevels) /\ Len(RarityLevels) \in Nat
        /\ \A i \in 1 .. Len(RarityLevels) : RarityLevels[i] \in [num : Nat, den : Nat, score : Nat]
    BY <2>1, LenProperties, ElementOfSeq
  <2>. QED  BY <2>2
<1>2. below \in SUBSET Int /\ IsFiniteSet(below) /\ below \in SUBSET DOMAIN RarityLevels
  <2>1. IsFiniteSet(DOMAIN RarityLevels)
    BY <1>1, FirstNumbers
  <2>2. below \in SUBSET DOMAIN RarityLevels
    OBVIOUS
  <2>. HIDE DEF below
  <2>. QED  BY <1>1, <2>1, <2>2, FS_Subset
<1>3. Prints!RarityScore(fp) = IF totalSeen < coldStart \/ below = {} THEN 0
                               ELSE RarityLevels[least].score
  BY DEF Prints!RarityScore
<1>4. below # {} => least \in below
  <2>. HIDE DEF below
  <2>1. below # {} => \E i \in below : \A j \in below : i <= j
    BY <1>2, LeastOf
  <2>. QED  BY <2>1
<1>. HIDE DEF below, least
<1>5. CASE totalSeen < coldStart \/ below = {}
  BY <1>3, <1>5
<1>6. CASE ~(totalSeen < coldStart \/ below = {})
  BY <1>1, <1>2, <1>3, <1>4, <1>6
<1>. QED  BY <1>5, <1>6

LEMMA Lesser ==
  ASSUME NEW a \in Nat, NEW b \in Nat
  PROVE  Prints!Least(a, b) \in 0 .. a
BY DEF Prints!Least

LEMMA BehaviouralTyped ==
  ASSUME Prints!PrintsAssumption, NEW d \in Nat, NEW fp, NEW q
  PROVE  Prints!Least(caps.behavioral,
           Prints!Least(caps.behavioral, d + Prints!RarityScore(fp)) + Prints!EntropyScore(q))
           \in 0 .. caps.behavioral
<1>1. caps.behavioral \in Nat /\ Prints!RarityScore(fp) \in Nat
  BY RarityTyped, Limits DEF PrintsLimits
<1>2. Prints!EntropyScore(q) \in Nat
  BY DEF Prints!EntropyScore
<1>3. PICK c \in Nat : c = caps.behavioral
  BY <1>1
<1>4. PICK r \in Nat : r = Prints!RarityScore(fp)
  BY <1>1
<1>5. PICK e \in Nat : e = Prints!EntropyScore(q)
  BY <1>2
<1>6. PICK l \in Nat : l = Prints!Least(c, d + r)
  <2>1. d + r \in Nat
    OBVIOUS
  <2>. QED  BY <2>1, Lesser
<1>7. Prints!Least(c, l + e) \in 0 .. c
  BY Lesser
<1>. QED  BY <1>3, <1>4, <1>5, <1>6, <1>7

Kept(list, e) ==
  LET new == Append(list, [fp |-> e.fp, ts |-> e.at]) IN Last(Without(new, Old(new, e.at)))

HasCharged(list, ip, L, t) ==
  /\ \E at : IsHistory(list, at, ip, L, t)
  /\ Len(list) \in 1 .. maxHistory
  /\ Cardinality(FpsIn(list)) \in 1 .. maxHistory
  /\ FpsIn(list) = FpsOf(L, Charged(L, Len(L)))

\* The list of an address after its call has what the call is charged for.
LEMMA KeptExact ==
  ASSUME PrintsLimits, NEW L, NEW t, IsLog(L, t), NEW H, Remembers(H, L, t),
         NEW e, e.at = t, e.ip \in IPs \ {Unknown},
         NEW L2, L2 = Append(L, e)
  PROVE  HasCharged(Kept(HistoryOf(H, e.ip), e), e.ip, L2, t)
<1> DEFINE ip   == e.ip
           n    == Len(L2)
           new  == Append(HistoryOf(H, ip), [fp |-> e.fp, ts |-> e.at])
           left == Without(new, Old(new, t))
           list == Last(left)
<1>1. IsLog(L2, t) /\ Logged(L, e, L2)
  BY LogAppended
<1>2. n = Len(L2) /\ n # 0 /\ L2[n] = e
  BY <1>1, LogElements DEF Logged
<1>3. PICK at1 : IsHistory(HistoryOf(H, ip), at1, ip, L, t)
  BY DEF Remembers
<1>4. maxHistory \in Nat \ {0} /\ maxHistory \in Nat /\ ttlMs \in Nat /\ ttlMs > 0
  BY DEF PrintsLimits
<1>5. PICK at2 : IsHistory(new, at2, ip, L2, t)
  BY <1>1, <1>3, <1>4, ListOfOwn
<1>. HIDE DEF new
<1>6. PICK at3 : Fresh(left, t) /\ IsHistory(left, at3, ip, L2, t)
  BY <1>1, <1>4, <1>5, ListFresh
<1>. HIDE DEF left
<1>7. PICK at4 : Fresh(list, t) /\ Len(list) <= maxHistory /\ IsHistory(list, at4, ip, L2, t)
  BY <1>1, <1>4, <1>6, ListTrimmed
<1>. HIDE DEF list
<1>8. list \in Seq(Entries(L2)) /\ DOMAIN list # {}
  <2>1. list \in Seq(Entries(L2))
    BY <1>7 DEF IsHistory, Lists
  <2>2. n = Len(L2) /\ n # 0 /\ L2[n].ip = ip /\ L2[n].at = t
    BY <1>2
  <2>. HIDE DEF n
  <2>3. IsHistory(list, at4, L2[n].ip, L2, t)
    BY <1>7, <2>2
  <2>4. DOMAIN list # {}
    BY <1>1, <1>4, <2>2, <2>3, LastKept
  <2>. QED  BY <2>1, <2>4
<1>9. Len(list) \in 1 .. maxHistory
  <2>1. DOMAIN list = 1 .. Len(list) /\ Len(list) \in Nat
    BY <1>8, LenProperties
  <2>. QED  BY <1>4, <1>7, <1>8, <2>1
<1>10. Cardinality(FpsIn(list)) \in 1 .. maxHistory
  BY <1>4, <1>7, <1>8, FewPrints
<1>11. FpsIn(list) = FpsOf(L2, Charged(L2, n))
  <2>1. L2[n].ip = ip /\ L2[n].at = t
    BY <1>2
  <2>. HIDE DEF n
  <2>. QED  BY <1>1, <1>2, <1>4, <1>7, <2>1, ListCharged
<1>12. list = Kept(HistoryOf(H, ip), e)
  BY DEF list, left, new, Kept
<1>. QED  BY <1>7, <1>9, <1>10, <1>11, <1>12 DEF HasCharged

\* What the calls before it were charged for is as it was.
LEMMA ChargedStays ==
  ASSUME NEW L, NEW t, IsLog(L, t), NEW e, NEW L2, Logged(L, e, L2), NEW n \in DOMAIN L
  PROVE  L2[n] = L[n] /\ FpsOf(L2, Charged(L2, n)) = FpsOf(L, Charged(L, n))
<1>1. DOMAIN L = 1 .. Len(L) /\ Len(L) \in Nat
  BY LogElements
<1>2. 1 .. n \subseteq DOMAIN L /\ n \in 1 .. n
  BY <1>1
<1>3. \A m \in 1 .. n : L2[m] = L[m]
  BY <1>2 DEF Logged
<1>4. OwnTo(L2, n) = OwnTo(L, n) /\ OwnTo(L, n) \subseteq 1 .. n
  BY <1>2, <1>3 DEF OwnTo
<1>5. Charged(L2, n) = Charged(L, n) /\ Charged(L, n) \subseteq 1 .. n
  BY <1>2, <1>3, <1>4 DEF Charged
<1>. QED  BY <1>2, <1>3, <1>5 DEF FpsOf

DriftsExact(L) ==
  \A n \in DOMAIN L :
    L[n].ip # Unknown => (L[n].drift = 0 <=> Cardinality(FpsOf(L, Charged(L, n))) = 1)

Tally(L) == [fp \in {L[n].fp : n \in DOMAIN L} |-> Cardinality({n \in DOMAIN L : L[n].fp = fp})]

Times(pop, fp) == IF fp \in DOMAIN pop THEN pop[fp] ELSE 0

\* One call more is one of its fingerprint more.
LEMMA Tallied ==
  ASSUME NEW L, NEW t, IsLog(L, t), NEW e, NEW L2, Logged(L, e, L2)
  PROVE  Tally(L2) = Put(Tally(L), e.fp, Times(Tally(L), e.fp) + 1)
<1> DEFINE l      == Len(L) + 1
           of(f)  == {n \in DOMAIN L : L[n].fp = f}
           of2(f) == {n \in DOMAIN L2 : L2[n].fp = f}
<1>1. /\ DOMAIN L2 = DOMAIN L \cup {l} /\ l \notin DOMAIN L /\ L2[l] = e
      /\ \A m \in DOMAIN L : L2[m] = L[m]
      /\ IsFiniteSet(DOMAIN L)
  BY LogElements DEF Logged
<1>. HIDE DEF l
<1>2. DOMAIN Tally(L2) = DOMAIN Tally(L) \cup {e.fp}
  BY <1>1 DEF Tally
<1>3. \A f : f # e.fp => of2(f) = of(f)
  BY <1>1
<1>4. of2(e.fp) = of(e.fp) \cup {l} /\ l \notin of(e.fp)
  BY <1>1
<1>5. IsFiniteSet(of(e.fp))
  <2>1. of(e.fp) \in SUBSET DOMAIN L
    OBVIOUS
  <2>. HIDE DEF of
  <2>. QED  BY <1>1, <2>1, FS_Subset
<1>6. Cardinality(of2(e.fp)) = Cardinality(of(e.fp)) + 1
  <2>. HIDE DEF of, of2
  <2>. QED  BY <1>4, <1>5, FS_AddElement
<1>7. Cardinality(of(e.fp)) = Times(Tally(L), e.fp)
  <2>1. CASE e.fp \in DOMAIN Tally(L)
    BY <2>1 DEF Tally, Times
  <2>2. CASE e.fp \notin DOMAIN Tally(L)
    <3>1. of(e.fp) = {}
      BY <2>2 DEF Tally
    <3>2. Cardinality(of(e.fp)) = 0
      <4>. HIDE DEF of
      <4>. QED  BY <3>1, FS_EmptySet
    <3>. QED  BY <2>2, <3>2 DEF Times
  <2>. QED  BY <2>1, <2>2
<1>8. \A f \in DOMAIN Tally(L2) : Tally(L2)[f] = Cardinality(of2(f))
  BY DEF Tally
<1>9. \A f \in DOMAIN Tally(L) : Tally(L)[f] = Cardinality(of(f))
  BY DEF Tally
<1>10. ASSUME NEW f \in DOMAIN Tally(L2)
       PROVE  Tally(L2)[f] = IF f = e.fp THEN Times(Tally(L), e.fp) + 1 ELSE Tally(L)[f]
  <2>1. CASE f = e.fp
    <3>. HIDE DEF of, of2
    <3>. QED  BY <1>6, <1>7, <1>8, <2>1
  <2>2. CASE f # e.fp
    <3>1. of2(f) = of(f) /\ f \in DOMAIN Tally(L)
      BY <1>2, <1>3, <2>2
    <3>. HIDE DEF of, of2
    <3>. QED  BY <1>8, <1>9, <2>2, <3>1
  <2>. QED  BY <2>1, <2>2
<1>11. Tally(L2) = [f \in DOMAIN Tally(L2) |-> Tally(L2)[f]]
  BY DEF Tally
<1>. HIDE DEF of, of2
<1>. QED  BY <1>2, <1>10, <1>11 DEF Put

-----------------------------------------------------------------------------
(* Fingerprints: the invariant.                                            *)

PrintTypes ==
  /\ now \in 0 .. MaxTime /\ totalSeen \in Nat /\ lastDecayAt \in Int /\ lastDecayAt <= now
  /\ DOMAIN history \subseteq IPs \ {Unknown}
  /\ \A ip \in DOMAIN history : Len(history[ip]) \in 1 .. maxHistory
  /\ \A fp \in DOMAIN popularity : popularity[fp] \in Nat \ {0}
  /\ \A n \in DOMAIN log : log[n].behavioral \in 0 .. caps.behavioral

\* Of the counts P with the total s since a decay at d, and the log L.
Accounts(P, s, d, L) ==
  /\ IsFiniteSet(Units(P)) /\ Cardinality(Units(P)) <= s
  /\ d < 0 => s = Len(L) /\ P = Tally(L)

PrintsInv ==
  /\ PrintTypes
  /\ IsLog(log, now)
  /\ Accounts(popularity, totalSeen, lastDecayAt, log)
  /\ Remembers(history, log, now)
  /\ DriftsExact(log)

LEMMA PrintsInvHolds ==
  ASSUME PrintsInv
  PROVE  Prints!TypeOK /\ Prints!FingerprintsExact
<1>1. Prints!TypeOK
  BY DEF PrintsInv, PrintTypes, Prints!TypeOK
<1>2. Prints!Counts = Units(popularity)
  BY DEF Prints!Counts, Units
<1>3. Prints!Cardinality(Prints!Counts) <= totalSeen
  BY <1>2, PrintsCardinality DEF PrintsInv, Accounts
<1>4. lastDecayAt < 0 =>
        /\ totalSeen = Len(log)
        /\ popularity = [fp \in {log[n].fp : n \in DOMAIN log} |->
                           Prints!Cardinality({n \in DOMAIN log : log[n].fp = fp})]
  BY PrintsCardinality DEF PrintsInv, Accounts, Tally
<1>5. ASSUME NEW n \in {n \in DOMAIN log : log[n].ip # Unknown}
      PROVE  LET own    == {m \in 1 .. n : log[m].ip = log[n].ip}
                 window == {m \in own : /\ log[n].at - log[m].at < ttlMs
                                        /\ Prints!Cardinality({k \in own : k > m}) < maxHistory}
                 unique == Prints!Cardinality({log[m].fp : m \in window})
             IN  (log[n].drift = 0) <=> (unique = 1)
  <2> DEFINE own    == {m \in 1 .. n : log[m].ip = log[n].ip}
             window == {m \in own : /\ log[n].at - log[m].at < ttlMs
                                    /\ Prints!Cardinality({k \in own : k > m}) < maxHistory}
  <2>1. own = OwnTo(log, n)
    BY DEF OwnTo
  <2>2. window = Charged(log, n)
    <3>. HIDE DEF own
    <3>. QED  BY <2>1, PrintsCardinality DEF Charged
  <2>. HIDE DEF window
  <2>3. Prints!Cardinality({log[m].fp : m \in window}) = Cardinality(FpsOf(log, Charged(log, n)))
    BY <2>2, PrintsCardinality DEF FpsOf
  <2>4. (log[n].drift = 0) <=> (Cardinality(FpsOf(log, Charged(log, n))) = 1)
    BY DEF PrintsInv, DriftsExact
  <2>. QED  BY <2>3, <2>4 DEF window
<1>. QED  BY <1>1, <1>3, <1>4, <1>5, Zenon DEF Prints!FingerprintsExact

LEMMA PrintsInit ==
  ASSUME Prints!PrintsAssumption, Prints!Init
  PROVE  PrintsInv
<1>1. /\ now = 0 /\ log = <<>> /\ totalSeen = 0 /\ lastDecayAt = -ONE_HOUR - 1
      /\ DOMAIN history = {} /\ popularity = [x \in {} |-> x] /\ DOMAIN log = {} /\ Len(log) = 0
  BY DEF Prints!Init, Prints!Empty
<1>2. PrintTypes
  BY <1>1, Limits DEF PrintsLimits, PrintTypes
<1>3. IsLog(log, now)
  <2>1. log \in Seq({})
    BY <1>1
  <2>. QED  BY <1>1, <2>1 DEF IsLog
<1>4. Accounts(popularity, totalSeen, lastDecayAt, log)
  <2>1. Units(popularity) = {}
    BY <1>1 DEF Units
  <2>2. popularity = Tally(log)
    BY <1>1 DEF Tally
  <2>. QED  BY <1>1, <2>1, <2>2, FS_EmptySet DEF Accounts
<1>5. ASSUME NEW ip
      PROVE  IsHistory(HistoryOf(history, ip), <<>>, ip, log, now)
  <2>1. HistoryOf(history, ip) = <<>> /\ SentBy(log, ip) = {}
    BY <1>1 DEF HistoryOf, SentBy
  <2>. QED  BY <2>1 DEF IsHistory, Lists, Misses
<1>6. Remembers(history, log, now)
  BY <1>5 DEF Remembers
<1>7. DriftsExact(log)
  BY <1>1 DEF DriftsExact
<1>. QED  BY <1>2, <1>3, <1>4, <1>6, <1>7 DEF PrintsInv

\* The list without what is out of the window.
LEMMA PrintsWithout == \A s, S : Prints!Without(s, S) = Without(s, S)
BY DEF Prints!Without, Without, Prints!Cardinality, Cardinality

LEMMA WithinIs ==
  ASSUME NEW list
  PROVE  Prints!Within(list) = Without(list, Old(list, now))
<1>1. {h \in Prints!Range(list) : now - h.ts >= ttlMs} = Old(list, now)
  BY DEF Old, Prints!Range
<1>. QED  BY <1>1, PrintsWithout DEF Prints!Within

LEMMA TrackedIs ==
  ASSUME NEW ip, NEW e, e.at = now
  PROVE  Prints!Tracked(ip, e.fp) = Kept(HistoryOf(history, ip), e)
<1> DEFINE new == Append(HistoryOf(history, ip), [fp |-> e.fp, ts |-> now])
<1>1. Prints!Within(new) = Without(new, Old(new, now))
  BY WithinIs
<1>2. Prints!Tracked(ip, e.fp) =
        SubSeq(Prints!Within(new),
          IF Len(Prints!Within(new)) > maxHistory THEN Len(Prints!Within(new)) - maxHistory + 1
          ELSE 1, Len(Prints!Within(new)))
  BY DEF Prints!Tracked, HistoryOf
<1>3. Prints!Tracked(ip, e.fp) = Last(Without(new, Old(new, now)))
  <2>. HIDE DEF new
  <2>. QED  BY <1>1, <1>2 DEF Last
<1>. QED  BY <1>3 DEF Kept

LEMMA PrintsPut == \A f, k, v : Prints!Put(f, k, v) = Put(f, k, v)
BY DEF Prints!Put, Put

\* What a call leaves is remembered.
LEMMA RemembersCall ==
  ASSUME PrintsLimits, NEW L, NEW t, IsLog(L, t), NEW H, Remembers(H, L, t),
         NEW e, e.at = t, e.ip \in IPs \cup {Unknown}, NEW L2, L2 = Append(L, e),
         NEW H2, H2 = IF e.ip = Unknown THEN H ELSE Put(H, e.ip, Kept(HistoryOf(H, e.ip), e))
  PROVE  Remembers(H2, L2, t)
<1>1. Logged(L, e, L2)
  BY LogAppended
<1>. SUFFICES ASSUME NEW ip \in IPs \ {Unknown}
              PROVE  \E at : IsHistory(HistoryOf(H2, ip), at, ip, L2, t)
  BY DEF Remembers
<1>2. CASE ip = e.ip
  <2>1. HistoryOf(H2, ip) = Kept(HistoryOf(H, ip), e)
    BY <1>2 DEF HistoryOf, Put
  <2>2. e.ip \in IPs \ {Unknown}
    BY <1>2
  <2>3. HasCharged(Kept(HistoryOf(H, e.ip), e), e.ip, L2, t)
    BY <2>2, KeptExact
  <2>. QED  BY <1>2, <2>1, <2>3 DEF HasCharged
<1>3. CASE ip # e.ip
  <2>1. HistoryOf(H2, ip) = HistoryOf(H, ip)
    BY <1>3 DEF HistoryOf, Put
  <2>2. PICK at : IsHistory(HistoryOf(H, ip), at, ip, L, t)
    BY DEF Remembers
  <2>3. IsHistory(HistoryOf(H, ip), at, ip, L2, t)
    BY <1>1, <1>3, <2>2, ListOfOther
  <2>. QED  BY <2>1, <2>3
<1>. QED  BY <1>2, <1>3

\* The drift of a call is 0 exactly when it is charged for one fingerprint.
LEMMA DriftsCall ==
  ASSUME PrintsLimits, NEW L, NEW t, IsLog(L, t), NEW H, Remembers(H, L, t),
         DriftsExact(L), NEW e, e.at = t, e.ip \in IPs \cup {Unknown},
         NEW L2, L2 = Append(L, e),
         e.ip # Unknown => e.drift = Prints!DriftScore(Kept(HistoryOf(H, e.ip), e))
  PROVE  DriftsExact(L2)
<1>1. Logged(L, e, L2)
  BY LogAppended
<1>. SUFFICES ASSUME NEW n \in DOMAIN L2, L2[n].ip # Unknown
              PROVE  L2[n].drift = 0 <=> Cardinality(FpsOf(L2, Charged(L2, n))) = 1
  BY DEF DriftsExact
<1>2. CASE n \in DOMAIN L
  BY <1>1, <1>2, ChargedStays DEF DriftsExact
<1>3. CASE n \notin DOMAIN L
  <2>1. n = Len(L2) /\ L2[n] = e
    BY <1>1, <1>3, LogElements DEF Logged
  <2>2. e.ip \in IPs \ {Unknown}
    BY <2>1
  <2> DEFINE list == Kept(HistoryOf(H, e.ip), e)
  <2>3. HasCharged(list, e.ip, L2, t)
    BY <2>2, KeptExact
  <2>4. /\ Cardinality(FpsIn(list)) \in 1 .. maxHistory
        /\ FpsIn(list) = FpsOf(L2, Charged(L2, Len(L2)))
    BY <2>3 DEF HasCharged
  <2>5. e.drift = Prints!DriftScore(list)
    BY <2>2
  <2>. HIDE DEF list
  <2>6. e.drift = 0 <=> Cardinality(FpsIn(list)) = 1
    BY <2>4, <2>5, DriftScored
  <2>. QED  BY <2>1, <2>4, <2>6
<1>. QED  BY <1>2, <1>3

\* The counts are of what was counted.
LEMMA AccountsCall ==
  ASSUME NEW L, NEW t, IsLog(L, t), NEW e, NEW L2, Logged(L, e, L2),
         NEW P, NEW s \in Nat, NEW d, Accounts(P, s, d, L), \A f \in DOMAIN P : P[f] \in Nat,
         NEW P2, P2 = Put(P, e.fp, Times(P, e.fp) + 1)
  PROVE  Accounts(P2, s + 1, d, L2)
<1>1. /\ IsFiniteSet(Units(P2)) /\ Cardinality(Units(P2)) = Cardinality(Units(P)) + 1
      /\ Cardinality(Units(P)) \in Nat
  <2>1. PICK c : c = IF e.fp \in DOMAIN P THEN P[e.fp] ELSE 0
    OBVIOUS
  <2>2. DOMAIN P2 = DOMAIN P \cup {e.fp} /\ P2[e.fp] = c + 1
        /\ \A f \in DOMAIN P : f # e.fp => P2[f] = P[f]
    BY <2>1 DEF Put, Times
  <2>. QED  BY <2>1, <2>2, UnitAdded, FS_CardinalityType DEF Accounts
<1>2. ASSUME d < 0 PROVE P2 = Tally(L2) /\ s + 1 = Len(L2)
  <2>1. P = Tally(L) /\ s = Len(L)
    BY <1>2 DEF Accounts
  <2>2. Tally(L2) = Put(Tally(L), e.fp, Times(Tally(L), e.fp) + 1)
    BY Tallied
  <2>. QED  BY <2>1, <2>2 DEF Logged
<1>. QED  BY <1>1, <1>2 DEF Accounts

\* A call of an address that is kept has been charged.
LEMMA AnalyzeKeeps ==
  ASSUME Prints!PrintsAssumption, PrintsInv, NEW q \in Hellos, Prints!AnalyzeRequest(q)
  PROVE  PrintsInv'
<1> DEFINE fp0  == Ja4l[Prints!Ja3Of(q)]
           list0 == Prints!Tracked(q.ip, fp0)
           d0   == IF q.ip = Unknown THEN 0 ELSE Prints!DriftScore(list0)
           b0   == Prints!Least(caps.behavioral,
                     Prints!Least(caps.behavioral, d0 + Prints!RarityScore(fp0))
                       + Prints!EntropyScore(q))
           sum  == Prints!Least(q.structure, caps.structure) + (IF q.greaseGap THEN 25 ELSE 0)
                     + Prints!Least(q.consistency, caps.consistency) + b0
           all  == ((IF q.hosting THEN 14 ELSE 10) * sum + 5) \div 10
           e0   == [ip |-> q.ip, fp |-> fp0, at |-> now, drift |-> d0,
                    rarity |-> Prints!RarityScore(fp0), behavioral |-> b0,
                    total |-> all, class |-> Prints!Classify(all)]
<1>5. log' = Append(log, e0)
  BY Zenon DEF Prints!AnalyzeRequest
<1>0. e0.ip = q.ip /\ e0.fp = fp0 /\ e0.at = now /\ e0.drift = d0 /\ e0.behavioral = b0
  <2>. HIDE DEF all, b0, d0, fp0
  <2>. QED  OBVIOUS
<1>. HIDE DEF e0
<1>1. PICK fp : fp = fp0
  OBVIOUS
<1>2. PICK list : list = list0 /\ list = Prints!Tracked(q.ip, fp)
  BY <1>1
<1>3. PICK d : d = d0 /\ d = IF q.ip = Unknown THEN 0 ELSE Prints!DriftScore(list)
  BY <1>2
<1>4. PICK b : b = b0 /\ b = Prints!Least(caps.behavioral,
                               Prints!Least(caps.behavioral, d + Prints!RarityScore(fp))
                                 + Prints!EntropyScore(q))
  BY <1>1, <1>3
<1>. HIDE DEF b0, d0, list0
<1>6. PICK e : /\ log' = Append(log, e)
               /\ e.ip = q.ip /\ e.fp = fp /\ e.at = now /\ e.drift = d /\ e.behavioral = b
  <2>. HIDE DEF fp0
  <2>. QED  BY <1>0, <1>1, <1>2, <1>3, <1>4, <1>5
<1>7. /\ totalSeen' = totalSeen + 1 /\ now' = now /\ lastDecayAt' = lastDecayAt
      /\ popularity' = Prints!Put(popularity, fp, Prints!Count(fp) + 1)
      /\ history' = IF q.ip = Unknown THEN history ELSE Prints!Put(history, q.ip, list)
  BY <1>1, <1>2 DEF Prints!AnalyzeRequest
<1>8. popularity' = Put(popularity, fp, Times(popularity, fp) + 1)
  BY <1>7, PrintsPut DEF Times, Prints!Count
<1>9. list = Kept(HistoryOf(history, e.ip), e)
  BY <1>2, <1>6, TrackedIs
<1>10. history' = IF e.ip = Unknown THEN history
                  ELSE Put(history, e.ip, Kept(HistoryOf(history, e.ip), e))
  BY <1>6, <1>7, <1>9, PrintsPut
<1>11. e.ip \in IPs \cup {Unknown}
  BY <1>6 DEF Prints!PrintsAssumption
<1>12. PrintsLimits /\ IsLog(log, now) /\ Remembers(history, log, now) /\ DriftsExact(log)
       /\ Accounts(popularity, totalSeen, lastDecayAt, log)
  BY Limits DEF PrintsInv
<1>13. IsLog(log', now) /\ Logged(log, e, log')
  BY <1>6, <1>12, LogAppended
<1>14. Remembers(history', log', now)
  BY <1>6, <1>10, <1>11, <1>12, RemembersCall
<1>15. DriftsExact(log')
  <2>1. e.ip # Unknown => e.drift = Prints!DriftScore(Kept(HistoryOf(history, e.ip), e))
    BY <1>3, <1>6, <1>9
  <2>. QED  BY <1>6, <1>11, <1>12, <2>1, DriftsCall
<1>16. Accounts(popularity', totalSeen', lastDecayAt', log')
  <2>1. totalSeen \in Nat /\ \A f \in DOMAIN popularity : popularity[f] \in Nat
    BY DEF PrintsInv, PrintTypes
  <2>2. popularity' = Put(popularity, e.fp, Times(popularity, e.fp) + 1)
    BY <1>6, <1>8
  <2>. QED  BY <1>7, <1>12, <1>13, <2>1, <2>2, AccountsCall
<1>17. e.ip # Unknown => HasCharged(list, e.ip, log', now)
  BY <1>6, <1>9, <1>11, <1>12, KeptExact
<1>18. PrintTypes'
  <2>1. now' \in 0 .. MaxTime /\ totalSeen' \in Nat /\ lastDecayAt' \in Int /\ lastDecayAt' <= now'
    BY <1>7 DEF PrintsInv, PrintTypes
  <2>2. /\ DOMAIN history' \subseteq IPs \ {Unknown}
        /\ \A ip \in DOMAIN history' : Len(history'[ip]) \in 1 .. maxHistory
    BY <1>9, <1>10, <1>11, <1>17 DEF PrintsInv, PrintTypes, Put, HasCharged
  <2>3. \A f \in DOMAIN popularity' : popularity'[f] \in Nat \ {0}
    BY <1>8 DEF PrintsInv, PrintTypes, Put, Times
  <2>4. \A n \in DOMAIN log' : log'[n].behavioral \in 0 .. caps.behavioral
    <3>1. b \in 0 .. caps.behavioral
      <4>1. d \in Nat
        <5>1. CASE e.ip = Unknown
          BY <1>3, <1>6, <5>1
        <5>2. CASE e.ip # Unknown
          <6>1. Cardinality(FpsIn(list)) \in 1 .. maxHistory
            BY <1>17, <5>2 DEF HasCharged
          <6>2. Prints!DriftScore(list) \in Nat
            BY <1>12, <6>1, DriftScored
          <6>. QED  BY <1>3, <1>6, <5>2, <6>2
        <5>. QED  BY <5>1, <5>2
      <4>. QED  BY <1>4, <4>1, BehaviouralTyped
    <3>2. \A n \in DOMAIN log' : (n \in DOMAIN log /\ log'[n] = log[n]) \/ log'[n] = e
      BY <1>13 DEF Logged
    <3>. QED  BY <1>6, <3>1, <3>2 DEF PrintsInv, PrintTypes
  <2>. QED  BY <2>1, <2>2, <2>3, <2>4 DEF PrintTypes
<1>. QED  BY <1>7, <1>13, <1>14, <1>15, <1>16, <1>18 DEF PrintsInv

\* No list is longer for what goes.
LEMMA WithoutShorter ==
  ASSUME NEW E, NEW s \in Seq(E), NEW S
  PROVE  /\ Len(Without(s, S)) \in Nat /\ Len(Without(s, S)) <= Len(s)
         /\ Without(s, S) # <<>> => Len(Without(s, S)) # 0
<1> DEFINE rest == Without(s, S)
<1>1. PICK p : rest \in Seq(E \ S) /\ IsRest(rest, p, s, Remaining(s, S))
  BY WithoutPlaces
<1>. HIDE DEF rest
<1>2. PICK k \in Nat : k = Len(rest) /\ DOMAIN rest = 1 .. k
  BY <1>1, LenProperties
<1>3. PICK n \in Nat : n = Len(s) /\ DOMAIN s = 1 .. n
  BY LenProperties
<1>4. p \in Injection(1 .. k, 1 .. n)
  BY <1>1, <1>2, <1>3 DEF IsRest, Remaining, Bijection, Injection, IsInjective
<1>5. Cardinality(1 .. k) <= Cardinality(1 .. n)
  BY <1>3, <1>4, FirstNumbers, FS_Injection
<1>6. k <= n
  BY <1>5, FirstNumbers
<1>7. rest # <<>> => k # 0
  BY <1>1, <1>2, EmptySeq
<1>. QED  BY <1>2, <1>3, <1>6, <1>7 DEF rest

\* Of any address, the cleanup leaves what is still in the window.
LEMMA RemembersCleanup ==
  ASSUME PrintsLimits, NEW L, NEW t, IsLog(L, t), NEW H, Remembers(H, L, t),
         NEW H2, DOMAIN H2 = {ip \in DOMAIN H : Without(H[ip], Old(H[ip], t)) # <<>>},
         \A ip \in DOMAIN H2 : H2[ip] = Without(H[ip], Old(H[ip], t))
  PROVE  Remembers(H2, L, t)
<1>. SUFFICES ASSUME NEW ip \in IPs \ {Unknown}
              PROVE  \E at : IsHistory(HistoryOf(H2, ip), at, ip, L, t)
  BY DEF Remembers
<1>1. PICK at : IsHistory(HistoryOf(H, ip), at, ip, L, t)
  BY DEF Remembers
<1>2. CASE ip \in DOMAIN H
  <2>1. HistoryOf(H2, ip) = Without(H[ip], Old(H[ip], t)) /\ HistoryOf(H, ip) = H[ip]
    BY <1>2 DEF HistoryOf
  <2>2. \E place : IsHistory(Without(H[ip], Old(H[ip], t)), place, ip, L, t)
    BY <1>1, <2>1, ListFresh DEF PrintsLimits
  <2>. QED  BY <2>1, <2>2
<1>3. CASE ip \notin DOMAIN H
  <2>1. HistoryOf(H2, ip) = HistoryOf(H, ip)
    BY <1>3 DEF HistoryOf
  <2>. QED  BY <1>1, <2>1
<1>. QED  BY <1>2, <1>3

LEMMA Half ==
  ASSUME NEW n \in Nat, NEW c \in Nat, 2 * c <= n
  PROVE  n \div 2 \in Nat /\ c <= n \div 2
OBVIOUS

LEMMA CleanupKeeps ==
  ASSUME Prints!PrintsAssumption, PrintsInv, Prints!Cleanup
  PROVE  PrintsInv'
<1>1. now' = now /\ log' = log
  BY DEF Prints!Cleanup
<1>2. /\ DOMAIN history' = {ip \in DOMAIN history :
                              Without(history[ip], Old(history[ip], now)) # <<>>}
      /\ \A ip \in DOMAIN history' :
           history'[ip] = Without(history[ip], Old(history[ip], now))
  <2> DEFINE gone == {ip \in DOMAIN history : Prints!Within(history[ip]) = <<>>}
  <2>1. history' = [ip \in DOMAIN history \ gone |-> Prints!Within(history[ip])]
    BY DEF Prints!Cleanup
  <2>2. gone = {ip \in DOMAIN history : Without(history[ip], Old(history[ip], now)) = <<>>}
    BY WithinIs
  <2>. HIDE DEF gone
  <2>. QED  BY <2>1, <2>2, WithinIs
<1>3. PrintsLimits /\ IsLog(log, now) /\ Remembers(history, log, now) /\ DriftsExact(log)
      /\ Accounts(popularity, totalSeen, lastDecayAt, log)
  BY Limits DEF PrintsInv
<1>4. Remembers(history', log, now)
  BY <1>2, <1>3, RemembersCleanup
<1>5. /\ DOMAIN history' \subseteq IPs \ {Unknown}
      /\ \A ip \in DOMAIN history' : Len(history'[ip]) \in 1 .. maxHistory
  <2>1. DOMAIN history' \subseteq DOMAIN history
    BY <1>2
  <2>2. ASSUME NEW ip \in DOMAIN history' PROVE Len(history'[ip]) \in 1 .. maxHistory
    <3>1. history'[ip] # <<>> /\ ip \in DOMAIN history
      BY <1>2
    <3>2. PICK list : list = history[ip] /\ history'[ip] = Without(list, Old(list, now))
      BY <1>2
    <3>3. Len(list) \in 1 .. maxHistory
      BY <3>1, <3>2 DEF PrintsInv, PrintTypes
    <3>4. PICK E : list \in Seq(E)
      <4>1. HistoryOf(history, ip) = list /\ ip \in IPs \ {Unknown}
        BY <3>1, <3>2 DEF HistoryOf, PrintsInv, PrintTypes
      <4>. QED  BY <1>3, <4>1 DEF Remembers, IsHistory, Lists
    <3>5. PICK rest : rest = Without(list, Old(list, now))
      OBVIOUS
    <3>6. Len(rest) \in Nat /\ Len(rest) <= Len(list) /\ (rest # <<>> => Len(rest) # 0)
      BY <3>4, <3>5, WithoutShorter
    <3>. QED  BY <1>3, <3>1, <3>2, <3>3, <3>5, <3>6 DEF PrintsLimits
  <2>. QED  BY <2>1, <2>2 DEF PrintsInv, PrintTypes
<1>6. CASE Prints!DecayDue
  <2> DEFINE dead == {fp \in DOMAIN popularity : Prints!Halved(popularity[fp]) = 0}
  <2>1. /\ popularity' = [fp \in DOMAIN popularity \ dead |-> Prints!Halved(popularity[fp])]
        /\ totalSeen' = totalSeen \div 2 /\ lastDecayAt' = now
    BY <1>6 DEF Prints!Cleanup
  <2>2. /\ DOMAIN popularity' \subseteq DOMAIN popularity
        /\ \A fp \in DOMAIN popularity' : popularity'[fp] = popularity[fp] \div 2
                                          /\ popularity'[fp] # 0
    BY <2>1 DEF Prints!Halved
  <2>3. totalSeen \in Nat /\ \A f \in DOMAIN popularity : popularity[f] \in Nat
    BY DEF PrintsInv, PrintTypes
  <2>4. /\ IsFiniteSet(Units(popularity'))
        /\ 2 * Cardinality(Units(popularity')) <= Cardinality(Units(popularity))
    BY <1>3, <2>2, <2>3, UnitsHalved DEF Accounts
  <2>5. PICK c \in Nat : c = Cardinality(Units(popularity'))
    BY <2>4, FS_CardinalityType
  <2>6. PICK s \in Nat : s = Cardinality(Units(popularity))
    BY <1>3, FS_CardinalityType DEF Accounts
  <2>7. totalSeen' \in Nat /\ c <= totalSeen'
    <3>1. 2 * c <= totalSeen
      BY <1>3, <2>3, <2>4, <2>5, <2>6 DEF Accounts
    <3>. QED  BY <2>1, <2>3, <3>1, Half
  <2>8. now \in Nat
    BY <1>3 DEF IsLog
  <2>9. Accounts(popularity', totalSeen', lastDecayAt', log')
    BY <2>1, <2>4, <2>5, <2>7, <2>8 DEF Accounts
  <2>10. \A f \in DOMAIN popularity' : popularity'[f] \in Nat \ {0}
    <3>1. ASSUME NEW f \in DOMAIN popularity' PROVE popularity'[f] \in Nat
      <4>1. PICK k \in Nat : k = popularity[f]
        BY <2>2, <2>3
      <4>. QED  BY <2>2, <4>1
    <3>. QED  BY <2>2, <3>1
  <2>11. PrintTypes'
    BY <1>1, <1>5, <2>1, <2>7, <2>8, <2>10 DEF PrintsInv, PrintTypes
  <2>. QED  BY <1>1, <1>3, <1>4, <2>9, <2>11 DEF PrintsInv
<1>7. CASE ~Prints!DecayDue
  <2>1. popularity' = popularity /\ totalSeen' = totalSeen /\ lastDecayAt' = lastDecayAt
    BY <1>7 DEF Prints!Cleanup
  <2>2. PrintTypes'
    BY <1>1, <1>5, <2>1 DEF PrintsInv, PrintTypes
  <2>. QED  BY <1>1, <1>3, <1>4, <2>1, <2>2 DEF PrintsInv
<1>. QED  BY <1>6, <1>7

LEMMA PrintsTime ==
  ASSUME Prints!PrintsAssumption, PrintsInv, Prints!Tick
  PROVE  PrintsInv'
<1>1. /\ now < MaxTime /\ now' = now + 1 /\ log' = log /\ history' = history
      /\ popularity' = popularity /\ totalSeen' = totalSeen /\ lastDecayAt' = lastDecayAt
  BY DEF Prints!Tick
<1>2. PrintsLimits /\ IsLog(log, now) /\ Remembers(history, log, now)
  BY Limits DEF PrintsInv
<1>3. now \in Nat /\ now' \in Nat /\ now <= now'
  BY <1>1, <1>2 DEF IsLog
<1>4. PICK s \in Nat : s = now'
  BY <1>3
<1>5. IsLog(log, s)
  BY <1>2, <1>3, <1>4, LogLater
<1>6. Remembers(history, log, s)
  <2>1. \A ip, list, at : IsHistory(list, at, ip, log, now) => IsHistory(list, at, ip, log, s)
    BY <1>2, <1>3, <1>4, ListLater DEF PrintsLimits
  <2>. QED  BY <1>2, <2>1 DEF Remembers
<1>7. PrintTypes'
  BY <1>1, <1>2, <1>3 DEF PrintsInv, PrintTypes, PrintsLimits
<1>. QED  BY <1>1, <1>4, <1>5, <1>6, <1>7 DEF PrintsInv

LEMMA PrintsStutters ==
  ASSUME PrintsInv, UNCHANGED <<now, history, popularity, totalSeen, lastDecayAt, log>>
  PROVE  PrintsInv'
BY DEF PrintsInv, PrintTypes

LEMMA PrintsStep ==
  ASSUME Prints!PrintsAssumption, PrintsInv, [Prints!Next]_(Prints!vars)
  PROVE  PrintsInv'
<1>1. CASE \E q \in Hellos : Prints!AnalyzeRequest(q)
  BY <1>1, AnalyzeKeeps
<1>2. CASE Prints!Cleanup
  BY <1>2, CleanupKeeps
<1>3. CASE Prints!Tick
  BY <1>3, PrintsTime
<1>4. CASE UNCHANGED Prints!vars
  BY <1>4, PrintsStutters DEF Prints!vars
<1>. QED  BY <1>1, <1>2, <1>3, <1>4 DEF Prints!Next

-----------------------------------------------------------------------------
(* Adaptive baselines.                                                     *)

(* The maps of the baselines are those of the other lemmas.                *)

LEMMA BaselinesMaps ==
  /\ \A m, k, v : Baselines!MapSet(m, k, v) = MapSet(m, k, v)
  /\ \A m, S : Baselines!MapDelete(m, S) = MapDelete(m, S)
  /\ \A m : Baselines!MapDeleteFirst(m) = MapDeleteFirst(m)
  /\ \A m, k : Baselines!MapHas(m, k) <=> MapHas(m, k)
  /\ \A m : Baselines!MapSize(m) = MapSize(m)
  /\ \A m : Baselines!MapOrdered(m) <=> MapOrdered(m)
  /\ Baselines!EmptyMap = EmptyMap /\ Baselines!Empty = Empty
  /\ \A S : Baselines!Cardinality(S) = Cardinality(S)
  /\ \A S : Baselines!IsFiniteSet(S) <=> IsFiniteSet(S)
<1>1. \A S : Baselines!Cardinality(S) = Cardinality(S)
  BY DEF Baselines!Cardinality, Cardinality
<1>2. \A S : Baselines!IsFiniteSet(S) <=> IsFiniteSet(S)
  BY DEF Baselines!IsFiniteSet, IsFiniteSet
<1>3. \A f, k, v : Baselines!Put(f, k, v) = Put(f, k, v)
  BY DEF Baselines!Put, Put
<1>4. \A f, S : Baselines!Drop(f, S) = Drop(f, S)
  BY DEF Baselines!Drop, Drop
<1>5. \A m, k : Baselines!MapHas(m, k) <=> MapHas(m, k)
  BY DEF Baselines!MapHas, MapHas
<1>6. \A m : Baselines!MapSize(m) = MapSize(m)
  BY <1>1 DEF Baselines!MapSize, MapSize
<1>7. \A s, S : Baselines!Without(s, S) = Without(s, S)
  BY DEF Baselines!Without, Without, Baselines!Cardinality, Cardinality
<1>8. \A m, k, v : Baselines!MapSet(m, k, v) = MapSet(m, k, v)
  BY <1>3, <1>5 DEF Baselines!MapSet, MapSet
<1>9. \A m, S : Baselines!MapDelete(m, S) = MapDelete(m, S)
  BY <1>4, <1>7 DEF Baselines!MapDelete, MapDelete
<1>10. \A m : Baselines!MapDeleteFirst(m) = MapDeleteFirst(m)
  BY <1>9 DEF Baselines!MapDeleteFirst, MapDeleteFirst
<1>11. \A m : Baselines!MapOrdered(m) <=> MapOrdered(m)
  BY DEF Baselines!MapOrdered, MapOrdered
<1>12. Baselines!EmptyMap = EmptyMap /\ Baselines!Empty = Empty
  BY DEF Baselines!EmptyMap, EmptyMap, Baselines!Empty, Empty
<1>. QED  BY <1>1, <1>2, <1>5, <1>6, <1>8, <1>9, <1>10, <1>11, <1>12

Kinds   == {"param_type_anomaly", "param_length_anomaly", "param_count_anomaly",
            "unknown_params_anomaly", "unusual_method_anomaly"}
Checked == [q : Asked, at : Nat, flags : SUBSET Kinds]

\* The requests to a path from the born-th call on, and those of them with a parameter.
Own(p, born)     == {n \in DOMAIN log : n >= born /\ log[n].q.path = p}
With(p, born, k) == {n \in Own(p, born) : k \in DOMAIN log[n].q.params}

\* What a baseline is made of.
IsBaseline(b) ==
  /\ b = [count |-> b.count, avgParams |-> b.avgParams, knownParams |-> b.knownParams,
          methods |-> b.methods, lastSeen |-> b.lastSeen, born |-> b.born]
  /\ IsFiniteSet(DOMAIN b.knownParams) /\ Cardinality(DOMAIN b.knownParams) <= MAX_KNOWN_PARAMS
  /\ b.lastSeen \in 0 .. now

\* A baseline stands for the requests to its path since it was opened.
StandsFor(p, b) ==
  /\ b.count = Cardinality(Own(p, b.born))
  /\ b.methods = {log[n].q.method : n \in Own(p, b.born)}
  /\ \A k \in DOMAIN b.knownParams :
       b.knownParams[k].types = {log[n].q.params[k].type : n \in With(p, b.born, k)}
  /\ Cardinality(DOMAIN b.knownParams) < MAX_KNOWN_PARAMS =>
       DOMAIN b.knownParams = UNION {DOMAIN log[n].q.params : n \in Own(p, b.born)}
  /\ b.count < LEARNING_THRESHOLD => \A n \in Own(p, b.born) : log[n].flags = {}

\* p was asked for after q was for the last time.
AskedAfter(p, q) ==
  \E n \in DOMAIN log : log[n].q.path = p /\ \A m \in n .. Len(log) : log[m].q.path # q

BaselineTypes ==
  /\ now \in 0 .. MaxTime
  /\ log \in Seq(Checked)
  /\ Within(baselines, MAX_BASELINES)
  /\ \A p \in DOMAIN baselines.of :
       IsBaseline(baselines.of[p]) /\ baselines.of[p].born \in 1 .. Len(log)

InOrder ==
  \A i, j \in DOMAIN baselines.keys :
    i < j => AskedAfter(baselines.keys[j], baselines.keys[i])

BaselinesInv ==
  /\ BaselineTypes
  /\ \A p \in DOMAIN baselines.of : StandsFor(p, baselines.of[p])
  /\ InOrder

LEMMA CheckedElements ==
  ASSUME BaselineTypes
  PROVE  /\ \A n \in DOMAIN log : log[n] \in Checked
         /\ DOMAIN log = 1 .. Len(log) /\ Len(log) \in Nat
BY ElementOfSeq, LenProperties DEF BaselineTypes

LEMMA BaselinesInvHolds == BaselinesInv => Baselines!TypeOK /\ Baselines!BaselinesExact
<1> SUFFICES ASSUME BaselinesInv PROVE Baselines!TypeOK /\ Baselines!BaselinesExact
  OBVIOUS
<1>1. Baselines!TypeOK
  <2>1. Baselines!MapOrdered(baselines) /\ Baselines!MapSize(baselines) <= MAX_BASELINES
    BY BaselinesMaps DEF BaselinesInv, BaselineTypes, Within, Ordered
  <2>2. \A p \in DOMAIN baselines.of :
          /\ Baselines!Cardinality(DOMAIN baselines.of[p].knownParams) <= MAX_KNOWN_PARAMS
          /\ baselines.of[p].lastSeen \in 0 .. now
    BY BaselinesMaps DEF BaselinesInv, BaselineTypes, IsBaseline
  <2>. QED  BY <2>1, <2>2 DEF BaselinesInv, BaselineTypes, Baselines!TypeOK
<1>2. Baselines!BaselinesExact
  <2>1. \A p \in DOMAIN baselines.of :
          LET b    == baselines.of[p]
              own  == {n \in DOMAIN log : n >= b.born /\ log[n].q.path = p}
              with(k) == {n \in own : k \in DOMAIN log[n].q.params}
          IN  /\ b.count = Baselines!Cardinality(own)
              /\ b.methods = {log[n].q.method : n \in own}
              /\ \A k \in DOMAIN b.knownParams :
                   b.knownParams[k].types = {log[n].q.params[k].type : n \in with(k)}
              /\ Baselines!Cardinality(DOMAIN b.knownParams) < MAX_KNOWN_PARAMS =>
                   DOMAIN b.knownParams = UNION {DOMAIN log[n].q.params : n \in own}
              /\ b.count < LEARNING_THRESHOLD => \A n \in own : log[n].flags = {}
    BY BaselinesMaps DEF BaselinesInv, StandsFor, Own, With
  <2>2. \A i, j \in DOMAIN baselines.keys : i < j =>
          \E n \in DOMAIN log : /\ log[n].q.path = baselines.keys[j]
                                /\ \A m \in n .. Len(log) : log[m].q.path # baselines.keys[i]
    BY DEF BaselinesInv, InOrder, AskedAfter
  <2>. QED  BY <2>1, <2>2, Zenon DEF Baselines!BaselinesExact
<1>. QED  BY <1>1, <1>2

LEMMA BaselinesInit == Baselines!BaselinesAssumption /\ Baselines!Init => BaselinesInv
<1> SUFFICES ASSUME Baselines!BaselinesAssumption, Baselines!Init PROVE BaselinesInv
  OBVIOUS
<1>1. /\ now = 0 /\ baselines = EmptyMap /\ log = <<>> /\ log \in Seq(Checked)
      /\ DOMAIN baselines.of = {} /\ DOMAIN baselines.keys = {}
  BY EmptySeq, BaselinesMaps DEF Baselines!Init, EmptyMap, Empty
<1>2. Within(baselines, MAX_BASELINES)
  BY <1>1, EmptyOrdered DEF Within, Baselines!BaselinesAssumption
<1>. QED  BY <1>1, <1>2 DEF BaselinesInv, BaselineTypes, InOrder, Baselines!BaselinesAssumption

\* The parameters admitted are new and there is room for them; none is turned away while
\* there is.
Admits(known, params, admitted) ==
  LET all == DOMAIN known \cup admitted
  IN  /\ admitted \subseteq DOMAIN params \ DOMAIN known
      /\ IsFiniteSet(all) /\ Cardinality(all) <= MAX_KNOWN_PARAMS
      /\ admitted # {} => Cardinality(DOMAIN known) < MAX_KNOWN_PARAMS
      /\ Cardinality(all) < MAX_KNOWN_PARAMS =>
           /\ Cardinality(DOMAIN known) < MAX_KNOWN_PARAMS
           /\ admitted = DOMAIN params \ DOMAIN known

LEMMA Admission ==
  ASSUME MAX_KNOWN_PARAMS \in Nat, NEW known, NEW params,
         IsFiniteSet(DOMAIN known), IsFiniteSet(DOMAIN params),
         Cardinality(DOMAIN known) <= MAX_KNOWN_PARAMS,
         NEW admitted \in Baselines!Admissible(known, params)
  PROVE  Admits(known, params, admitted)
<1> DEFINE K    == DOMAIN known
           new  == DOMAIN params \ K
           room == MAX_KNOWN_PARAMS - Cardinality(K)
<1>1. IsFiniteSet(K) /\ IsFiniteSet(new) /\ Cardinality(K) \in Nat
  BY FS_CardinalityType, FS_Difference
<1>2. /\ admitted \in SUBSET new
      /\ \/ admitted = new /\ Cardinality(new) <= room
         \/ Cardinality(admitted) = room
  <2>1. admitted \in IF Baselines!Cardinality(new) <= MAX_KNOWN_PARAMS - Baselines!Cardinality(K)
                      THEN {new}
                      ELSE {S \in SUBSET new : Baselines!Cardinality(S)
                                                = MAX_KNOWN_PARAMS - Baselines!Cardinality(K)}
    BY DEF Baselines!Admissible
  <2>. HIDE DEF new, K
  <2>. QED  BY <2>1, BaselinesMaps
<1>3. K \cap admitted = {}
  BY <1>2
<1>. HIDE DEF K, new
<1>4. IsFiniteSet(admitted) /\ Cardinality(admitted) \in Nat
      /\ (Cardinality(admitted) = 0 <=> admitted = {})
  BY <1>1, <1>2, FS_Subset, FS_CardinalityType, FS_EmptySet
<1>5. /\ IsFiniteSet(K \cup admitted)
      /\ Cardinality(K \cup admitted) = Cardinality(K) + Cardinality(admitted)
  <2>1. Cardinality(K \cap admitted) = 0
    BY <1>3, FS_EmptySet
  <2>2. /\ IsFiniteSet(K \cup admitted)
        /\ Cardinality(K \cup admitted)
             = Cardinality(K) + Cardinality(admitted) - Cardinality(K \cap admitted)
    BY <1>1, <1>4, FS_Union
  <2>. QED  BY <1>1, <1>4, <2>1, <2>2
<1>6. Cardinality(K) <= MAX_KNOWN_PARAMS
  BY DEF K
<1>7. /\ Cardinality(K \cup admitted) <= MAX_KNOWN_PARAMS
      /\ admitted # {} => Cardinality(K) < MAX_KNOWN_PARAMS
      /\ Cardinality(K \cup admitted) < MAX_KNOWN_PARAMS =>
           Cardinality(K) < MAX_KNOWN_PARAMS /\ admitted = new
  <2>1. CASE admitted = new /\ Cardinality(new) <= room
    BY <1>1, <1>4, <1>5, <1>6, <2>1
  <2>2. CASE Cardinality(admitted) = room
    <3>1. Cardinality(K \cup admitted) = MAX_KNOWN_PARAMS
      BY <1>1, <1>4, <1>5, <2>2
    <3>2. Cardinality(K) < MAX_KNOWN_PARAMS \/ Cardinality(admitted) = 0
      BY <1>1, <1>4, <1>6, <2>2
    <3>. QED  BY <1>4, <3>1, <3>2
  <2>. QED  BY <1>2, <2>1, <2>2
<1>. QED  BY <1>2, <1>5, <1>7 DEF K, new, Admits

-----------------------------------------------------------------------------
(* A table after the path asked for has become the last one used.          *)

\* rest lists keys that keys lists, in the same order.
SameOrder(rest, keys) ==
  \A i, j \in DOMAIN rest : i < j =>
    \E k, l \in DOMAIN keys : k < l /\ rest[i] = keys[k] /\ rest[j] = keys[l]

LEMMA DeletedInOrder ==
  ASSUME NEW m, Ordered(m), NEW S
  PROVE  SameOrder(MapDelete(m, S).keys, m.keys)
<1> DEFINE keys == m.keys
           rest == Without(keys, S)
           D    == DOMAIN m.of
<1>1. keys \in Seq(D)
  BY DEF Ordered
<1>. HIDE DEF keys, D, rest
<1>2. PICK place : IsRest(rest, place, keys, Remaining(keys, S))
  BY <1>1, WithoutPlaces DEF rest
<1>3. \A i \in DOMAIN rest : place[i] \in DOMAIN keys /\ rest[i] = keys[place[i]]
  BY <1>2 DEF IsRest, Bijection, Injection, Remaining
<1>4. \A i, j \in DOMAIN rest : i < j => place[i] < place[j]
  BY <1>2 DEF IsRest
<1>5. MapDelete(m, S).keys = rest
  BY DEF MapDelete, rest, keys
<1>. QED  BY <1>3, <1>4, <1>5 DEF SameOrder, keys

\* What getBaseline makes room with.
Room(path) ==
  IF MapHas(baselines, path) THEN MapDelete(baselines, {path})
  ELSE IF MapSize(baselines) >= MAX_BASELINES THEN MapDeleteFirst(baselines)
  ELSE baselines

NewBaseline == [count |-> 0, avgParams |-> Baselines!Average(0), knownParams |-> Empty, methods |-> {},
          lastSeen |-> now, born |-> Len(log) + 1]

Reached(path) ==
  IF MapHas(baselines, path) THEN [baselines.of[path] EXCEPT !.lastSeen = now] ELSE NewBaseline

LEMMA RoomMade ==
  ASSUME Baselines!BaselinesAssumption, BaselineTypes, NEW path
  PROVE  LET room == Room(path)
         IN  /\ Within(room, MAX_BASELINES) /\ MapSize(room) < MAX_BASELINES
             /\ ~MapHas(room, path)
             /\ SameOrder(room.keys, baselines.keys)
             /\ \A p \in DOMAIN room.of : p \in DOMAIN baselines.of /\ room.of[p] = baselines.of[p]
<1>1. /\ Within(baselines, MAX_BASELINES) /\ Ordered(baselines) /\ MAX_BASELINES \in Nat \ {0}
      /\ MapSize(baselines) \in Nat
  BY SizeType DEF BaselineTypes, Within, Baselines!BaselinesAssumption
<1>2. CASE MapHas(baselines, path)
  <2> DEFINE room == MapDelete(baselines, {path})
             D    == DOMAIN baselines.of
  <2>1. Room(path) = room
    BY <1>2 DEF Room
  <2>2. /\ Within(room, MAX_BASELINES) /\ SameOrder(room.keys, baselines.keys)
        /\ DOMAIN room.of = D \ {path}
        /\ \A p \in DOMAIN room.of : room.of[p] = baselines.of[p]
    BY <1>1, DeleteWithin, DeletedInOrder, DeletedKeys
  <2>3. Cardinality(D \ {path}) = Cardinality(D) - 1
    <3>1. IsFiniteSet(D) /\ path \in D
      BY <1>1, <1>2 DEF Ordered, MapHas
    <3>. HIDE DEF D
    <3>. QED  BY <3>1, FS_RemoveElement
  <2>4. MapSize(room) < MAX_BASELINES
    <3>1. MapSize(room) = Cardinality(D \ {path}) /\ MapSize(baselines) = Cardinality(D)
      BY <2>2, Zenon DEF MapSize
    <3>2. MapSize(room) = MapSize(baselines) - 1 /\ MapSize(baselines) <= MAX_BASELINES
      BY <1>1, <2>3, <3>1 DEF Within
    <3>. QED  BY <1>1, <3>2
  <2>. QED  BY <2>1, <2>2, <2>4 DEF MapHas
<1>3. CASE ~MapHas(baselines, path) /\ MapSize(baselines) >= MAX_BASELINES
  <2> DEFINE room == MapDeleteFirst(baselines)
  <2>1. Room(path) = room
    BY <1>3 DEF Room
  <2>2. Ordered(room) /\ MapSize(room) = MapSize(baselines) - 1
    BY <1>1, <1>3, DeleteFirstOrdered
  <2>3. /\ \A p \in DOMAIN room.of : p \in DOMAIN baselines.of /\ room.of[p] = baselines.of[p]
    BY DeletedFirst
  <2>4. SameOrder(room.keys, baselines.keys)
    <3>1. CASE baselines.keys = <<>>
      BY <3>1, EmptySeq DEF SameOrder, MapDeleteFirst
    <3>2. CASE baselines.keys # <<>>
      BY <1>1, <3>2, DeletedInOrder DEF MapDeleteFirst
    <3>. QED  BY <3>1, <3>2
  <2>. HIDE DEF room
  <2>. QED  BY <1>1, <1>3, <2>1, <2>2, <2>3, <2>4 DEF Within, MapHas
<1>4. CASE ~MapHas(baselines, path) /\ ~(MapSize(baselines) >= MAX_BASELINES)
  <2>1. Room(path) = baselines
    BY <1>4 DEF Room
  <2>. QED  BY <1>1, <1>4, <2>1 DEF SameOrder
<1>. QED  BY <1>2, <1>3, <1>4

LEMMA Opened ==
  ASSUME NEW path
  PROVE  Baselines!GetBaseline(path) = MapSet(Room(path), path, Reached(path))
BY BaselinesMaps DEF Baselines!GetBaseline, Room, Reached, NewBaseline

\* The baseline of the path, as it is before the request counts.
LEMMA ReachedExact ==
  ASSUME Baselines!BaselinesAssumption, BaselinesInv, NEW path
  PROVE  /\ IsBaseline(Reached(path)) /\ Reached(path).born \in 1 .. Len(log) + 1
         /\ StandsFor(path, Reached(path))
<1>1. now \in Nat /\ Len(log) \in Nat /\ DOMAIN log = 1 .. Len(log)
  BY CheckedElements DEF BaselinesInv, BaselineTypes, Baselines!BaselinesAssumption
<1>2. CASE MapHas(baselines, path)
  <2> DEFINE b == baselines.of[path]
  <2>1. IsBaseline(b) /\ b.born \in 1 .. Len(log) /\ StandsFor(path, b)
    BY <1>2 DEF MapHas, BaselinesInv, BaselineTypes
  <2>2. /\ Reached(path) = [count |-> b.count, avgParams |-> b.avgParams,
             knownParams |-> b.knownParams, methods |-> b.methods,
             lastSeen |-> now, born |-> b.born]
    <3>. HIDE DEF b
    <3>1. Reached(path) = [b EXCEPT !.lastSeen = now]
      BY <1>2 DEF Reached, b
    <3>. QED  BY <2>1, <3>1 DEF IsBaseline
  <2>. HIDE DEF b
  <2>. QED  BY <1>1, <2>1, <2>2 DEF IsBaseline, StandsFor
<1>3. CASE ~MapHas(baselines, path)
  <2>1. Reached(path) = NewBaseline
    BY <1>3 DEF Reached
  <2>2. /\ Own(path, Len(log) + 1) = {}
        /\ Cardinality(Own(path, Len(log) + 1)) = 0
    <3>1. Own(path, Len(log) + 1) = {}
      BY <1>1 DEF Own
    <3>. QED  BY <3>1, FS_EmptySet
  <2>3. DOMAIN NewBaseline.knownParams = {} /\ IsFiniteSet({}) /\ Cardinality({}) = 0
    BY FS_EmptySet DEF NewBaseline, Empty
  <2>4. IsBaseline(NewBaseline)
    BY <1>1, <2>3 DEF NewBaseline, IsBaseline, Baselines!BaselinesAssumption
  <2>5. StandsFor(path, NewBaseline) /\ NewBaseline.born \in 1 .. Len(log) + 1
    BY <1>1, <2>2, <2>3 DEF NewBaseline, StandsFor
  <2>. QED  BY <2>1, <2>4, <2>5
<1>. QED  BY <1>2, <1>3

\* What a request makes of the baseline of its path.
Counts(b, r, q, admitted, flags) ==
  /\ r = [count |-> b.count + 1, avgParams |-> r.avgParams, knownParams |-> r.knownParams,
          methods |-> b.methods \cup {q.method}, lastSeen |-> b.lastSeen, born |-> b.born]
  /\ DOMAIN r.knownParams = DOMAIN b.knownParams \cup admitted
  /\ \A k \in DOMAIN r.knownParams :
       r.knownParams[k].types =
         (IF k \in DOMAIN b.knownParams THEN b.knownParams[k].types ELSE {})
         \cup (IF k \in DOMAIN q.params THEN {q.params[k].type} ELSE {})
  /\ b.count + 1 < LEARNING_THRESHOLD => flags = {}

LEMMA Answered ==
  ASSUME NEW q, Baselines!Check(q), IsBaseline(Reached(q.path))
  PROVE  LET b == Baselines!GetBaseline(q.path).of[q.path]
         IN  b = Reached(q.path) /\
         \E admitted \in Baselines!Admissible(b.knownParams, q.params), flags \in SUBSET Kinds : \E r :
           /\ admitted \subseteq DOMAIN q.params => Counts(b, r, q, admitted, flags)
           /\ baselines' = MapSet(Room(q.path), q.path, r)
           /\ log' = Append(log, [q |-> q, at |-> now, flags |-> flags])
<1> DEFINE path   == q.path
           opened == Baselines!GetBaseline(path)
           b      == opened.of[path]
           count  == b.count + 1
           pct    == IF count <= LEARNING_THRESHOLD THEN learnPct ELSE detectPct
           asked  == Baselines!Cardinality(DOMAIN q.params)
           avg    == IF count = 1 THEN Baselines!Average(asked) ELSE Baselines!Moved(b.avgParams, asked, pct)
           known(admitted) == DOMAIN b.knownParams \cup admitted
           kept(admitted)  == DOMAIN q.params \cap known(admitted)
           flags(admitted) ==
             IF count < LEARNING_THRESHOLD THEN {}
             ELSE Baselines!ParamFlags(b.knownParams, kept(admitted), q.params)
                  \cup Baselines!Flag("param_count_anomaly", asked > floor /\ Baselines!Above(asked, avg, 3, 0))
                  \cup Baselines!Flag("unknown_params_anomaly",
                         Baselines!Cardinality(DOMAIN q.params \ known(admitted)) > manyUnknown)
                  \cup Baselines!Flag("unusual_method_anomaly",
                         q.method \notin b.methods \cup {q.method})
           learnt(admitted) == [p \in known(admitted) |->
             IF p \in kept(admitted) THEN Baselines!Profile(b.knownParams, p, q.params[p], pct)
             ELSE b.knownParams[p]]
<1>1. b = Reached(path) /\ opened = MapSet(Room(path), path, b) /\ IsBaseline(b)
  BY Opened, SetValue, SMTT(30)
<1>2. PICK admitted \in Baselines!Admissible(b.knownParams, q.params) :
        /\ baselines' = [opened EXCEPT !.of[path] =
             [count |-> count, avgParams |-> avg, lastSeen |-> b.lastSeen, born |-> b.born,
              methods |-> b.methods \cup {q.method}, knownParams |-> learnt(admitted)]]
        /\ log' = Append(log, [q |-> q, at |-> now, flags |-> flags(admitted)])
  BY ZenonT(30) DEF Baselines!Check
<1> DEFINE r == [count |-> count, avgParams |-> avg, lastSeen |-> b.lastSeen,
                 born |-> b.born, methods |-> b.methods \cup {q.method},
                 knownParams |-> learnt(admitted)]
<1>3. baselines' = [opened EXCEPT !.of[path] = r]
  BY <1>2
<1>4. baselines' = MapSet(Room(path), path, r)
  <2>. HIDE DEF r, opened, b
  <2>. QED  BY <1>1, <1>3 DEF MapSet, Put, MapHas
<1>5. flags(admitted) \in SUBSET Kinds
  <2>. HIDE DEF count, avg, known, kept, asked
  <2>. QED  BY SMTT(30) DEF Baselines!ParamFlags, Baselines!Flag, Kinds
<1>6. ASSUME admitted \subseteq DOMAIN q.params PROVE Counts(b, r, q, admitted, flags(admitted))
  <2>1. \A k \in known(admitted) : k \in kept(admitted) =>
          learnt(admitted)[k].types =
            (IF k \in DOMAIN b.knownParams THEN b.knownParams[k].types ELSE {})
            \cup {q.params[k].type}
    BY ZenonT(30) DEF Baselines!Profile
  <2>2. \A k \in known(admitted) : k \notin kept(admitted) =>
          k \in DOMAIN b.knownParams /\ k \notin DOMAIN q.params
          /\ learnt(admitted)[k].types = b.knownParams[k].types
    BY <1>6
  <2>3. \A k \in known(admitted) : k \in kept(admitted) => k \in DOMAIN q.params
    OBVIOUS
  <2>4. count < LEARNING_THRESHOLD => flags(admitted) = {}
    OBVIOUS
  <2>5. DOMAIN learnt(admitted) = known(admitted)
    BY SMTT(30)
  <2> DEFINE l == learnt(admitted)
             f == flags(admitted)
             K == known(admitted)
             t == kept(admitted)
  <2>6. \A k \in K : l[k].types =
          (IF k \in DOMAIN b.knownParams THEN b.knownParams[k].types ELSE {})
          \cup (IF k \in DOMAIN q.params THEN {q.params[k].type} ELSE {})
    <3>. HIDE DEF l, K, t
    <3>. QED  BY <2>1, <2>2, <2>3 DEF l, K, t
  <2>7. K = DOMAIN b.knownParams \cup admitted
    OBVIOUS
  <2>. HIDE DEF l, f, K, avg
  <2>. QED  BY <2>4, <2>5, <2>6, <2>7, ZenonT(30) DEF Counts, l, f, K
<1>. HIDE DEF flags, r
<1>. QED  BY <1>1, <1>2, <1>4, <1>5, <1>6, ZenonT(30)

\* A call more: what the others did stays, and this one is the path's last.
LEMMA OneCallMore ==
  ASSUME BaselineTypes, NEW q \in Asked, NEW flags \in SUBSET Kinds, now \in Nat,
         log' = Append(log, [q |-> q, at |-> now, flags |-> flags]), NEW l, l = Len(log) + 1
  PROVE  /\ l \in Nat /\ l \notin DOMAIN log /\ log' \in Seq(Checked) /\ Len(log') = l
         /\ DOMAIN log' = DOMAIN log \cup {l} /\ \A n \in DOMAIN log : n < l
         /\ \A n \in DOMAIN log : log'[n] = log[n]
         /\ log'[l] = [q |-> q, at |-> now, flags |-> flags]
<1> DEFINE e == [q |-> q, at |-> now, flags |-> flags]
<1>1. log \in Seq(Checked) /\ Len(log) \in Nat /\ DOMAIN log = 1 .. Len(log)
  BY CheckedElements DEF BaselineTypes
<1>2. e \in Checked
  BY DEF Checked
<1>3. /\ l \in Nat /\ l \notin DOMAIN log /\ log' \in Seq(Checked) /\ Len(log') = l
      /\ DOMAIN log' = DOMAIN log \cup {l} /\ \A n \in DOMAIN log : n < l
      /\ \A n \in DOMAIN log : log'[n] = log[n]
      /\ log'[l] = e
  BY <1>1, <1>2, AppendProperties, LenProperties
<1>. QED  BY <1>3

LEMMA OwnAfter ==
  ASSUME BaselineTypes, NEW q \in Asked, NEW flags \in SUBSET Kinds, now \in Nat,
         log' = Append(log, [q |-> q, at |-> now, flags |-> flags]), NEW l, l = Len(log) + 1,
         NEW p, NEW born, born <= l
  PROVE  /\ Own(p, born)' = Own(p, born) \cup (IF p = q.path THEN {l} ELSE {})
         /\ \A n \in Own(p, born) : n \in DOMAIN log /\ log'[n] = log[n] /\ n # l
<1>1. /\ l \notin DOMAIN log
      /\ DOMAIN log' = DOMAIN log \cup {l}
      /\ \A n \in DOMAIN log : log'[n] = log[n]
      /\ log'[l] = [q |-> q, at |-> now, flags |-> flags]
  BY OneCallMore
<1>. QED  BY <1>1 DEF Own

LEMMA WithAfter ==
  ASSUME BaselineTypes, NEW q \in Asked, NEW flags \in SUBSET Kinds, now \in Nat,
         log' = Append(log, [q |-> q, at |-> now, flags |-> flags]), NEW l, l = Len(log) + 1,
         NEW p, NEW born, born <= l, NEW k
  PROVE  With(p, born, k)' = With(p, born, k)
                             \cup (IF p = q.path /\ k \in DOMAIN q.params THEN {l} ELSE {})
<1>1. log'[l] = [q |-> q, at |-> now, flags |-> flags]
  BY OneCallMore
<1>2. /\ Own(p, born)' = Own(p, born) \cup (IF p = q.path THEN {l} ELSE {})
      /\ \A n \in Own(p, born) : log'[n] = log[n] /\ n # l
  BY OwnAfter
<1>3. \A n \in Own(p, born)' : (k \in DOMAIN log'[n].q.params) <=>
        (n \in With(p, born, k) \/ (n = l /\ k \in DOMAIN q.params))
  <2>. SUFFICES ASSUME NEW n \in Own(p, born)'
                PROVE  (k \in DOMAIN log'[n].q.params) <=>
                         (n \in With(p, born, k) \/ (n = l /\ k \in DOMAIN q.params))
    OBVIOUS
  <2>1. CASE n \in Own(p, born)
    <3>1. log'[n] = log[n] /\ n # l
      BY <1>2, <2>1
    <3>2. n \in With(p, born, k) <=> k \in DOMAIN log[n].q.params
      BY <2>1 DEF With
    <3>. QED  BY <3>1, <3>2
  <2>2. CASE n \notin Own(p, born)
    <3>1. n = l /\ n \notin With(p, born, k)
      BY <1>2, <2>2 DEF With
    <3>. QED  BY <1>1, <3>1
  <2>. QED  BY <2>1, <2>2
<1>4. With(p, born, k)' = {n \in Own(p, born)' : k \in DOMAIN log'[n].q.params}
  BY DEF With
<1>5. With(p, born, k) \subseteq Own(p, born)
  BY DEF With
<1>6. CASE p = q.path
  BY <1>2, <1>3, <1>4, <1>5, <1>6
<1>7. CASE p # q.path
  BY <1>2, <1>3, <1>4, <1>5, <1>7
<1>. QED  BY <1>6, <1>7

LEMMA OwnFinite ==
  ASSUME BaselineTypes, NEW p, NEW born
  PROVE  IsFiniteSet(Own(p, born)) /\ Cardinality(Own(p, born)) \in Nat
<1>1. IsFiniteSet(1 .. Len(log)) /\ Own(p, born) \in SUBSET (1 .. Len(log))
  BY CheckedElements, FS_Interval DEF Own
<1>. QED  BY <1>1, FS_Subset, FS_CardinalityType

\* The baseline after the request stands for one more.
LEMMA LearntExact ==
  ASSUME Baselines!BaselinesAssumption, BaselinesInv, NEW q \in Asked, NEW flags \in SUBSET Kinds,
         log' = Append(log, [q |-> q, at |-> now, flags |-> flags]),
         NEW b, IsBaseline(b), b.born \in 1 .. Len(log) + 1, StandsFor(q.path, b),
         NEW admitted \in Baselines!Admissible(b.knownParams, q.params), NEW r,
         Counts(b, r, q, admitted, flags), now' = now
  PROVE  IsBaseline(r)' /\ r.born \in 1 .. Len(log') /\ StandsFor(q.path, r)'
<1> DEFINE p  == q.path
           K  == DOMAIN b.knownParams
           K2 == DOMAIN r.knownParams
<1>1. now \in Nat /\ Len(log) \in Nat /\ BaselineTypes /\ MAX_KNOWN_PARAMS \in Nat
      /\ IsFiniteSet(DOMAIN q.params)
  BY CheckedElements, BaselinesMaps
     DEF BaselinesInv, BaselineTypes, Baselines!BaselinesAssumption
<1>2. PICK l : l = Len(log) + 1
  OBVIOUS
<1>3. PICK born \in 1 .. l : born = b.born
  BY <1>2
<1>4. r.born = born /\ r.count = b.count + 1 /\ r.methods = b.methods \cup {q.method}
      /\ r.lastSeen = b.lastSeen /\ K2 = K \cup admitted
  BY <1>3 DEF Counts
<1>5. /\ l \in Nat /\ l \notin DOMAIN log /\ Len(log') = l
      /\ DOMAIN log' = DOMAIN log \cup {l}
      /\ \A n \in DOMAIN log : log'[n] = log[n]
      /\ log'[l] = [q |-> q, at |-> now, flags |-> flags]
  BY <1>1, <1>2, <1>3, OneCallMore
<1>16. /\ Own(p, born)' = Own(p, born) \cup {l}
       /\ \A n \in Own(p, born) : n \in DOMAIN log /\ log'[n] = log[n] /\ n # l
  <2>1. born <= l
    BY <1>1, <1>2
  <2>. QED  BY <1>1, <1>2, <2>1, OwnAfter
<1>6. /\ admitted \subseteq DOMAIN q.params \ K
      /\ IsFiniteSet(K2) /\ Cardinality(K2) <= MAX_KNOWN_PARAMS
      /\ admitted # {} => Cardinality(K) < MAX_KNOWN_PARAMS
      /\ Cardinality(K2) < MAX_KNOWN_PARAMS =>
           Cardinality(K) < MAX_KNOWN_PARAMS /\ admitted = DOMAIN q.params \ K
  <2>1. IsFiniteSet(K) /\ Cardinality(K) <= MAX_KNOWN_PARAMS
    BY DEF IsBaseline
  <2>2. Admits(b.knownParams, q.params, admitted)
    BY <1>1, <2>1, Admission
  <2>. QED  BY <1>4, <2>2 DEF Admits
<1>7. IsBaseline(r)'
  BY <1>1, <1>4, <1>6 DEF IsBaseline, Counts
<1>9. /\ b.count = Cardinality(Own(p, born)) /\ b.methods = {log[n].q.method : n \in Own(p, born)}
      /\ \A k \in K : b.knownParams[k].types
                        = {log[n].q.params[k].type : n \in With(p, born, k)}
      /\ Cardinality(K) < MAX_KNOWN_PARAMS =>
           K = UNION {DOMAIN log[n].q.params : n \in Own(p, born)}
      /\ b.count < LEARNING_THRESHOLD => \A n \in Own(p, born) : log[n].flags = {}
  BY <1>3 DEF StandsFor
<1>10. r.count = Cardinality(Own(p, born)')
  <2>1. IsFiniteSet(Own(p, born)) /\ l \notin Own(p, born)
    BY <1>1, <1>16, OwnFinite
  <2>2. Cardinality(Own(p, born) \cup {l}) = Cardinality(Own(p, born)) + 1
    BY <2>1, FS_AddElement
  <2>. QED  BY <1>4, <1>9, <1>16, <2>2
<1>11. r.methods = {log'[n].q.method : n \in Own(p, born)'}
  BY <1>4, <1>5, <1>16, <1>9
<1>12. ASSUME NEW k \in K2
       PROVE  r.knownParams[k].types = {log'[n].q.params[k].type : n \in With(p, born, k)'}
  <2> DEFINE before == {log[n].q.params[k].type : n \in With(p, born, k)}
             after  == {log'[n].q.params[k].type : n \in With(p, born, k)'}
             this   == IF k \in DOMAIN q.params THEN {q.params[k].type} ELSE {}
  <2>1. With(p, born, k) \subseteq Own(p, born)
    BY DEF With
  <2>2. after = before \cup this
    <3>1. With(p, born, k)'
            = With(p, born, k) \cup (IF k \in DOMAIN q.params THEN {l} ELSE {})
      <4>1. born <= l
        BY <1>1, <1>2
      <4>. QED  BY <1>1, <1>2, <4>1, WithAfter
    <3>. QED  BY <1>5, <1>16, <2>1, <3>1
  <2>3. r.knownParams[k].types = (IF k \in K THEN b.knownParams[k].types ELSE {}) \cup this
    BY DEF Counts
  <2>4. CASE k \in K
    BY <1>9, <2>2, <2>3, <2>4
  <2>5. CASE k \notin K
    <3>1. K = UNION {DOMAIN log[n].q.params : n \in Own(p, born)}
      BY <1>4, <1>6, <1>9, <2>5
    <3>2. With(p, born, k) = {}
      BY <2>5, <3>1 DEF With
    <3>. QED  BY <2>2, <2>3, <2>5, <3>2
  <2>. QED  BY <2>4, <2>5
<1>13. Cardinality(K2) < MAX_KNOWN_PARAMS =>
         K2 = UNION {DOMAIN log'[n].q.params : n \in Own(p, born)'}
  <2>. SUFFICES ASSUME Cardinality(K2) < MAX_KNOWN_PARAMS
                PROVE  K2 = UNION {DOMAIN log'[n].q.params : n \in Own(p, born)'}
    OBVIOUS
  <2>1. K2 = K \cup DOMAIN q.params
    BY <1>4, <1>6
  <2>2. UNION {DOMAIN log'[n].q.params : n \in Own(p, born)'}
          = (UNION {DOMAIN log[n].q.params : n \in Own(p, born)}) \cup DOMAIN q.params
    BY <1>5, <1>16
  <2>. QED  BY <1>6, <1>9, <2>1, <2>2
<1>14. r.count < LEARNING_THRESHOLD => \A n \in Own(p, born)' : log'[n].flags = {}
  <2>1. b.count \in Nat /\ LEARNING_THRESHOLD \in Nat
    BY <1>1, <1>9, OwnFinite DEF Baselines!BaselinesAssumption
  <2>2. b.count + 1 < LEARNING_THRESHOLD => flags = {}
    BY DEF Counts
  <2>. QED  BY <1>4, <1>5, <1>9, <1>16, <2>1, <2>2
<1>15. StandsFor(p, r)'
  BY <1>4, <1>10, <1>11, <1>12, <1>13, <1>14 DEF StandsFor
<1>. QED  BY <1>2, <1>3, <1>4, <1>5, <1>7, <1>15

\* The baselines of other paths stand for what they did.
LEMMA OthersExact ==
  ASSUME BaselineTypes, NEW q \in Asked, NEW flags \in SUBSET Kinds, now \in Nat,
         log' = Append(log, [q |-> q, at |-> now, flags |-> flags]),
         NEW p, p # q.path, NEW b, b.born \in 1 .. Len(log), StandsFor(p, b)
  PROVE  StandsFor(p, b)'
<1>1. PICK l : l = Len(log) + 1
  OBVIOUS
<1>2. PICK born \in 1 .. Len(log) : born = b.born
  OBVIOUS
<1>3. born <= l
  BY <1>1, <1>2, CheckedElements
<1>4. Own(p, born)' = Own(p, born) /\ \A n \in Own(p, born) : n \in DOMAIN log /\ log'[n] = log[n]
  <2>1. /\ Own(p, born)' = Own(p, born) \cup (IF p = q.path THEN {l} ELSE {})
        /\ \A n \in Own(p, born) : n \in DOMAIN log /\ log'[n] = log[n]
    BY <1>1, <1>3, OwnAfter
  <2>. QED  BY <2>1
<1>5. ASSUME NEW k PROVE With(p, born, k)' = With(p, born, k)
  <2>1. With(p, born, k)' = With(p, born, k)
                            \cup (IF p = q.path /\ k \in DOMAIN q.params THEN {l} ELSE {})
    BY <1>1, <1>3, WithAfter
  <2>. QED  BY <2>1
<1>6. ASSUME NEW k \in DOMAIN b.knownParams
      PROVE  b.knownParams[k].types = {log'[n].q.params[k].type : n \in With(p, born, k)'}
  <2>1. With(p, born, k) \subseteq Own(p, born)
    BY DEF With
  <2>2. b.knownParams[k].types = {log[n].q.params[k].type : n \in With(p, born, k)}
    BY <1>2, <1>6 DEF StandsFor
  <2>3. With(p, born, k)' = With(p, born, k)
    BY <1>5
  <2>. QED  BY <1>4, <2>1, <2>2, <2>3
<1>7. {log'[n].q.method : n \in Own(p, born)'} = {log[n].q.method : n \in Own(p, born)}
  BY <1>4
<1>8. UNION {DOMAIN log'[n].q.params : n \in Own(p, born)'}
        = UNION {DOMAIN log[n].q.params : n \in Own(p, born)}
  BY <1>4
<1>. QED  BY <1>2, <1>4, <1>6, <1>7, <1>8 DEF StandsFor

LEMMA AskedStays ==
  ASSUME BaselineTypes, NEW q \in Asked, NEW flags \in SUBSET Kinds, now \in Nat,
         log' = Append(log, [q |-> q, at |-> now, flags |-> flags]),
         NEW p, NEW o, o # q.path, p = q.path \/ AskedAfter(p, o)
  PROVE  AskedAfter(p, o)'
<1>1. PICK l : l = Len(log) + 1
  OBVIOUS
<1>2. /\ l \in Nat /\ l \notin DOMAIN log /\ Len(log') = l
      /\ DOMAIN log' = DOMAIN log \cup {l} /\ DOMAIN log = 1 .. Len(log) /\ Len(log) \in Nat
      /\ \A n \in DOMAIN log : log'[n] = log[n]
      /\ log'[l] = [q |-> q, at |-> now, flags |-> flags]
  BY <1>1, OneCallMore, CheckedElements
<1>3. CASE p = q.path
  BY <1>2, <1>3 DEF AskedAfter
<1>4. CASE AskedAfter(p, o)
  <2>1. PICK n \in DOMAIN log : log[n].q.path = p /\ \A m \in n .. Len(log) : log[m].q.path # o
    BY <1>4 DEF AskedAfter
  <2>2. \A m \in n .. l : log'[m].q.path # o
    <3>1. \A m \in n .. l : m \in n .. Len(log) \/ m = l
      BY <1>1, <1>2
    <3>2. \A m \in n .. Len(log) : m \in DOMAIN log
      BY <1>2
    <3>. QED  BY <1>2, <2>1, <3>1, <3>2
  <2>. QED  BY <1>2, <2>1, <2>2 DEF AskedAfter
<1>. QED  BY <1>3, <1>4

LEMMA CheckKeeps ==
  ASSUME Baselines!BaselinesAssumption, BaselinesInv, NEW q \in Asked, Baselines!Check(q)
  PROVE  BaselinesInv'
<1> DEFINE path == q.path
           room == Room(path)
<1>1. /\ BaselineTypes /\ now \in Nat /\ Len(log) \in Nat /\ now' = now /\ MAX_BASELINES \in Nat
  <2>1. BaselineTypes /\ now' = now
    BY DEF BaselinesInv, Baselines!Check
  <2>. QED  BY <2>1, CheckedElements, SMTT(30) DEF BaselineTypes, Baselines!BaselinesAssumption
<1>2. PICK b : b = Reached(path)
  OBVIOUS
<1>3. IsBaseline(b) /\ b.born \in 1 .. Len(log) + 1 /\ StandsFor(path, b)
  BY <1>2, ReachedExact
<1>4. PICK admitted \in Baselines!Admissible(b.knownParams, q.params), flags \in SUBSET Kinds : \E r :
           /\ admitted \subseteq DOMAIN q.params => Counts(b, r, q, admitted, flags)
           /\ baselines' = MapSet(room, path, r)
           /\ log' = Append(log, [q |-> q, at |-> now, flags |-> flags])
  <2>1. IsBaseline(Reached(path))
    BY <1>2, <1>3
  <2>. QED  BY <1>2, <2>1, Answered
<1>14. PICK r :
           /\ admitted \subseteq DOMAIN q.params => Counts(b, r, q, admitted, flags)
           /\ baselines' = MapSet(room, path, r)
           /\ log' = Append(log, [q |-> q, at |-> now, flags |-> flags])
  BY <1>4
<1>5. admitted \subseteq DOMAIN q.params
  <2>1. /\ IsFiniteSet(DOMAIN b.knownParams) /\ IsFiniteSet(DOMAIN q.params)
        /\ Cardinality(DOMAIN b.knownParams) <= MAX_KNOWN_PARAMS /\ MAX_KNOWN_PARAMS \in Nat
    BY <1>3, BaselinesMaps DEF IsBaseline, Baselines!BaselinesAssumption
  <2>2. admitted \subseteq DOMAIN q.params \ DOMAIN b.knownParams
    BY <2>1, Admission DEF Admits
  <2>. QED  BY <2>2
<1>6. IsBaseline(r)' /\ r.born \in 1 .. Len(log') /\ StandsFor(path, r)'
  <2>1. Counts(b, r, q, admitted, flags)
    BY <1>14, <1>5
  <2>. QED  BY <1>1, <1>3, <1>14, <2>1, LearntExact
<1>7. /\ Within(room, MAX_BASELINES) /\ MapSize(room) < MAX_BASELINES
      /\ ~MapHas(room, path)
      /\ SameOrder(room.keys, baselines.keys)
      /\ \A p \in DOMAIN room.of : p \in DOMAIN baselines.of /\ room.of[p] = baselines.of[p]
  BY <1>1, RoomMade
<1>. HIDE DEF room
<1>8. /\ DOMAIN baselines'.of = DOMAIN room.of \cup {path} /\ baselines'.of[path] = r
      /\ \A p \in DOMAIN room.of : p # path =>
           p \in DOMAIN baselines.of /\ baselines'.of[p] = baselines.of[p]
  BY <1>14, <1>7, SetValue
<1>9. Within(baselines', MAX_BASELINES)
  BY <1>1, <1>14, <1>7, SetWithin
<1>10. Len(log') = Len(log) + 1 /\ log' \in Seq(Checked)
  BY <1>1, <1>14, OneCallMore
<1>11. ASSUME NEW p \in DOMAIN baselines'.of
       PROVE  /\ IsBaseline(baselines.of[p])' /\ baselines'.of[p].born \in 1 .. Len(log')
              /\ StandsFor(p, baselines.of[p])'
  <2>1. CASE p = path
    BY <1>6, <1>8, <2>1
  <2>2. CASE p # path
    <3>1. p \in DOMAIN baselines.of /\ baselines'.of[p] = baselines.of[p]
      BY <1>8, <2>2
    <3>2. PICK c : c = baselines.of[p]
      OBVIOUS
    <3>3. IsBaseline(c) /\ c.born \in 1 .. Len(log) /\ StandsFor(p, c)
      BY <3>1, <3>2 DEF BaselinesInv, BaselineTypes
    <3>4. IsBaseline(c)' /\ c.born \in 1 .. Len(log')
      BY <1>1, <1>10, <3>3 DEF IsBaseline
    <3>5. StandsFor(p, c)'
      BY <1>1, <1>14, <2>2, <3>3, OthersExact
    <3>6. c = baselines'.of[p]
      BY <3>1, <3>2
    <3>. QED  BY <3>4, <3>5, <3>6
  <2>. QED  BY <2>1, <2>2
<1>12. BaselineTypes'
  BY <1>1, <1>9, <1>10, <1>11 DEF BaselinesInv, BaselineTypes
<1>13. InOrder'
  <2>1. baselines'.keys = Append(room.keys, path)
    BY <1>14, <1>7 DEF MapSet
  <2>2. room.keys \in Seq(DOMAIN room.of) /\ path \notin DOMAIN room.of
    BY <1>7 DEF Within, Ordered, MapHas
  <2> DEFINE keys == room.keys
             n    == Append(keys, path)
  <2>. HIDE DEF keys
  <2>3. /\ DOMAIN keys = 1 .. Len(keys) /\ Len(keys) \in Nat
        /\ \A i \in DOMAIN keys : keys[i] \in DOMAIN room.of
    <3> DEFINE D == DOMAIN room.of
    <3>. HIDE DEF D
    <3>1. keys \in Seq(D)
      BY <2>2 DEF keys, D
    <3>2. \A i \in DOMAIN keys : keys[i] \in D
      BY <3>1, ElementOfSeq, LenProperties
    <3>. QED  BY <3>1, <3>2, LenProperties DEF D
  <2>4. /\ DOMAIN n = 1 .. Len(keys) + 1 /\ n[Len(keys) + 1] = path
        /\ \A i \in DOMAIN keys : n[i] = keys[i]
    <3> DEFINE D == DOMAIN room.of \cup {path}
    <3>1. keys \in Seq(D) /\ path \in D
      BY <2>2, SeqMonotonic DEF keys
    <3>. HIDE DEF D
    <3>. QED  BY <3>1, AppendProperties, LenProperties
  <2>. HIDE DEF n
  <2>6. baselines'.keys = n
    BY <2>1 DEF n, keys
  <2>5. ASSUME NEW i \in DOMAIN n, NEW j \in DOMAIN n, i < j
        PROVE  AskedAfter(baselines.keys[j], baselines.keys[i])'
    <3>1. i \in DOMAIN keys /\ n[i] = keys[i] /\ keys[i] # path
      BY <2>2, <2>3, <2>4, <2>5
    <3>2. PICK p, o : p = n[j] /\ o = n[i]
      OBVIOUS
    <3>3. CASE j \in DOMAIN keys
      <4>1. PICK k \in DOMAIN baselines.keys, m \in DOMAIN baselines.keys :
               k < m /\ keys[i] = baselines.keys[k] /\ keys[j] = baselines.keys[m]
        BY <1>7, <2>5, <3>1, <3>3 DEF SameOrder, keys
      <4>2. AskedAfter(p, o)
        BY <2>4, <3>1, <3>2, <3>3, <4>1 DEF BaselinesInv, InOrder
      <4>3. AskedAfter(p, o)'
        BY <1>1, <1>14, <3>1, <3>2, <4>2, AskedStays
      <4>. QED  BY <2>6, <3>2, <4>3
    <3>4. CASE j \notin DOMAIN keys
      <4>1. p = path /\ o # path
        BY <2>3, <2>4, <3>1, <3>2, <3>4
      <4>2. AskedAfter(p, o)'
        BY <1>1, <1>14, <4>1, AskedStays
      <4>. QED  BY <2>6, <3>2, <4>2
    <3>. QED  BY <3>3, <3>4
  <2>. QED  BY <2>5, <2>6 DEF InOrder
<1>. QED  BY <1>11, <1>12, <1>13 DEF BaselinesInv

LEMMA StandsStays ==
  ASSUME log' = log, NEW p, NEW b, StandsFor(p, b)
  PROVE  StandsFor(p, b)'
<1>1. Own(p, b.born)' = Own(p, b.born) /\ \A k : With(p, b.born, k)' = With(p, b.born, k)
  BY DEF Own, With
<1>. QED  BY <1>1 DEF StandsFor

\* The collector drops baselines and leaves the others in their order.
LEMMA CollectKeeps ==
  ASSUME Baselines!BaselinesAssumption, BaselinesInv, Baselines!Collect
  PROVE  BaselinesInv'
<1> DEFINE S    == {p \in DOMAIN baselines.of : now - baselines.of[p].lastSeen > idleMs}
           left == MapDelete(baselines, S)
<1>1. baselines' = left /\ now' = now /\ log' = log
  BY BaselinesMaps DEF Baselines!Collect
<1>. HIDE DEF S
<1>2. Within(baselines, MAX_BASELINES) /\ Ordered(baselines) /\ MAX_BASELINES \in Nat
  BY DEF BaselinesInv, BaselineTypes, Within, Baselines!BaselinesAssumption
<1>3. /\ Within(left, MAX_BASELINES) /\ SameOrder(left.keys, baselines.keys)
      /\ \A p \in DOMAIN left.of : p \in DOMAIN baselines.of /\ left.of[p] = baselines.of[p]
  BY <1>2, DeleteWithin, DeletedInOrder, DeletedKeys
<1>. HIDE DEF left
<1>4. BaselineTypes'
  BY <1>1, <1>3 DEF BaselinesInv, BaselineTypes, IsBaseline
<1>5. ASSUME NEW p \in DOMAIN baselines'.of PROVE StandsFor(p, baselines.of[p])'
  <2>1. PICK b : b = baselines.of[p]
    OBVIOUS
  <2>2. StandsFor(p, b) /\ b = baselines'.of[p]
    BY <1>1, <1>3, <2>1 DEF BaselinesInv
  <2>3. StandsFor(p, b)'
    BY <1>1, <2>2, StandsStays
  <2>. QED  BY <2>2, <2>3
<1>6. InOrder'
  BY <1>1, <1>3 DEF BaselinesInv, InOrder, SameOrder, AskedAfter
<1>. QED  BY <1>4, <1>5, <1>6 DEF BaselinesInv

\* Time passes, or nothing.
LEMMA BaselinesTime ==
  ASSUME Baselines!BaselinesAssumption, BaselinesInv, now' \in 0 .. MaxTime, now <= now',
         baselines' = baselines, log' = log
  PROVE  BaselinesInv'
<1>1. now \in Nat /\ now' \in Nat
  BY DEF BaselinesInv, BaselineTypes, Baselines!BaselinesAssumption
<1>2. ASSUME NEW p \in DOMAIN baselines.of PROVE IsBaseline(baselines.of[p])'
  <2>1. IsBaseline(baselines.of[p])
    BY DEF BaselinesInv, BaselineTypes
  <2>. QED  BY <1>1, <2>1 DEF IsBaseline
<1>3. BaselineTypes'
  BY <1>2 DEF BaselinesInv, BaselineTypes
<1>4. ASSUME NEW p \in DOMAIN baselines'.of PROVE StandsFor(p, baselines.of[p])'
  <2>1. PICK b : b = baselines.of[p]
    OBVIOUS
  <2>2. StandsFor(p, b)'
    BY <2>1, StandsStays DEF BaselinesInv
  <2>. QED  BY <2>1, <2>2
<1>5. InOrder'
  BY DEF BaselinesInv, InOrder, AskedAfter
<1>. QED  BY <1>3, <1>4, <1>5 DEF BaselinesInv

LEMMA BaselinesStep ==
  Baselines!BaselinesAssumption /\ BaselinesInv /\ [Baselines!Next]_(Baselines!vars) => BaselinesInv'
<1> SUFFICES ASSUME Baselines!BaselinesAssumption, BaselinesInv, [Baselines!Next]_(Baselines!vars)
             PROVE  BaselinesInv'
  OBVIOUS
<1>1. now \in 0 .. MaxTime /\ MaxTime \in Nat
  BY DEF BaselinesInv, BaselineTypes, Baselines!BaselinesAssumption
<1>2. ASSUME NEW q \in Asked, Baselines!Check(q) PROVE BaselinesInv'
  BY <1>2, CheckKeeps
<1>3. CASE Baselines!Collect
  BY <1>3, CollectKeeps
<1>4. CASE Baselines!Tick
  BY <1>1, <1>4, BaselinesTime DEF Baselines!Tick
<1>5. CASE UNCHANGED Baselines!vars
  BY <1>1, <1>5, BaselinesTime DEF Baselines!vars
<1>. QED  BY <1>2, <1>3, <1>4, <1>5 DEF Baselines!Next

-----------------------------------------------------------------------------
(* The trap router.                                                        *)

LEMMA TrapMaps ==
  /\ \A f, k, v : Traps!Put(f, k, v) = Put(f, k, v)
  /\ \A s, S : Traps!Without(s, S) = Without(s, S)
  /\ \A S : Traps!Cardinality(S) = Cardinality(S)
<1>1. \A f, k, v : Traps!Put(f, k, v) = Put(f, k, v)
  BY DEF Traps!Put, Put
<1>2. \A s, S : Traps!Without(s, S) = Without(s, S)
  BY DEF Traps!Without, Without, Traps!Cardinality, Cardinality
<1>3. \A S : Traps!Cardinality(S) = Cardinality(S)
  BY DEF Traps!Cardinality, Cardinality
<1>. QED  BY <1>1, <1>2, <1>3

Recorded == {Traps!Unrecorded, [status |-> 200, reason |-> "Recon_Trap_Path"]}
            \cup {Traps!Refusal[k] : k \in {"attack", "suspiciousMethod", "trapToken", "limited"}}
Answers    == [q : Visits, at : Nat, status : Int, recorded : Recorded]

\* The requests for traps, and those that count against the n-th.
IsTrap(n)  == log[n].q.kind = "trapPath" /\ log[n].status # Traps!Passed
TrapsOf(c) == {n \in DOMAIN log : IsTrap(n) /\ log[n].q.client = c}
Against(n) == {m \in DOMAIN log : /\ IsTrap(m) /\ m < n /\ log[m].q.client = log[n].q.client
                                  /\ log[n].at - log[m].at < RATE_LIMIT_WINDOW_MS}

\* The times still in the window at s.
Live(s) == {t \in Nat : s - t < RATE_LIMIT_WINDOW_MS}

HitsOf(c) == IF c \in DOMAIN trapHits THEN trapHits[c] ELSE <<>>

TrapTypes ==
  /\ now \in 0 .. MaxTime
  /\ log \in Seq(Answers) /\ Len(log) <= MaxCalls
  /\ DOMAIN tarpit = {n \in DOMAIN log : log[n].status = Traps!Waiting}
  /\ DOMAIN trapHits \subseteq Clients
  /\ \A c \in DOMAIN trapHits : trapHits[c] \in Seq(Nat) /\ Len(trapHits[c]) \in 1 .. Len(log)

NotLater ==
  /\ \A n \in DOMAIN log : log[n].at <= now
  /\ \A c \in DOMAIN trapHits : \A i \in DOMAIN trapHits[c] : trapHits[c][i] <= now

\* However few are kept, as many of a client's hits are in the window as it has asked
\* for traps in it, now and at any later time.
Counted ==
  \A c \in Clients, s \in Nat : now <= s =>
    Cardinality(Where(HitsOf(c), Live(s)))
      = Cardinality({n \in TrapsOf(c) : log[n].at \in Live(s)})

LimitKept ==
  \A n \in DOMAIN log : IsTrap(n) =>
    /\ log[n].recorded # Traps!Unrecorded
    /\ (log[n].status = 429) <=> Cardinality(Against(n)) >= RATE_LIMIT_MAX_HITS

TrapInv == TrapTypes /\ NotLater /\ Counted /\ LimitKept

LEMMA TrapElements ==
  ASSUME TrapTypes
  PROVE  /\ \A n \in DOMAIN log : log[n] \in Answers
         /\ DOMAIN log = 1 .. Len(log) /\ Len(log) \in Nat
BY ElementOfSeq, LenProperties DEF TrapTypes

LEMMA TrapInvHolds == Traps!TrapAssumption /\ TrapInv => Traps!TypeOK /\ Traps!TrapLimitExact
<1> SUFFICES ASSUME Traps!TrapAssumption, TrapInv PROVE Traps!TypeOK /\ Traps!TrapLimitExact
  OBVIOUS
<1>1. Traps!TypeOK
  <2>1. Len(log) \in Nat /\ MaxCalls \in Nat /\ Len(log) <= MaxCalls
    BY TrapElements DEF TrapInv, TrapTypes, Traps!TrapAssumption
  <2>. QED  BY <2>1 DEF TrapInv, TrapTypes, Traps!TypeOK
<1>2. Traps!TrapLimitExact
  <2> SUFFICES ASSUME NEW n \in Traps!Trapped
               PROVE  /\ log[n].recorded # Traps!Unrecorded
                      /\ (log[n].status = 429) <=>
                           Cardinality(Traps!Earlier(n)) >= RATE_LIMIT_MAX_HITS
    BY TrapMaps DEF Traps!TrapLimitExact
  <2>1. Traps!Earlier(n) = Against(n)
    BY DEF Against, IsTrap, Traps!Earlier, Traps!Trapped
  <2>2. n \in DOMAIN log /\ IsTrap(n)
    BY DEF IsTrap, Traps!Trapped
  <2>3. /\ log[n].recorded # Traps!Unrecorded
        /\ (log[n].status = 429) <=> Cardinality(Against(n)) >= RATE_LIMIT_MAX_HITS
    BY <2>2, Zenon DEF TrapInv, LimitKept
  <2>4. Cardinality(Traps!Earlier(n)) = Cardinality(Against(n))
    BY <2>1, Zenon
  <2>. QED  BY <2>3, <2>4
<1>. QED  BY <1>1, <1>2

LEMMA TrapInit == Traps!TrapAssumption /\ Traps!Init => TrapInv
<1> SUFFICES ASSUME Traps!TrapAssumption, Traps!Init PROVE TrapInv
  OBVIOUS
<1>1. now = 0 /\ DOMAIN log = {} /\ DOMAIN trapHits = {} /\ DOMAIN tarpit = {} /\ Len(log) = 0
      /\ log \in Seq(Answers)
  BY EmptySeq DEF Traps!Init, Traps!Empty
<1>2. TrapTypes /\ NotLater /\ LimitKept
  BY <1>1 DEF TrapTypes, NotLater, LimitKept, Traps!TrapAssumption
<1>3. Counted
  <2>. SUFFICES ASSUME NEW c \in Clients, NEW s \in Nat
                PROVE  Where(HitsOf(c), Live(s))
                         = {n \in TrapsOf(c) : log[n].at \in Live(s)}
    BY DEF Counted
  <2>1. DOMAIN HitsOf(c) = {}
    BY <1>1, EmptySeq DEF HitsOf
  <2>. QED  BY <1>1, <2>1 DEF TrapsOf, Where
<1>. QED  BY <1>2, <1>3 DEF TrapInv

\* What went before stays as it was: an answer from the tarpit neither refuses nor passes.
LEMMA EarlierKept ==
  ASSUME TrapTypes, DOMAIN log \subseteq DOMAIN log', DOMAIN log' \subseteq Nat,
         \A m \in DOMAIN log' \ DOMAIN log : \A n \in DOMAIN log : n < m,
         \A n \in DOMAIN log :
           /\ log'[n].q = log[n].q /\ log'[n].at = log[n].at /\ log'[n].recorded = log[n].recorded
           /\ (log'[n].status = Traps!Passed) <=> (log[n].status = Traps!Passed)
           /\ (log'[n].status = 429) <=> (log[n].status = 429)
  PROVE  /\ \A n \in DOMAIN log : IsTrap(n)' <=> IsTrap(n)
         /\ \A n \in DOMAIN log : Against(n)' = Against(n)
         /\ LimitKept =>
              \A n \in DOMAIN log : IsTrap(n)' =>
                /\ log'[n].recorded # Traps!Unrecorded
                /\ (log'[n].status = 429) <=> Cardinality(Against(n)') >= RATE_LIMIT_MAX_HITS
<1>1. \A n \in DOMAIN log : IsTrap(n)' <=> IsTrap(n)
  BY DEF IsTrap
<1>2. ASSUME NEW n \in DOMAIN log PROVE Against(n)' = Against(n)
  <2>1. \A m \in DOMAIN log' : m < n => m \in DOMAIN log
    <3>1. n \in Nat /\ \A m \in DOMAIN log' : m \in Nat
      BY <1>2
    <3>. QED  BY <1>2, <3>1
  <2>. QED  BY <1>1, <1>2, <2>1 DEF Against
<1>. QED  BY <1>1, <1>2 DEF LimitKept

\* A request that is no trap, or is passed on.
LEMMA NoTrapKeeps ==
  ASSUME Traps!TrapAssumption, TrapInv, NEW q \in Visits, NEW status \in Int \ {Traps!Waiting},
         NEW recorded \in Recorded,
         q.kind = "trapPath" => status = Traps!Passed,
         Traps!Answer(q, status, recorded), now' = now, trapHits' = trapHits, tarpit' = tarpit,
         Len(log) < MaxCalls
  PROVE  TrapInv'
<1> DEFINE e == [q |-> q, at |-> now, status |-> status, recorded |-> recorded]
<1>1. /\ log \in Seq(Answers) /\ now \in Nat /\ Len(log) \in Nat /\ DOMAIN log = 1 .. Len(log)
      /\ MaxCalls \in Nat
  BY TrapElements DEF TrapInv, TrapTypes, Traps!TrapAssumption
<1>2. e \in Answers
  BY <1>1 DEF Answers
<1>0. PICK k \in Nat : k = Len(log) + 1
  BY <1>1
<1>3. /\ log' \in Seq(Answers) /\ DOMAIN log' = DOMAIN log \cup {k} /\ Len(log') = Len(log) + 1
      /\ k \notin DOMAIN log /\ \A n \in DOMAIN log : n < k
      /\ \A n \in DOMAIN log : log'[n] = log[n]
      /\ log'[k] = e
  BY <1>0, <1>1, <1>2, AppendProperties, LenProperties DEF Traps!Answer
<1>4. /\ \A n \in DOMAIN log : IsTrap(n)' <=> IsTrap(n)
      /\ \A n \in DOMAIN log : IsTrap(n)' =>
           /\ log'[n].recorded # Traps!Unrecorded
           /\ (log'[n].status = 429) <=> Cardinality(Against(n)') >= RATE_LIMIT_MAX_HITS
  BY <1>1, <1>3, EarlierKept DEF TrapInv
<1>5. ~IsTrap(k)'
  BY <1>3 DEF IsTrap
<1>6. TrapTypes'
  <2>1. {n \in DOMAIN log' : log'[n].status = Traps!Waiting}
          = {n \in DOMAIN log : log[n].status = Traps!Waiting}
    BY <1>3
  <2>2. \A c \in DOMAIN trapHits : Len(trapHits[c]) \in 1 .. Len(log')
    BY <1>1, <1>3 DEF TrapInv, TrapTypes
  <2>. QED  BY <1>1, <1>3, <2>1, <2>2 DEF TrapInv, TrapTypes
<1>7. NotLater'
  BY <1>1, <1>3 DEF TrapInv, NotLater
<1>8. Counted'
  <2>1. ASSUME NEW c \in Clients, NEW s \in Nat
        PROVE  /\ {n \in TrapsOf(c)' : log'[n].at \in Live(s)} = {n \in TrapsOf(c) : log[n].at \in Live(s)}
               /\ HitsOf(c)' = HitsOf(c)
    BY <1>3, <1>4, <1>5 DEF TrapsOf, HitsOf
  <2>. SUFFICES ASSUME NEW c \in Clients, NEW s \in Nat, now' <= s
                PROVE  Cardinality(Where(HitsOf(c)', Live(s)))
                         = Cardinality({n \in TrapsOf(c)' : log'[n].at \in Live(s)})
    BY DEF Counted, Live
  <2>. QED  BY <2>1 DEF TrapInv, Counted
<1>9. LimitKept'
  BY <1>3, <1>4, <1>5 DEF LimitKept
<1>. QED  BY <1>6, <1>7, <1>8, <1>9 DEF TrapInv

\* A trap: the hits outside the window are dropped and this one is added.
LEMMA TrapCaught ==
  ASSUME Traps!TrapAssumption, TrapInv, NEW q \in Visits, Traps!TrapPath(q), now' = now,
         Len(log) < MaxCalls
  PROVE  TrapInv'
<1> DEFINE c    == q.client
           E    == {t \in 0 .. now : now - t >= RATE_LIMIT_WINDOW_MS}
           old  == HitsOf(c)
           left == Without(old, E)
           full == Len(Traps!Hits(c)) > RATE_LIMIT_MAX_HITS
<1>1. /\ log \in Seq(Answers) /\ now \in Nat /\ Len(log) \in Nat /\ DOMAIN log = 1 .. Len(log)
      /\ MaxCalls \in Nat /\ RATE_LIMIT_MAX_HITS \in Nat /\ RATE_LIMIT_WINDOW_MS \in Nat
      /\ c \in Clients /\ q.kind = "trapPath"
  BY TrapElements DEF TrapInv, TrapTypes, Traps!TrapAssumption, Traps!TrapPath
<1>2. PICK k \in Nat : k = Len(log) + 1
  BY <1>1
<1>3. PICK status \in Int, recorded \in Recorded :
        /\ Traps!Answer(q, status, recorded) /\ recorded # Traps!Unrecorded
        /\ status # Traps!Passed /\ (status = 429 <=> full)
        /\ status = Traps!Waiting => enableTarpit /\ ~full
        /\ enableTarpit /\ ~full => status = Traps!Waiting
        /\ tarpit' = IF enableTarpit /\ ~full THEN Traps!Put(tarpit, Len(log) + 1, now + tarpitDelayMs)
                     ELSE tarpit
  <2>1. CASE full
    <3>1. /\ Traps!Answer(q, 429, Traps!Refusal.limited) /\ tarpit' = tarpit
      BY <2>1 DEF Traps!TrapPath
    <3>2. /\ Traps!Refusal.limited \in Recorded /\ Traps!Refusal.limited # Traps!Unrecorded
          /\ 429 \in Int /\ 429 # Traps!Passed /\ 429 # Traps!Waiting
      BY DEF Traps!Refusal, Recorded, Traps!Unrecorded, Traps!Passed, Traps!Waiting
    <3>. QED  BY <2>1, <3>1, <3>2
  <2>2. CASE ~full
    <3> DEFINE st == IF enableTarpit THEN Traps!Waiting ELSE Traps!Bait(q)
               re == [status |-> 200, reason |-> "Recon_Trap_Path"]
    <3>1. /\ Traps!Answer(q, st, re)
          /\ tarpit' = IF enableTarpit THEN Traps!Put(tarpit, Len(log) + 1, now + tarpitDelayMs)
                       ELSE tarpit
      BY <2>2 DEF Traps!TrapPath
    <3>2. /\ st \in Int /\ st # Traps!Passed /\ st # 429 /\ (st = Traps!Waiting <=> enableTarpit)
      BY DEF Traps!Bait, Traps!Passed, Traps!Waiting
    <3>3. re \in Recorded /\ re # Traps!Unrecorded
      BY DEF Traps!Unrecorded, Recorded
    <3>. HIDE DEF st, re
    <3>. QED  BY <2>2, <3>1, <3>2, <3>3
  <2>. QED  BY <2>1, <2>2
<1> DEFINE e == [q |-> q, at |-> now, status |-> status, recorded |-> recorded]
<1>4. e \in Answers
  BY <1>1 DEF Answers
<1>5. /\ log' \in Seq(Answers) /\ DOMAIN log' = DOMAIN log \cup {k} /\ Len(log') = Len(log) + 1
      /\ k \notin DOMAIN log /\ \A n \in DOMAIN log : n < k
      /\ \A n \in DOMAIN log : log'[n] = log[n]
      /\ log'[k] = e
  BY <1>1, <1>2, <1>3, <1>4, AppendProperties, LenProperties DEF Traps!Answer
<1>6. /\ \A n \in DOMAIN log : IsTrap(n)' <=> IsTrap(n)
      /\ \A n \in DOMAIN log : IsTrap(n)' =>
           /\ log'[n].recorded # Traps!Unrecorded
           /\ (log'[n].status = 429) <=> Cardinality(Against(n)') >= RATE_LIMIT_MAX_HITS
  BY <1>1, <1>5, EarlierKept DEF TrapInv
<1>7. IsTrap(k)'
  BY <1>1, <1>3, <1>5 DEF IsTrap
<1>8. /\ old \in Seq(Nat) /\ \A i \in DOMAIN old : old[i] <= now
      /\ Len(old) \in 0 .. Len(log)
  <2>1. CASE c \in DOMAIN trapHits
    BY <1>1, <2>1 DEF HitsOf, TrapInv, TrapTypes, NotLater
  <2>2. CASE c \notin DOMAIN trapHits
    BY <1>1, <2>2, EmptySeq DEF HitsOf
  <2>. QED  BY <2>1, <2>2
<1>9. Traps!Hits(c) = Append(left, now) /\ trapHits' = Traps!Put(trapHits, c, Traps!Hits(c))
  BY TrapMaps DEF Traps!Hits, HitsOf, Traps!TrapPath
<1>10. /\ left \in Seq(Nat) /\ Len(left) = Cardinality(Where(old, Live(now)))
       /\ Len(left) <= Len(old) /\ \A i \in DOMAIN left : left[i] <= now
  <2>. HIDE DEF old
  <2>1. /\ Without(old, E) \in Seq(Nat \ E)
        /\ \E place : IsRest(Without(old, E), place, old, Remaining(old, E))
    <3>. HIDE DEF E
    <3>. QED  BY <1>8, WithoutPlaces
  <2>2. PICK place : IsRest(left, place, old, Remaining(old, E))
    BY <2>1
  <2>3. left \in Seq(Nat)
    BY <2>1
  <2>4. Remaining(old, E) = Where(old, Live(now))
    <3>1. \A i \in DOMAIN old : old[i] \in Nat
      BY <1>8, ElementOfSeq, LenProperties
    <3>. QED  BY <1>1, <1>8, <3>1 DEF Live, Where, Remaining
  <2>5. Len(left) = Cardinality(Where(old, Live(now)))
    BY <2>2, <2>4 DEF IsRest
  <2>6. Cardinality(Remaining(old, E)) <= Len(old)
    <3>1. DOMAIN old = 1 .. Len(old) /\ Len(old) \in Nat
      BY <1>8, LenProperties
    <3>2. IsFiniteSet(1 .. Len(old)) /\ Cardinality(1 .. Len(old)) = Len(old)
      <4> DEFINE l == Len(old)
      <4>. HIDE DEF l
      <4>1. l \in Nat
        BY <3>1 DEF l
      <4>2. IsFiniteSet(1 .. l) /\ Cardinality(1 .. l) = l
        BY <4>1, FS_Interval
      <4>. QED  BY <4>2 DEF l
    <3>3. Remaining(old, E) \in SUBSET (1 .. Len(old))
      BY <3>1 DEF Remaining
    <3>. QED  BY <3>2, <3>3, FS_Subset
  <2>7. \A i \in DOMAIN left : left[i] <= now
    BY <1>8, <2>2 DEF IsRest, Remaining, Bijection, Injection, Surjection
  <2>. QED  BY <2>2, <2>3, <2>5, <2>6, <2>7 DEF IsRest
<1>. HIDE DEF left
<1>11. /\ Traps!Hits(c) \in Seq(Nat) /\ Len(Traps!Hits(c)) = Len(left) + 1 /\ Len(left) \in Nat
       /\ \A i \in DOMAIN Traps!Hits(c) : Traps!Hits(c)[i] <= now
  BY <1>1, <1>9, <1>10, AppendProperties, LenProperties
<1>12. /\ DOMAIN trapHits' = DOMAIN trapHits \cup {c} /\ trapHits'[c] = Traps!Hits(c)
       /\ \A d \in DOMAIN trapHits : d # c => trapHits'[d] = trapHits[d]
       /\ DOMAIN tarpit' = IF enableTarpit /\ ~full THEN DOMAIN tarpit \cup {k} ELSE DOMAIN tarpit
  BY <1>2, <1>3, <1>9 DEF Traps!Put
<1>13. TrapTypes'
  <2>1. {n \in DOMAIN log' : log'[n].status = Traps!Waiting} = DOMAIN tarpit'
    BY <1>3, <1>5, <1>12 DEF TrapInv, TrapTypes
  <2>2. ASSUME NEW d \in DOMAIN trapHits'
        PROVE  trapHits'[d] \in Seq(Nat) /\ Len(trapHits'[d]) \in 1 .. Len(log')
    <3>1. CASE d = c
      BY <1>1, <1>5, <1>8, <1>10, <1>11, <1>12, <3>1
    <3>2. CASE d # c
      BY <1>1, <1>5, <1>12, <3>2 DEF TrapInv, TrapTypes
    <3>. QED  BY <3>1, <3>2
  <2>3. DOMAIN trapHits' \subseteq Clients /\ Len(log') <= MaxCalls /\ now' \in 0 .. MaxTime
    BY <1>1, <1>5, <1>12 DEF TrapInv, TrapTypes
  <2>. QED  BY <1>5, <2>1, <2>2, <2>3 DEF TrapTypes
<1>14. NotLater'
  <2>1. \A n \in DOMAIN log' : log'[n].at <= now'
    BY <1>1, <1>5 DEF TrapInv, NotLater
  <2>2. \A d \in DOMAIN trapHits' : \A i \in DOMAIN trapHits'[d] : trapHits'[d][i] <= now'
    BY <1>11, <1>12 DEF TrapInv, NotLater
  <2>. QED  BY <2>1, <2>2 DEF NotLater
<1>15. ASSUME NEW d \in Clients, NEW s \in Nat, now <= s
       PROVE  Cardinality(Where(HitsOf(d)', Live(s)))
                = Cardinality({n \in TrapsOf(d)' : log'[n].at \in Live(s)})
  <2> DEFINE was == {n \in TrapsOf(d) : log[n].at \in Live(s)}
  <2>1. Cardinality(Where(HitsOf(d), Live(s))) = Cardinality(was)
    BY <1>15 DEF TrapInv, Counted
  <2>2. IsFiniteSet(was) /\ k \notin was
    <3>1. PICK l \in Nat : l = Len(log)
      BY <1>1
    <3>2. IsFiniteSet(1 .. l)
      BY FS_Interval
    <3>3. was \in SUBSET (1 .. l)
      BY <1>1, <3>1 DEF TrapsOf
    <3>. QED  BY <1>1, <1>2, <3>1, <3>2, <3>3, FS_Subset, SMTT(30)
  <2>3. CASE d # c
    <3>1. HitsOf(d)' = HitsOf(d)
      BY <1>12, <2>3 DEF HitsOf
    <3>2. {n \in TrapsOf(d)' : log'[n].at \in Live(s)} = was
      BY <1>5, <1>6, <2>3 DEF TrapsOf
    <3>. QED  BY <2>1, <3>1, <3>2
  <2>4. CASE d = c
    <3>1. HitsOf(d)' = Append(left, now)
      BY <1>9, <1>12, <2>4 DEF HitsOf
    <3>2. Cardinality(Where(left, Live(s))) = Cardinality(was)
      <4>1. \A x \in Live(s) : x \notin E
        BY <1>1, <1>15 DEF Live
      <4>2. Cardinality(Where(left, Live(s)))
              = Cardinality(Where(old, Live(s)))
        <5> DEFINE T == Live(s)
        <5>. HIDE DEF old, E, T
        <5>1. \A x \in T : x \notin E
          BY <4>1 DEF T
        <5>2. Cardinality(Where(Without(old, E), T))
                = Cardinality(Where(old, T))
          BY <1>8, <5>1, WithoutCount
        <5>. QED  BY <5>2 DEF left, T
      <4>. QED  BY <2>1, <2>4, <4>2
    <3>3. Cardinality(Where(Append(left, now), Live(s)))
            = Cardinality(was) + (IF now \in Live(s) THEN 1 ELSE 0)
      <4> DEFINE T == Live(s)
      <4>. HIDE DEF T, was
      <4>1. Cardinality(Where(Append(left, now), T))
              = Cardinality(Where(left, T)) + (IF now \in T THEN 1 ELSE 0)
        BY <1>1, <1>10, AppendCount
      <4>. QED  BY <3>2, <4>1 DEF T
    <3>4. {n \in TrapsOf(d)' : log'[n].at \in Live(s)}
            = IF now \in Live(s) THEN was \cup {k} ELSE was
      <4>1. TrapsOf(d)' = TrapsOf(d) \cup {k}
        BY <1>5, <1>6, <1>7, <2>4 DEF TrapsOf
      <4>2. \A n \in TrapsOf(d) : log'[n].at = log[n].at
        BY <1>5 DEF TrapsOf
      <4>. QED  BY <1>5, <4>1, <4>2
    <3>5. Cardinality(was \cup {k}) = Cardinality(was) + 1 /\ Cardinality(was) \in Nat
      <4>. HIDE DEF was
      <4>. QED  BY <2>2, FS_AddElement, FS_CardinalityType
    <3>. HIDE DEF was
    <3>6. CASE now \in Live(s)
      BY <3>1, <3>3, <3>4, <3>5, <3>6
    <3>7. CASE now \notin Live(s)
      <4>1. {n \in TrapsOf(d)' : log'[n].at \in Live(s)} = was
        BY <3>4, <3>7
      <4>2. Cardinality(Where(Append(left, now), Live(s))) = Cardinality(was)
        BY <3>3, <3>5, <3>7
      <4>. QED  BY <3>1, <4>1, <4>2
    <3>. QED  BY <3>6, <3>7
  <2>. QED  BY <2>3, <2>4
<1>16. Counted'
  BY <1>15 DEF Counted, Live
<1>17. LimitKept'
  <2>1. Against(k)' = {n \in TrapsOf(c) : log[n].at \in Live(now)}
    <3>1. \A n \in DOMAIN log : log[n].at \in Nat
      BY TrapElements DEF TrapInv, Answers
    <3>2. Against(k)' = {n \in DOMAIN log : IsTrap(n) /\ log[n].q.client = c
                             /\ now - log[n].at < RATE_LIMIT_WINDOW_MS}
      BY <1>1, <1>2, <1>5, <1>6 DEF Against
    <3>. QED  BY <3>1, <3>2 DEF TrapsOf, Live
  <2>2. Cardinality(Against(k)') = Len(left)
    BY <1>1, <1>10, <2>1 DEF TrapInv, Counted
  <2>3. (log'[k].status = 429) <=> Cardinality(Against(k)') >= RATE_LIMIT_MAX_HITS
    BY <1>1, <1>3, <1>5, <1>11, <2>2
  <2>4. log'[k].recorded # Traps!Unrecorded
    BY <1>3, <1>5
  <2>. QED  BY <1>5, <1>6, <2>3, <2>4 DEF LimitKept
<1>. QED  BY <1>13, <1>14, <1>16, <1>17 DEF TrapInv

\* An answer from the tarpit.
LEMMA ReleaseKeeps == ASSUME Traps!TrapAssumption, TrapInv, NEW n, Traps!Release(n) PROVE TrapInv'
<1>1. /\ log \in Seq(Answers) /\ DOMAIN log = 1 .. Len(log) /\ Len(log) \in Nat
      /\ n \in DOMAIN log /\ log[n].status = Traps!Waiting /\ log[n] \in Answers
  BY TrapElements DEF TrapInv, TrapTypes, Traps!Release
<1>2. /\ log' = [log EXCEPT ![n].status = Traps!Bait(log[n].q)] /\ now' = now
      /\ trapHits' = trapHits
      /\ tarpit' = Traps!Drop(tarpit, {n})
  BY DEF Traps!Release
<1>3. Traps!Bait(log[n].q) \in {200, 404}
  BY DEF Traps!Bait
<1>4. /\ DOMAIN log' = DOMAIN log
      /\ \A m \in DOMAIN log : m # n => log'[m] = log[m]
      /\ log'[n] = [log[n] EXCEPT !.status = Traps!Bait(log[n].q)]
  BY <1>1, <1>2
<1>5. log'[n] \in Answers /\ log'[n].q = log[n].q /\ log'[n].at = log[n].at
      /\ log'[n].recorded = log[n].recorded /\ log'[n].status = Traps!Bait(log[n].q)
  <2>1. PICK e \in Answers : e = log[n]
    BY <1>1
  <2>2. PICK b \in {200, 404} : b = Traps!Bait(log[n].q)
    BY <1>3
  <2>3. log'[n] = [e EXCEPT !.status = b]
    BY <1>4, <2>1, <2>2
  <2>. QED  BY <2>1, <2>2, <2>3 DEF Answers
<1>6. log' \in Seq(Answers) /\ Len(log') = Len(log)
  <2>1. \A m \in DOMAIN log : log'[m] \in Answers
    BY <1>4, <1>5, TrapElements DEF TrapInv
  <2>2. log' \in [1 .. Len(log) -> Answers]
    BY <1>1, <1>2, <1>4, <2>1
  <2>3. log' \in Seq(Answers)
    BY <1>1, <2>2, SeqDef
  <2>. QED  BY <1>1, <1>4, <2>3, LenProperties
<1>7. \A m \in DOMAIN log :
           /\ log'[m].q = log[m].q /\ log'[m].at = log[m].at /\ log'[m].recorded = log[m].recorded
           /\ (log'[m].status = Traps!Passed) <=> (log[m].status = Traps!Passed)
           /\ (log'[m].status = 429) <=> (log[m].status = 429)
  <2>1. log'[n].status \in {200, 404} /\ log[n].status = 0
    BY <1>1, <1>3, <1>5 DEF Traps!Waiting
  <2>. SUFFICES ASSUME NEW m \in DOMAIN log
                PROVE  /\ log'[m].q = log[m].q /\ log'[m].at = log[m].at
                       /\ log'[m].recorded = log[m].recorded
                       /\ (log'[m].status = Traps!Passed) <=> (log[m].status = Traps!Passed)
                       /\ (log'[m].status = 429) <=> (log[m].status = 429)
    OBVIOUS
  <2>2. CASE m = n
    BY <1>5, <2>1, <2>2 DEF Traps!Passed
  <2>3. CASE m # n
    BY <1>4, <2>3
  <2>. QED  BY <2>2, <2>3
<1>8. /\ \A m \in DOMAIN log : IsTrap(m)' <=> IsTrap(m)
      /\ \A m \in DOMAIN log : IsTrap(m)' =>
           /\ log'[m].recorded # Traps!Unrecorded
           /\ (log'[m].status = 429) <=> Cardinality(Against(m)') >= RATE_LIMIT_MAX_HITS
  BY <1>1, <1>4, <1>7, EarlierKept DEF TrapInv
<1>9. TrapTypes'
  <2>1. {m \in DOMAIN log' : log'[m].status = Traps!Waiting} = DOMAIN tarpit \ {n}
    <3>1. log'[n].status # Traps!Waiting
      BY <1>3, <1>5 DEF Traps!Waiting
    <3>2. \A m \in DOMAIN log : m # n => (log'[m].status = Traps!Waiting <=> log[m].status = Traps!Waiting)
      BY <1>4
    <3>. QED  BY <1>4, <3>1, <3>2 DEF TrapInv, TrapTypes
  <2>2. DOMAIN tarpit' = DOMAIN tarpit \ {n}
    BY <1>2 DEF Traps!Drop
  <2>. QED  BY <1>2, <1>6, <2>1, <2>2 DEF TrapInv, TrapTypes
<1>10. NotLater'
  BY <1>2, <1>4, <1>7 DEF TrapInv, NotLater
<1>11. Counted'
  <2>1. ASSUME NEW c \in Clients, NEW s \in Nat
        PROVE  /\ {m \in TrapsOf(c)' : log'[m].at \in Live(s)} = {m \in TrapsOf(c) : log[m].at \in Live(s)}
               /\ HitsOf(c)' = HitsOf(c)
    BY <1>2, <1>4, <1>7, <1>8 DEF TrapsOf, HitsOf
  <2>. SUFFICES ASSUME NEW c \in Clients, NEW s \in Nat, now' <= s
                PROVE  Cardinality(Where(HitsOf(c)', Live(s)))
                         = Cardinality({m \in TrapsOf(c)' : log'[m].at \in Live(s)})
    BY DEF Counted, Live
  <2>. QED  BY <1>2, <2>1 DEF TrapInv, Counted
<1>12. LimitKept'
  BY <1>4, <1>8 DEF LimitKept
<1>. QED  BY <1>9, <1>10, <1>11, <1>12 DEF TrapInv

\* Time passes, or nothing.
LEMMA TrapTime ==
  ASSUME Traps!TrapAssumption, TrapInv, now' \in 0 .. MaxTime, now <= now',
         trapHits' = trapHits, tarpit' = tarpit, log' = log
  PROVE  TrapInv'
<1>1. now \in Nat /\ now' \in Nat
  BY DEF TrapInv, TrapTypes, Traps!TrapAssumption
<1>2. TrapTypes'
  BY DEF TrapInv, TrapTypes
<1>3. NotLater'
  <2>1. \A n \in DOMAIN log : log[n].at \in Nat
    BY TrapElements DEF TrapInv, Answers
  <2>2. \A c \in DOMAIN trapHits : \A i \in DOMAIN trapHits[c] : trapHits[c][i] \in Nat
    BY ElementOfSeq, LenProperties DEF TrapInv, TrapTypes
  <2>. QED  BY <1>1, <2>1, <2>2 DEF TrapInv, NotLater
<1>4. Counted'
  <2>1. ASSUME NEW c \in Clients PROVE TrapsOf(c)' = TrapsOf(c) /\ HitsOf(c)' = HitsOf(c)
    BY DEF TrapsOf, HitsOf, IsTrap
  <2>. SUFFICES ASSUME NEW c \in Clients, NEW s \in Nat, now' <= s
                PROVE  Cardinality(Where(HitsOf(c)', Live(s)))
                         = Cardinality({m \in TrapsOf(c)' : log'[m].at \in Live(s)})
    BY DEF Counted, Live
  <2>. QED  BY <1>1, <2>1 DEF TrapInv, Counted
<1>5. LimitKept'
  BY DEF TrapInv, LimitKept, IsTrap, Against
<1>. QED  BY <1>2, <1>3, <1>4, <1>5 DEF TrapInv

LEMMA TrapStep == Traps!TrapAssumption /\ TrapInv /\ [Traps!Next]_(Traps!vars) => TrapInv'
<1> SUFFICES ASSUME Traps!TrapAssumption, TrapInv, [Traps!Next]_(Traps!vars) PROVE TrapInv'
  OBVIOUS
<1>1. ASSUME NEW q \in Visits, Traps!Handle(q) PROVE TrapInv'
  <2>1. now' = now /\ Len(log) < MaxCalls
    BY <1>1 DEF Traps!Handle
  <2>2. Traps!Unrecorded \in Recorded
    BY DEF Traps!Unrecorded, Recorded
  <2>3. CASE Traps!PassOn(q)
    <3>1. Traps!Passed \in Int \ {Traps!Waiting}
      BY DEF Traps!Passed, Traps!Waiting
    <3>. QED  BY <2>1, <2>2, <2>3, <3>1, NoTrapKeeps DEF Traps!PassOn
  <2>4. CASE Traps!Refuse(q)
    <3>1. /\ Traps!Refusal[q.kind] \in Recorded /\ Traps!Refusal[q.kind].status \in Int
          /\ Traps!Refusal[q.kind].status # Traps!Waiting /\ q.kind # "trapPath"
      BY <2>4 DEF Traps!Refuse, Traps!Refusal, Recorded, Traps!Waiting
    <3>. QED  BY <2>1, <2>4, <3>1, NoTrapKeeps DEF Traps!Refuse
  <2>5. CASE Traps!Robots(q)
    <3>1. 200 \in Int \ {Traps!Waiting} /\ q.kind # "trapPath"
      BY <2>5 DEF Traps!Robots, Traps!Waiting
    <3>. QED  BY <2>1, <2>2, <2>5, <3>1, NoTrapKeeps DEF Traps!Robots
  <2>6. CASE Traps!TrapPath(q)
    BY <2>1, <2>6, TrapCaught
  <2>. QED  BY <1>1, <2>3, <2>4, <2>5, <2>6 DEF Traps!Handle
<1>2. ASSUME NEW n \in DOMAIN log, Traps!Release(n) PROVE TrapInv'
  BY <1>2, ReleaseKeeps
<1>3. CASE Traps!Tick
  <2>1. now \in 0 .. MaxTime /\ MaxTime \in Nat
    BY DEF TrapInv, TrapTypes, Traps!TrapAssumption
  <2>. QED  BY <1>3, <2>1, TrapTime DEF Traps!Tick
<1>4. CASE UNCHANGED Traps!vars
  <2>1. now \in 0 .. MaxTime /\ MaxTime \in Nat
    BY DEF TrapInv, TrapTypes, Traps!TrapAssumption
  <2>. QED  BY <1>4, <2>1, TrapTime DEF Traps!vars
<1>. QED  BY <1>1, <1>2, <1>3, <1>4 DEF Traps!Next

-----------------------------------------------------------------------------
(* Generated rules.                                                        *)

LEMMA GeneratedCardinality == \A S : Generated!Cardinality(S) = Cardinality(S)
BY DEF Generated!Cardinality, Cardinality

Outcomes == {"none", "rule", "unparsed", "unwritten"}
Hashes   == {Hash[b] : b \in Bodies}
Entry    == [hash : Hashes, parses : BOOLEAN, start : Nat, ip : Senders, at : Nat]
Call     == [ip : Senders, body : Bodies, at : Nat, start : Nat, outcome : Outcomes]

\* Recorded in a process: outcomes that add a hash.
Adds == {"rule", "unparsed", "unwritten"}

HashesAt(s) ==
  {Hash[log[n].body] : n \in {n \in DOMAIN log : log[n].start = s /\ log[n].outcome \in Adds}}

AutoTypes ==
  /\ now \in 0 .. AutoMaxTime /\ starts \in 1 .. MaxStarts
  /\ file \in Seq(Entry) /\ log \in Seq(Call)
  /\ rules \in Seq(Hashes) /\ compiled \in Seq(Hashes)
  /\ IsFiniteSet(hashes) /\ Cardinality(hashes) <= MAX_AUTO_RULES
  /\ DOMAIN lastGen \subseteq Senders /\ \A ip \in DOMAIN lastGen : lastGen[ip] \in 0 .. now

\* What the engine lists and what it matches with comes from the file; what was appended
\* since the last load is of this process.
FromFile ==
  /\ read \in 0 .. Len(file)
  /\ Generated!ListsAgree
  /\ \A i \in read + 1 .. Len(file) : file[i].start = starts

\* One process appends a hash once, and one for an address per interval.
FileSpaced ==
  \A i, j \in DOMAIN file : i < j /\ file[i].start = file[j].start =>
       /\ file[i].hash # file[j].hash
       /\ file[i].ip = file[j].ip => file[j].at - file[i].at >= intervalMs

\* The process knows what it has appended, and when for whom.
FileKnown ==
  \A i \in DOMAIN file :
    /\ file[i].start <= starts /\ file[i].at <= now
    /\ file[i].start = starts =>
         /\ file[i].hash \in hashes
         /\ file[i].ip \in DOMAIN lastGen /\ file[i].at <= lastGen[file[i].ip]

LogKnown ==
  /\ \A n \in DOMAIN log : log[n].start <= starts
  /\ hashes = HashesAt(starts)

\* What could not be written is not in the file.
Unwritten ==
  \A n \in DOMAIN log : log[n].outcome = "unwritten" =>
       \A i \in DOMAIN file : file[i].start = log[n].start => file[i].hash # Hash[log[n].body]

AutoInv == AutoTypes /\ FromFile /\ FileSpaced /\ FileKnown /\ LogKnown /\ Unwritten

\* What the lists are made of.
LEMMA Elements ==
  ASSUME AutoInv
  PROVE  /\ \A i \in DOMAIN file : file[i] \in Entry
         /\ \A n \in DOMAIN log : log[n] \in Call
         /\ DOMAIN file = 1 .. Len(file) /\ Len(file) \in Nat
         /\ DOMAIN log = 1 .. Len(log) /\ Len(log) \in Nat
BY ElementOfSeq, LenProperties DEF AutoInv, AutoTypes

\* What a load makes of the first n rules of the file.
LEMMA LoadedIs ==
  ASSUME AutoTypes, NEW n \in 0 .. Len(file)
  PROVE  /\ Generated!LoadedUpTo(n) \in Seq(Hashes)
         /\ Len(Generated!LoadedUpTo(n)) \in 0 .. n
         /\ DOMAIN Generated!LoadedUpTo(n) = 1 .. Len(Generated!LoadedUpTo(n))
         /\ \A i \in DOMAIN Generated!LoadedUpTo(n) :
              i \in DOMAIN file /\ Generated!LoadedUpTo(n)[i] = file[i].hash
<1> DEFINE list == Generated!LoadedUpTo(n)
<1>1. /\ \A i \in DOMAIN file : file[i] \in Entry
      /\ DOMAIN file = 1 .. Len(file) /\ Len(file) \in Nat
  BY ElementOfSeq, LenProperties DEF AutoTypes
<1>2. CASE \E i \in 1 .. n : ~file[i].parses
  <2>1. list = <<>>
    BY <1>2 DEF Generated!LoadedUpTo
  <2>. QED  BY <1>1, <2>1, EmptySeq
<1>3. CASE \A i \in 1 .. n : file[i].parses
  <2>1. list = [i \in 1 .. n |-> file[i].hash]
    BY <1>3 DEF Generated!LoadedUpTo
  <2>2. \A i \in 1 .. n : i \in DOMAIN file /\ file[i].hash \in Hashes
    BY <1>1 DEF Entry
  <2>3. list \in Seq(Hashes) /\ DOMAIN list = 1 .. n /\ Len(list) = n
    BY <1>1, <2>1, <2>2, LenProperties
  <2>4. \A i \in DOMAIN list : i \in DOMAIN file /\ list[i] = file[i].hash
    BY <2>1, <2>2
  <2>5. n \in 0 .. n
    BY <1>1
  <2>. QED  BY <2>3, <2>4, <2>5
<1>. QED  BY <1>2, <1>3

LEMMA AutoInvHolds == AutoInv => Generated!TypeOK /\ Generated!RulesAccounted
<1>. SUFFICES ASSUME AutoInv PROVE Generated!TypeOK /\ Generated!RulesAccounted
  OBVIOUS
<1>1. Generated!Members(rules) \cup Generated!Members(compiled) \subseteq Generated!HashesOf(file)
  <2>1. /\ AutoTypes /\ read \in 0 .. Len(file) /\ compiled = Generated!LoadedUpTo(read)
        /\ \A i \in DOMAIN compiled : rules[i] = compiled[i]
        /\ {rules[i] : i \in Generated!Pushed}
             = {file[i].hash : i \in {i \in read + 1 .. Len(file) : file[i].parses}}
    BY DEF AutoInv, FromFile, Generated!ListsAgree
  <2>2. /\ DOMAIN compiled = 1 .. Len(compiled) /\ Len(compiled) \in Nat
        /\ \A i \in DOMAIN compiled : i \in DOMAIN file /\ compiled[i] = file[i].hash
    BY <2>1, LoadedIs
  <2>3. DOMAIN rules = 1 .. Len(rules) /\ Len(rules) \in Nat
    BY <2>1, LenProperties DEF AutoTypes
  <2>4. DOMAIN file = 1 .. Len(file) /\ Len(file) \in Nat
    BY <2>1, LenProperties DEF AutoTypes
  <2>5. ASSUME NEW i \in DOMAIN rules PROVE rules[i] \in Generated!HashesOf(file)
    <3>1. CASE i \in DOMAIN compiled
      BY <2>1, <2>2, <3>1 DEF Generated!HashesOf
    <3>2. CASE i \notin DOMAIN compiled
      <4>1. i \in Generated!Pushed
        BY <2>2, <2>3, <3>2 DEF Generated!Pushed
      <4>2. PICK k \in read + 1 .. Len(file) : rules[i] = file[k].hash
        BY <2>1, <4>1
      <4>3. k \in DOMAIN file
        BY <2>1, <2>4, <4>2
      <4>. QED  BY <4>2, <4>3 DEF Generated!HashesOf
    <3>. QED  BY <3>1, <3>2
  <2>. QED  BY <2>2, <2>5 DEF Generated!Members, Generated!HashesOf
<1>2. \A n \in DOMAIN log : log[n].outcome \in Outcomes
  <2>1. \A n \in DOMAIN log : log[n] \in Call
    BY Elements
  <2>. QED  BY <2>1 DEF Call
<1>3. Generated!TypeOK
  BY <1>1, <1>2, GeneratedCardinality
     DEF AutoInv, AutoTypes, FromFile, Generated!TypeOK, Outcomes
<1>4. Generated!RulesAccounted
  BY DEF AutoInv, FromFile, FileSpaced, LogKnown, HashesAt, Adds, Unwritten,
     Generated!RulesAccounted
<1>. QED  BY <1>3, <1>4

LEMMA AutoInit == Generated!AutoAssumption /\ Generated!Init => AutoInv
<1>. SUFFICES ASSUME Generated!AutoAssumption, Generated!Init PROVE AutoInv
  OBVIOUS
<1>1. DOMAIN file = {} /\ DOMAIN log = {} /\ DOMAIN rules = {} /\ DOMAIN compiled = {}
      /\ Len(file) = 0 /\ Len(compiled) = 0 /\ DOMAIN lastGen = {}
  BY EmptySeq DEF Generated!Init, Generated!Empty
<1>2. AutoTypes
  <2>1. /\ file \in Seq(Entry)
        /\ log \in Seq(Call) /\ rules \in Seq(Hashes) /\ compiled \in Seq(Hashes)
    BY EmptySeq DEF Generated!Init
  <2>. QED  BY <1>1, <2>1, FS_EmptySet DEF Generated!Init, AutoTypes, Generated!AutoAssumption
<1>3. FromFile
  <2>1. read = 0 /\ compiled = <<>> /\ rules = <<>> /\ Len(rules) = 0
    BY <1>1, EmptySeq DEF Generated!Init
  <2>2. \A i \in 1 .. 0 : FALSE
    OBVIOUS
  <2>3. Generated!LoadedUpTo(0) = <<>>
    BY <2>2, EmptySeq DEF Generated!LoadedUpTo
  <2>4. Generated!Pushed = {} /\ read + 1 .. Len(file) = {} /\ read \in 0 .. Len(file)
    BY <1>1, <2>1 DEF Generated!Pushed
  <2>5. Generated!ListsAgree
    BY <1>1, <2>1, <2>3, <2>4 DEF Generated!ListsAgree
  <2>. QED  BY <2>4, <2>5 DEF FromFile
<1>4. FileSpaced /\ FileKnown /\ Unwritten
  BY <1>1 DEF FileSpaced, FileKnown, Unwritten
<1>5. LogKnown
  BY <1>1 DEF LogKnown, HashesAt, Generated!Init
<1>. QED  BY <1>2, <1>3, <1>4, <1>5 DEF AutoInv

\* A call appended to the log: what it adds to the hashes of this process.
LEMMA CallLogged ==
  ASSUME AutoInv, NEW ip \in Senders, NEW body \in Bodies, NEW outcome \in Outcomes,
         Generated!Ended(ip, body, outcome)
  PROVE  /\ log' \in Seq(Call) /\ DOMAIN log' = DOMAIN log \cup {Len(log) + 1}
         /\ Len(log) + 1 \notin DOMAIN log
         /\ \A n \in DOMAIN log : log'[n] = log[n]
         /\ log'[Len(log) + 1] = [ip |-> ip, body |-> body, at |-> now, start |-> starts,
                                  outcome |-> outcome]
<1>1. log \in Seq(Call) /\ now \in Nat /\ starts \in Nat
  BY DEF AutoInv, AutoTypes
<1>2. [ip |-> ip, body |-> body, at |-> now, start |-> starts, outcome |-> outcome] \in Call
  BY <1>1 DEF Call
<1>. QED  BY <1>1, <1>2, AppendProperties, LenProperties DEF Generated!Ended

LEMMA FromFileKept ==
  ASSUME FromFile, rules' = rules, compiled' = compiled, file' = file, read' = read,
         starts' = starts
  PROVE  FromFile'
<1>1. Generated!LoadedUpTo(read)' = Generated!LoadedUpTo(read) /\ Generated!Pushed' = Generated!Pushed
  BY DEF Generated!LoadedUpTo, Generated!Pushed
<1>2. /\ {rules'[i] : i \in Generated!Pushed'} = {rules[i] : i \in Generated!Pushed}
      /\ {file'[i].hash : i \in {i \in read' + 1 .. Len(file') : file'[i].parses}}
           = {file[i].hash : i \in {i \in read + 1 .. Len(file) : file[i].parses}}
  BY <1>1
<1>3. Generated!ListsAgree'
  BY <1>1, <1>2 DEF FromFile, Generated!ListsAgree
<1>. QED  BY <1>3 DEF FromFile

\* A call that writes nothing and records no hash.
LEMMA QuietCall ==
  ASSUME Generated!AutoAssumption, AutoInv, NEW ip \in Senders, NEW body \in Bodies,
         Generated!Ended(ip, body, "none"),
         now' = now, starts' = starts, file' = file, rules' = rules, compiled' = compiled,
         hashes' = hashes, read' = read,
         lastGen' = lastGen \/ lastGen' = Generated!Put(lastGen, ip, now)
  PROVE  AutoInv'
<1>1. /\ log' \in Seq(Call) /\ DOMAIN log' = DOMAIN log \cup {Len(log) + 1}
      /\ Len(log) + 1 \notin DOMAIN log
      /\ \A n \in DOMAIN log : log'[n] = log[n]
      /\ log'[Len(log) + 1] = [ip |-> ip, body |-> body, at |-> now, start |-> starts,
                               outcome |-> "none"]
  <2>1. "none" \in Outcomes
    BY DEF Outcomes
  <2>. QED  BY <2>1, CallLogged
<1>2. now \in Nat /\ starts \in Nat
  BY DEF AutoInv, AutoTypes, Generated!AutoAssumption
<1>3. /\ DOMAIN lastGen \subseteq DOMAIN lastGen' /\ DOMAIN lastGen' \subseteq Senders
      /\ \A i \in DOMAIN lastGen' : lastGen'[i] \in 0 .. now
      /\ \A i \in DOMAIN lastGen : lastGen'[i] = lastGen[i] \/ lastGen'[i] = now
  BY <1>2 DEF AutoInv, AutoTypes, Generated!Put
<1>4. AutoTypes'
  BY <1>1, <1>3 DEF AutoInv, AutoTypes
<1>5. FromFile'
  BY FromFileKept DEF AutoInv
<1>6. FileSpaced'
  BY DEF AutoInv, FileSpaced
<1>7. FileKnown'
  BY <1>3 DEF AutoInv, FileKnown
<1>8. LogKnown'
  <2>1. HashesAt(starts)' = HashesAt(starts)
    BY <1>1 DEF HashesAt, Adds
  <2>. QED  BY <1>1, <1>2, <2>1 DEF AutoInv, LogKnown, AutoTypes
<1>9. Unwritten'
  BY <1>1 DEF AutoInv, Unwritten
<1>. QED  BY <1>4, <1>5, <1>6, <1>7, <1>8, <1>9 DEF AutoInv

\* A generated rule: its hash is new to the process, and where it is appended the
\* address has had none within the interval.
LEMMA GenerateKeeps ==
  ASSUME Generated!AutoAssumption, AutoInv, NEW ip \in Senders, NEW body \in Bodies,
         Generated!Generate(ip, body),
         ~Generated!Full, ~Generated!Recent(ip), UNCHANGED <<now, starts, compiled, read>>
  PROVE  AutoInv'
<1>1. PICK written \in BOOLEAN, parses \in BOOLEAN :
        /\ file' = IF written THEN Append(file, [hash |-> Hash[body], parses |-> parses,
                                                 start |-> starts, ip |-> ip, at |-> now])
                   ELSE file
        /\ rules' = IF written /\ parses THEN Append(rules, Hash[body]) ELSE rules
        /\ Generated!Ended(ip, body, IF written /\ parses THEN "rule"
                           ELSE IF written THEN "unparsed" ELSE "unwritten")
  BY DEF Generated!Generate
<1> DEFINE entry   == [hash |-> Hash[body], parses |-> parses, start |-> starts, ip |-> ip,
                       at |-> now]
           outcome == IF written /\ parses THEN "rule"
                      ELSE IF written THEN "unparsed" ELSE "unwritten"
<1>2. /\ hashes' = hashes \cup {Hash[body]} /\ Hash[body] \notin hashes
      /\ lastGen' = Generated!Put(lastGen, ip, now) /\ now' = now /\ starts' = starts
      /\ compiled' = compiled /\ read' = read
  BY DEF Generated!Generate, Generated!Charge
<1>3. /\ log' \in Seq(Call) /\ DOMAIN log' = DOMAIN log \cup {Len(log) + 1}
      /\ Len(log) + 1 \notin DOMAIN log
      /\ \A n \in DOMAIN log : log'[n] = log[n]
      /\ log'[Len(log) + 1] = [ip |-> ip, body |-> body, at |-> now, start |-> starts,
                               outcome |-> outcome]
  <2>1. outcome \in Outcomes
    BY DEF Outcomes
  <2>. QED  BY <1>1, <2>1, CallLogged
<1>4. /\ now \in Nat /\ starts \in Nat /\ file \in Seq(Entry) /\ rules \in Seq(Hashes)
      /\ compiled \in Seq(Hashes) /\ Hash[body] \in Hashes
  BY DEF AutoInv, AutoTypes, Generated!AutoAssumption, Hashes
<1>5. /\ DOMAIN lastGen' = DOMAIN lastGen \cup {ip}
      /\ lastGen'[ip] = now
      /\ \A i \in DOMAIN lastGen : i # ip => lastGen'[i] = lastGen[i]
  BY <1>2 DEF Generated!Put
<1>6. /\ file' \in Seq(Entry)
      /\ Len(file') \in Nat /\ Len(file) \in Nat /\ Len(file) <= Len(file')
      /\ DOMAIN file \subseteq DOMAIN file'
      /\ \A i \in DOMAIN file : file'[i] = file[i]
      /\ \A i \in DOMAIN file' \ DOMAIN file : i = Len(file) + 1 /\ file'[i] = entry /\ written
      /\ DOMAIN file = 1 .. Len(file) /\ DOMAIN file' = 1 .. Len(file')
      /\ written => Len(file) + 1 \in DOMAIN file'
  <2>1. entry \in Entry
    BY <1>4 DEF Entry
  <2>2. CASE written
    BY <1>1, <1>4, <2>1, <2>2, AppendProperties, LenProperties
  <2>3. CASE ~written
    BY <1>1, <1>4, <2>3, LenProperties
  <2>. QED  BY <2>2, <2>3
<1>7. AutoTypes'
  <2>1. IsFiniteSet(hashes') /\ Cardinality(hashes') <= MAX_AUTO_RULES
    <3>1. Cardinality(hashes) \in Nat /\ IsFiniteSet(hashes)
      BY FS_CardinalityType DEF AutoInv, AutoTypes
    <3>2. Cardinality(hashes) < MAX_AUTO_RULES
      BY <3>1, GeneratedCardinality DEF Generated!Full, Generated!AutoAssumption
    <3>3. IsFiniteSet(hashes') /\ Cardinality(hashes') = Cardinality(hashes) + 1
      BY <1>2, <3>1, FS_AddElement
    <3>. QED  BY <3>1, <3>2, <3>3 DEF Generated!AutoAssumption
  <2>2. rules' \in Seq(Hashes)
    BY <1>1, <1>4, AppendProperties
  <2>3. /\ DOMAIN lastGen' \subseteq Senders
        /\ \A i \in DOMAIN lastGen' : lastGen'[i] \in 0 .. now
    BY <1>4, <1>5 DEF AutoInv, AutoTypes
  <2>. QED  BY <1>2, <1>3, <1>4, <1>6, <2>1, <2>2, <2>3 DEF AutoInv, AutoTypes
<1>8. FromFile'
  <2> DEFINE since == {i \in read + 1 .. Len(file) : file[i].parses}
             names == {file[i].hash : i \in since}
             added == IF written /\ parses THEN {Hash[body]} ELSE {}
  <2>1. /\ read \in 0 .. Len(file) /\ read \in Nat
        /\ compiled = Generated!LoadedUpTo(read)
        /\ Len(compiled) <= Len(rules) /\ \A i \in DOMAIN compiled : rules[i] = compiled[i]
        /\ {rules[i] : i \in Generated!Pushed} = names
        /\ \A i, j \in Generated!Pushed : rules[i] = rules[j] => i = j
        /\ \A i \in read + 1 .. Len(file) : file[i].start = starts
    <3>1. FromFile
      BY DEF AutoInv
    <3>2. read \in 0 .. Len(file) /\ \A i \in read + 1 .. Len(file) : file[i].start = starts
      BY <3>1 DEF FromFile
    <3>3. read \in Nat
      BY <1>6, <3>2
    <3>4. Generated!ListsAgree
      BY <3>1 DEF FromFile
    <3>. QED  BY <3>2, <3>3, <3>4 DEF Generated!ListsAgree
  <2>2. compiled' = Generated!LoadedUpTo(read)'
    <3>1. \A i \in 1 .. read : file'[i] = file[i]
      BY <1>6, <2>1
    <3>2. [i \in 1 .. read |-> file'[i].hash] = [i \in 1 .. read |-> file[i].hash]
      BY <3>1
    <3>3. (\E i \in 1 .. read : ~file'[i].parses) <=> (\E i \in 1 .. read : ~file[i].parses)
      BY <3>1
    <3>4. Generated!LoadedUpTo(read)' = Generated!LoadedUpTo(read)
      BY <1>2, <3>2, <3>3 DEF Generated!LoadedUpTo
    <3>. QED  BY <1>2, <2>1, <3>4
  <2>3. Hash[body] \notin names
    <3>1. \A i \in since : i \in DOMAIN file /\ file[i].start = starts
      BY <1>6, <2>1
    <3>2. \A i \in since : file[i].hash \in hashes
      BY <3>1 DEF AutoInv, FileKnown
    <3>. QED  BY <1>2, <3>2
  <2>4. {file'[i].hash : i \in {i \in read' + 1 .. Len(file') : file'[i].parses}} = names \cup added
    <3>1. \A i \in since : i \in read + 1 .. Len(file') /\ file'[i] = file[i]
      BY <1>6, <2>1
    <3>2. \A i \in read + 1 .. Len(file') :
            \/ i \in read + 1 .. Len(file) /\ file'[i] = file[i]
            \/ i = Len(file) + 1 /\ file'[i] = entry /\ written
      BY <1>6, <2>1
    <3>3. written => Len(file) + 1 \in read + 1 .. Len(file') /\ file'[Len(file) + 1] = entry
      BY <1>6, <2>1
    <3>4. entry.hash = Hash[body] /\ entry.parses = parses
      OBVIOUS
    <3> HIDE DEF entry
    <3>5. ASSUME NEW i \in read + 1 .. Len(file'), file'[i].parses
          PROVE  file'[i].hash \in names \cup added
      BY <3>2, <3>4, <3>5
    <3>6. ASSUME NEW h \in names \cup added
          PROVE  \E i \in read + 1 .. Len(file') : file'[i].parses /\ file'[i].hash = h
      <4>1. CASE h \in names
        BY <3>1, <4>1
      <4>2. CASE h \in added
        BY <3>3, <3>4, <4>2
      <4>. QED  BY <4>1, <4>2
    <3>. QED  BY <1>2, <3>5, <3>6
  <2>5. /\ DOMAIN rules = 1 .. Len(rules) /\ Len(rules) \in Nat
        /\ DOMAIN compiled = 1 .. Len(compiled) /\ Len(compiled) \in Nat
    BY <1>4, LenProperties
  <2>6. /\ read' \in 0 .. Len(file')
        /\ \A i \in read' + 1 .. Len(file') : file'[i].start = starts'
    <3>1. \A i \in read + 1 .. Len(file') : i \in DOMAIN file' /\ (i \in DOMAIN file => i <= Len(file))
      BY <1>6, <2>1
    <3>2. \A i \in read + 1 .. Len(file') : file'[i].start = starts
      BY <1>6, <2>1, <3>1
    <3>. QED  BY <1>2, <1>6, <2>1, <3>2
  <2>7. CASE written /\ parses
    <3>1. /\ Len(rules') = Len(rules) + 1 /\ rules'[Len(rules) + 1] = Hash[body]
          /\ \A i \in DOMAIN rules : rules'[i] = rules[i]
      BY <1>1, <1>4, <2>7, AppendProperties, LenProperties
    <3>2. Generated!Pushed' = Generated!Pushed \cup {Len(rules) + 1}
      BY <1>2, <2>1, <2>5, <3>1 DEF Generated!Pushed
    <3>3. /\ \A i \in Generated!Pushed : rules'[i] = rules[i] /\ i # Len(rules) + 1
          /\ \A i \in DOMAIN compiled : rules'[i] = rules[i]
      BY <2>1, <2>5, <3>1 DEF Generated!Pushed
    <3> HIDE DEF names
    <3>4. \A i \in Generated!Pushed : rules'[i] \in names
      BY <2>1, <3>3
    <3>5. {rules'[i] : i \in Generated!Pushed'} = names \cup {Hash[body]}
      <4>1. \A h \in names : \E i \in Generated!Pushed : h = rules'[i]
        BY <2>1, <3>3
      <4>. QED  BY <3>1, <3>2, <3>4, <4>1
    <3>6. \A i, j \in Generated!Pushed' : rules'[i] = rules'[j] => i = j
      <4> SUFFICES ASSUME NEW i \in Generated!Pushed', NEW j \in Generated!Pushed',
                          rules'[i] = rules'[j]
                   PROVE  i = j
        OBVIOUS
      <4>1. CASE i \in Generated!Pushed /\ j \in Generated!Pushed
        BY <2>1, <3>3, <4>1
      <4>2. CASE i \notin Generated!Pushed \/ j \notin Generated!Pushed
        BY <2>3, <3>1, <3>2, <3>4, <4>2
      <4>. QED  BY <4>1, <4>2
    <3>7. Len(compiled') <= Len(rules') /\ \A i \in DOMAIN compiled' : rules'[i] = compiled'[i]
      BY <1>2, <2>1, <2>5, <3>1, <3>3
    <3>. QED  BY <2>2, <2>4, <2>7, <3>5, <3>6, <3>7, <2>6 DEF FromFile, Generated!ListsAgree
  <2>8. CASE ~(written /\ parses)
    <3>1. rules' = rules /\ Generated!Pushed' = Generated!Pushed
      BY <1>1, <1>2, <2>8 DEF Generated!Pushed
    <3>2. names \cup added = names
      BY <2>8
    <3>3. {rules'[i] : i \in Generated!Pushed'} = {rules[i] : i \in Generated!Pushed}
      BY <3>1
    <3>4. {rules'[i] : i \in Generated!Pushed'}
            = {file'[i].hash : i \in {i \in read' + 1 .. Len(file') : file'[i].parses}}
      BY <2>1, <2>4, <3>2, <3>3, Zenon
    <3>5. Generated!ListsAgree'
      BY <1>2, <2>1, <2>2, <3>1, <3>4 DEF Generated!ListsAgree
    <3>. QED  BY <2>6, <3>5 DEF FromFile
  <2>. QED  BY <2>7, <2>8
<1>9. FileSpaced'
  <2> SUFFICES ASSUME NEW i \in DOMAIN file', NEW j \in DOMAIN file', i < j,
                      file'[i].start = file'[j].start
               PROVE  /\ file'[i].hash # file'[j].hash
                      /\ file'[i].ip = file'[j].ip => file'[j].at - file'[i].at >= intervalMs
    BY DEF FileSpaced
  <2>1. i \in DOMAIN file
    BY <1>6
  <2>2. CASE j \in DOMAIN file
    BY <1>6, <2>1, <2>2 DEF AutoInv, FileSpaced
  <2>3. CASE j \notin DOMAIN file
    <3>1. file'[j] = entry /\ file'[i] = file[i] /\ file[i] \in Entry
      BY <1>6, <2>1, <2>3, Elements
    <3>2. /\ file[i].hash \in hashes
          /\ file[i].ip \in DOMAIN lastGen /\ file[i].at <= lastGen[file[i].ip]
      BY <2>1, <3>1 DEF AutoInv, FileKnown
    <3>3. file[i].ip = ip => now - file[i].at >= intervalMs
      <4>1. lastGen[file[i].ip] \in Nat /\ file[i].at \in Nat /\ intervalMs \in Nat
        BY <1>4, <3>1, <3>2 DEF AutoInv, AutoTypes, Entry, Generated!AutoAssumption
      <4>. QED  BY <1>4, <3>2, <4>1 DEF Generated!Recent
    <3>. QED  BY <1>2, <3>1, <3>2, <3>3
  <2>. QED  BY <2>2, <2>3
<1>10. FileKnown'
  <2> SUFFICES ASSUME NEW i \in DOMAIN file'
               PROVE  /\ file'[i].start <= starts' /\ file'[i].at <= now'
                      /\ file'[i].start = starts' =>
                           /\ file'[i].hash \in hashes'
                           /\ file'[i].ip \in DOMAIN lastGen'
                           /\ file'[i].at <= lastGen'[file'[i].ip]
    BY DEF FileKnown
  <2>1. CASE i \in DOMAIN file
    BY <1>2, <1>5, <1>6, <2>1 DEF AutoInv, FileKnown
  <2>2. CASE i \notin DOMAIN file
    BY <1>2, <1>4, <1>5, <1>6, <2>2
  <2>. QED  BY <2>1, <2>2
<1>11. LogKnown'
  <2>1. HashesAt(starts)' = HashesAt(starts) \cup {Hash[body]}
    BY <1>2, <1>3 DEF HashesAt, Adds
  <2>. QED  BY <1>2, <1>3, <1>4, <2>1 DEF AutoInv, LogKnown
<1>12. Unwritten'
  <2> SUFFICES ASSUME NEW n \in DOMAIN log', log'[n].outcome = "unwritten",
                      NEW i \in DOMAIN file', file'[i].start = log'[n].start
               PROVE  file'[i].hash # Hash[log'[n].body]
    BY DEF Unwritten
  <2>1. CASE n \in DOMAIN log /\ i \in DOMAIN file
    BY <1>3, <1>6, <2>1 DEF AutoInv, Unwritten
  <2>2. CASE n \in DOMAIN log /\ i \notin DOMAIN file
    <3>1. log[n].start = starts /\ log[n].outcome = "unwritten" /\ file'[i].hash = Hash[body]
      BY <1>3, <1>6, <2>2
    <3>2. Hash[log[n].body] \in HashesAt(starts)
      BY <2>2, <3>1 DEF HashesAt, Adds
    <3>. QED  BY <1>2, <1>3, <2>2, <3>1, <3>2 DEF AutoInv, LogKnown
  <2>3. CASE n \notin DOMAIN log
    <3>1. log'[n].start = starts /\ log'[n].body = body /\ ~written
      BY <1>3, <2>3
    <3>2. i \in DOMAIN file /\ file'[i] = file[i]
      BY <1>6, <3>1
    <3>. QED  BY <1>2, <3>1, <3>2 DEF AutoInv, FileKnown
  <2>. QED  BY <2>1, <2>2, <2>3
<1>. QED  BY <1>7, <1>8, <1>9, <1>10, <1>11, <1>12 DEF AutoInv

\* A load: what it lists and what it matches with is what it found.
LEMMA LoadKeeps ==
  ASSUME AutoTypes, rules' = Generated!Loaded, compiled' = Generated!Loaded,
         read' = Len(file), file' = file
  PROVE  FromFile' /\ rules' \in Seq(Hashes) /\ compiled' \in Seq(Hashes)
<1>1. Len(file) \in Nat /\ Len(file) \in 0 .. Len(file)
  BY LenProperties DEF AutoTypes
<1>2. /\ compiled' \in Seq(Hashes) /\ Len(compiled') \in Nat
      /\ compiled' = Generated!LoadedUpTo(Len(file))
  BY <1>1, LoadedIs DEF Generated!Loaded
<1>3. Generated!LoadedUpTo(read)' = Generated!LoadedUpTo(Len(file))
  BY DEF Generated!LoadedUpTo
<1>4. Generated!Pushed' = {} /\ read' + 1 .. Len(file') = {}
  BY <1>1, <1>2 DEF Generated!Pushed
<1>5. Generated!ListsAgree'
  BY <1>2, <1>3, <1>4 DEF Generated!ListsAgree
<1>. QED  BY <1>1, <1>2, <1>4, <1>5 DEF FromFile

LEMMA ReloadKeeps == Generated!AutoAssumption /\ AutoInv /\ Generated!ReloadRules => AutoInv'
<1> SUFFICES ASSUME Generated!AutoAssumption, AutoInv, Generated!ReloadRules PROVE AutoInv'
  OBVIOUS
<1>1. /\ rules' = Generated!Loaded /\ compiled' = Generated!Loaded /\ now' = now
      /\ read' = Len(file)
      /\ starts' = starts /\ file' = file
      /\ hashes' = hashes /\ lastGen' = lastGen /\ log' = log
  BY DEF Generated!ReloadRules
<1>2. FromFile' /\ rules' \in Seq(Hashes) /\ compiled' \in Seq(Hashes)
  BY <1>1, LoadKeeps DEF AutoInv
<1>3. AutoTypes'
  BY <1>1, <1>2 DEF AutoInv, AutoTypes
<1>5. FileSpaced' /\ FileKnown' /\ Unwritten'
  BY <1>1 DEF AutoInv, FileSpaced, FileKnown, Unwritten
<1>6. LogKnown'
  BY <1>1 DEF AutoInv, LogKnown, HashesAt
<1>. QED  BY <1>2, <1>3, <1>5, <1>6 DEF AutoInv

LEMMA RestartKeeps == Generated!AutoAssumption /\ AutoInv /\ Generated!Restart => AutoInv'
<1> SUFFICES ASSUME Generated!AutoAssumption, AutoInv, Generated!Restart PROVE AutoInv'
  OBVIOUS
<1>1. /\ rules' = Generated!Loaded /\ compiled' = Generated!Loaded /\ now' = now
      /\ read' = Len(file)
      /\ starts' = starts + 1
      /\ starts < MaxStarts /\ file' = file /\ hashes' = {} /\ lastGen' = Generated!Empty /\ log' = log
  BY DEF Generated!Restart
<1>2. FromFile' /\ rules' \in Seq(Hashes) /\ compiled' \in Seq(Hashes)
  BY <1>1, LoadKeeps DEF AutoInv
<1>3. starts \in Nat /\ now \in Nat /\ starts \in 1 .. MaxStarts /\ MaxStarts \in Nat
  BY DEF AutoInv, AutoTypes, Generated!AutoAssumption
<1>4. AutoTypes'
  BY <1>1, <1>2, <1>3, FS_EmptySet
     DEF AutoInv, AutoTypes, Generated!AutoAssumption, Generated!Empty
<1>6. FileSpaced' /\ Unwritten'
  BY <1>1 DEF AutoInv, FileSpaced, Unwritten
<1>7. FileKnown'
  <2>1. \A i \in DOMAIN file : file[i].start \in Nat /\ file[i].start <= starts
    BY Elements DEF AutoInv, FileKnown, Entry
  <2>2. \A i \in DOMAIN file : file[i].start <= starts + 1 /\ file[i].start # starts + 1
    BY <1>3, <2>1
  <2>. QED  BY <1>1, <2>2 DEF AutoInv, FileKnown
<1>8. LogKnown'
  <2>1. \A n \in DOMAIN log : log[n].start \in Nat /\ log[n].start <= starts
    BY Elements DEF AutoInv, LogKnown, Call
  <2>2. \A n \in DOMAIN log : log[n].start <= starts + 1 /\ log[n].start # starts + 1
    BY <1>3, <2>1
  <2>. QED  BY <1>1, <2>2 DEF LogKnown, HashesAt
<1>. QED  BY <1>2, <1>4, <1>6, <1>7, <1>8 DEF AutoInv

LEMMA TickKeeps == Generated!AutoAssumption /\ AutoInv /\ Generated!Tick => AutoInv'
<1> SUFFICES ASSUME Generated!AutoAssumption, AutoInv, Generated!Tick PROVE AutoInv'
  OBVIOUS
<1>1. /\ rules' = rules /\ compiled' = compiled /\ now' = now + 1 /\ now < AutoMaxTime
      /\ starts' = starts /\ file' = file /\ hashes' = hashes /\ lastGen' = lastGen /\ log' = log
      /\ read' = read
  BY DEF Generated!Tick
<1>2. now \in Nat /\ now \in 0 .. AutoMaxTime /\ AutoMaxTime \in Nat
  BY DEF AutoInv, AutoTypes, Generated!AutoAssumption
<1>3. AutoTypes'
  BY <1>1, <1>2 DEF AutoInv, AutoTypes
<1>4. FromFile'
  BY <1>1, FromFileKept DEF AutoInv
<1>5. FileSpaced' /\ Unwritten'
  BY <1>1 DEF AutoInv, FileSpaced, Unwritten
<1>6. FileKnown'
  <2>1. \A i \in DOMAIN file : file[i].at \in Nat /\ file[i].at <= now
    BY Elements DEF AutoInv, FileKnown, Entry
  <2>2. \A i \in DOMAIN file : file[i].at <= now + 1
    BY <1>2, <2>1
  <2>. QED  BY <1>1, <2>2 DEF AutoInv, FileKnown
<1>7. LogKnown'
  BY <1>1 DEF AutoInv, LogKnown, HashesAt
<1>. QED  BY <1>3, <1>4, <1>5, <1>6, <1>7 DEF AutoInv

LEMMA StutterKeeps ==
  ASSUME AutoInv, rules' = rules, compiled' = compiled, now' = now, starts' = starts,
         file' = file, hashes' = hashes, lastGen' = lastGen, log' = log, read' = read
  PROVE  AutoInv'
<1>1. AutoTypes'
  BY DEF AutoInv, AutoTypes
<1>2. FromFile'
  BY FromFileKept DEF AutoInv
<1>3. FileSpaced' /\ FileKnown' /\ Unwritten'
  BY DEF AutoInv, FileSpaced, FileKnown, Unwritten
<1>4. LogKnown'
  BY DEF AutoInv, LogKnown, HashesAt
<1>. QED  BY <1>1, <1>2, <1>3, <1>4 DEF AutoInv

LEMMA AutoStep ==
  Generated!AutoAssumption /\ AutoInv /\ [Generated!Next]_(Generated!vars) => AutoInv'
<1> SUFFICES ASSUME Generated!AutoAssumption, AutoInv, [Generated!Next]_(Generated!vars)
             PROVE  AutoInv'
  OBVIOUS
<1>1. ASSUME NEW ip \in Senders, NEW body \in Bodies, Generated!GenerateAutoRule(ip, body)
      PROVE  AutoInv'
  <2>1. CASE Generated!Decline(ip, body) \/ Generated!Repeat(ip, body)
    <3>1. /\ Generated!Ended(ip, body, "none")
          /\ now' = now /\ starts' = starts /\ file' = file /\ rules' = rules
          /\ compiled' = compiled /\ hashes' = hashes /\ read' = read
          /\ lastGen' = lastGen \/ lastGen' = Generated!Put(lastGen, ip, now)
      BY <1>1, <2>1
      DEF Generated!GenerateAutoRule, Generated!Decline, Generated!Repeat, Generated!Charge
    <3>. QED  BY <3>1, QuietCall
  <2>2. CASE Generated!Generate(ip, body) /\ ~Generated!Full /\ ~Generated!Recent(ip)
    BY <1>1, <2>2, GenerateKeeps DEF Generated!GenerateAutoRule
  <2>. QED  BY <1>1, <2>1, <2>2 DEF Generated!GenerateAutoRule
<1>2. CASE Generated!ReloadRules
  BY <1>2, ReloadKeeps
<1>3. CASE Generated!Restart
  BY <1>3, RestartKeeps
<1>4. CASE Generated!Tick
  BY <1>4, TickKeeps
<1>5. CASE UNCHANGED Generated!vars
  BY <1>5, StutterKeeps DEF Generated!vars
<1>. QED  BY <1>1, <1>2, <1>3, <1>4, <1>5 DEF Generated!Next

-----------------------------------------------------------------------------
(* API abuse.                                                              *)

LEMMA ApiMaps ==
  /\ \A m, k, v : Api!MapSet(m, k, v) = MapSet(m, k, v)
  /\ \A m, S : Api!MapDelete(m, S) = MapDelete(m, S)
  /\ \A m : Api!MapDeleteFirst(m) = MapDeleteFirst(m)
  /\ \A m, k : Api!MapHas(m, k) <=> MapHas(m, k)
  /\ \A m : Api!MapSize(m) = MapSize(m)
  /\ \A m : Api!MapOrdered(m) <=> MapOrdered(m)
  /\ \A f, k, v : Api!Put(f, k, v) = Put(f, k, v)
  /\ \A f, S : Api!Drop(f, S) = Drop(f, S)
  /\ Api!EmptyMap = EmptyMap /\ Api!Empty = Empty
  /\ \A S : Api!Cardinality(S) = Cardinality(S)
<1>1. \A S : Api!Cardinality(S) = Cardinality(S)
  BY DEF Api!Cardinality, Cardinality
<1>3. \A f, k, v : Api!Put(f, k, v) = Put(f, k, v)
  BY DEF Api!Put, Put
<1>4. \A f, S : Api!Drop(f, S) = Drop(f, S)
  BY DEF Api!Drop, Drop
<1>5. \A m, k : Api!MapHas(m, k) <=> MapHas(m, k)
  BY DEF Api!MapHas, MapHas
<1>6. \A m : Api!MapSize(m) = MapSize(m)
  BY <1>1 DEF Api!MapSize, MapSize
<1>7. \A s, S : Api!Without(s, S) = Without(s, S)
  BY DEF Api!Without, Without, Api!Cardinality, Cardinality
<1>8. \A m, k, v : Api!MapSet(m, k, v) = MapSet(m, k, v)
  BY <1>3, <1>5 DEF Api!MapSet, MapSet
<1>9. \A m, S : Api!MapDelete(m, S) = MapDelete(m, S)
  BY <1>4, <1>7 DEF Api!MapDelete, MapDelete
<1>10. \A m : Api!MapDeleteFirst(m) = MapDeleteFirst(m)
  BY <1>9 DEF Api!MapDeleteFirst, MapDeleteFirst
<1>11. \A m : Api!MapOrdered(m) <=> MapOrdered(m)
  BY DEF Api!MapOrdered, MapOrdered
<1>12. Api!EmptyMap = EmptyMap /\ Api!Empty = Empty
  BY DEF Api!EmptyMap, EmptyMap, Api!Empty, Empty
<1>. QED
  BY <1>1, <1>3, <1>4, <1>5, <1>6, <1>8, <1>9, <1>10, <1>11, <1>12

ApiKinds == {"graphql_bomb", "deep_nesting", "massive_field_count", "excessive_aliases",
             "introspection_query", "batch_bombs", "mass_assignment_suspected",
             "privilege_escalation_attempt", "method_override", "jsonp_callback_injection",
             "id_enumeration", "endpoint_enumeration"}
ApiCall  == [q : Accesses, at : Nat, flags : SUBSET ApiKinds]

\* The calls of a client since the born-th, those of them to an endpoint, and the last
\* of these with no more than the window between one and the next.
CallsOf(c, born)    == {n \in DOMAIN log : n >= born /\ log[n].q.client = c}
CallsTo(c, born, p) == {n \in CallsOf(c, born) : log[n].q.path = p}
RunOf(c, born, p)   ==
  {n \in CallsTo(c, born, p) : \A m \in CallsTo(c, born, p) : m > n =>
     \E k \in CallsTo(c, born, p) : n <= k /\ k < m /\ log[m].at - log[k].at <= windowMs}

\* An endpoint that is kept stands for its last calls, one that is not for none the
\* window reaches.
IsEndpoint(c, born, seen, p, e) ==
  /\ e = [count |-> e.count, first |-> e.first, last |-> e.last]
  /\ e.first \in 0 .. now
  /\ e.last >= seen - windowMs
  /\ \E n \in CallsTo(c, born, p) : log[n].at = e.last
  /\ \A n \in CallsTo(c, born, p) : log[n].at <= e.last
  /\ e.count = Cardinality(RunOf(c, born, p)) /\ e.count # 0

Tracks(c, t) ==
  /\ t = [endpoints |-> t.endpoints, firstSeen |-> t.firstSeen, lastSeen |-> t.lastSeen,
          born |-> t.born]
  /\ t.firstSeen \in Nat /\ t.lastSeen \in t.firstSeen .. now
  /\ \A n \in CallsOf(c, t.born) : log[n].at <= t.lastSeen
  /\ \A n \in CallsOf(c, t.born) :
       log[n].q.path \in DOMAIN t.endpoints \/ log[n].at < t.lastSeen - windowMs
  /\ \A p \in DOMAIN t.endpoints : IsEndpoint(c, t.born, t.lastSeen, p, t.endpoints[p])

ApiTypes ==
  /\ now \in 0 .. MaxTime
  /\ log \in Seq(ApiCall) /\ Len(log) <= MaxCalls
  /\ \A n \in DOMAIN log : log[n].at <= now
  /\ \A m, n \in DOMAIN log : m <= n => log[m].at <= log[n].at
  /\ Within(trackers, MaxTrackers)

ApiInv ==
  /\ ApiTypes
  /\ \A c \in DOMAIN trackers.of :
       trackers.of[c].born \in 1 .. Len(log) /\ Tracks(c, trackers.of[c])

LEMMA AccessedElements ==
  ASSUME ApiTypes
  PROVE  /\ \A n \in DOMAIN log : log[n] \in ApiCall /\ log[n].at \in Nat
         /\ DOMAIN log = 1 .. Len(log) /\ Len(log) \in Nat
<1>1. log \in Seq(ApiCall)
  BY DEF ApiTypes
<1>2. DOMAIN log = 1 .. Len(log) /\ Len(log) \in Nat
  BY <1>1, LenProperties
<1>3. \A n \in DOMAIN log : log[n] \in ApiCall
  BY <1>1, <1>2, ElementOfSeq
<1>. QED  BY <1>2, <1>3 DEF ApiCall

LEMMA CallsFinite ==
  ASSUME ApiTypes, NEW S \in SUBSET DOMAIN log
  PROVE  /\ IsFiniteSet(S) /\ Cardinality(S) \in Nat /\ Cardinality(S) <= Len(log)
         /\ (Cardinality(S) = 0 <=> S = {})
<1> DEFINE N == Len(log)
<1>3. S \in SUBSET (1 .. N) /\ N \in Nat
  BY AccessedElements
<1>. HIDE DEF N
<1>1. IsFiniteSet(1 .. N) /\ Cardinality(1 .. N) = N
  BY <1>3, FS_Interval
<1>2. IsFiniteSet(S) /\ Cardinality(S) <= Cardinality(1 .. N)
  BY <1>1, <1>3, FS_Subset
<1>. QED  BY <1>1, <1>2, FS_CardinalityType, FS_EmptySet DEF N

LEMMA ApiInvHolds == Api!ApiAssumption /\ ApiInv => Api!TypeOK /\ Api!EndpointsExact
<1> SUFFICES ASSUME Api!ApiAssumption, ApiInv PROVE Api!TypeOK /\ Api!EndpointsExact
  OBVIOUS
<1>1. ApiTypes /\ now \in Nat /\ MaxCalls \in Nat /\ windowMs \in Nat
  BY DEF ApiInv, ApiTypes, Api!ApiAssumption
<1>2. Api!TypeOK
  <2>1. Api!MapOrdered(trackers) /\ Api!MapSize(trackers) <= MaxTrackers
    BY <1>1, ApiMaps DEF ApiTypes, Within, Ordered
  <2>2. ASSUME NEW c \in DOMAIN trackers.of
        PROVE  /\ trackers.of[c].lastSeen \in trackers.of[c].firstSeen .. now
               /\ \A p \in DOMAIN trackers.of[c].endpoints :
                    trackers.of[c].endpoints[p]
                      \in [count : 1 .. MaxCalls, first : 0 .. now, last : 0 .. now]
    <3>1. PICK t : t = trackers.of[c]
      OBVIOUS
    <3>2. Tracks(c, t)
      BY <3>1 DEF ApiInv
    <3>3. ASSUME NEW p \in DOMAIN t.endpoints
          PROVE  t.endpoints[p] \in [count : 1 .. MaxCalls, first : 0 .. now, last : 0 .. now]
      <4>1. PICK e : e = t.endpoints[p]
        OBVIOUS
      <4>2. IsEndpoint(c, t.born, t.lastSeen, p, e)
        BY <3>2, <4>1 DEF Tracks
      <4>3. e.last \in 0 .. now
        BY <1>1, <4>2, AccessedElements DEF IsEndpoint, CallsTo, CallsOf, ApiTypes
      <4>4. RunOf(c, t.born, p) \in SUBSET DOMAIN log
        BY DEF RunOf, CallsTo, CallsOf
      <4>5. e.count \in Nat /\ e.count <= Len(log) /\ e.count # 0
        BY <1>1, <4>2, <4>4, CallsFinite DEF IsEndpoint
      <4>6. e.count \in 1 .. MaxCalls
        BY <1>1, <4>5, AccessedElements DEF ApiTypes
      <4>. QED  BY <4>1, <4>2, <4>3, <4>6 DEF IsEndpoint
    <3>. QED  BY <3>1, <3>2, <3>3 DEF Tracks
  <2>. QED  BY <1>1, <2>1, <2>2 DEF ApiTypes, Api!TypeOK
<1>3. Api!EndpointsExact
  <2>1. ASSUME NEW c \in DOMAIN trackers.of, NEW p \in Endpoints, NEW t, t = trackers.of[c]
        PROVE  /\ p \in DOMAIN t.endpoints
                    <=> \E n \in CallsTo(c, t.born, p) : log[n].at >= t.lastSeen - windowMs
               /\ p \in DOMAIN t.endpoints =>
                    t.endpoints[p].count = Cardinality(RunOf(c, t.born, p))
    <3>1. Tracks(c, t)
      BY <2>1 DEF ApiInv
    <3>2. CASE p \in DOMAIN t.endpoints
      <4>1. IsEndpoint(c, t.born, t.lastSeen, p, t.endpoints[p])
        BY <3>1, <3>2 DEF Tracks
      <4>. QED  BY <3>2, <4>1 DEF IsEndpoint
    <3>3. CASE p \notin DOMAIN t.endpoints
      <4>1. t.lastSeen \in Nat
        BY <1>1, <3>1 DEF Tracks
      <4>2. \A n \in CallsTo(c, t.born, p) : log[n].at < t.lastSeen - windowMs /\ log[n].at \in Nat
        BY <1>1, <3>1, <3>3, AccessedElements DEF Tracks, CallsTo, CallsOf
      <4>. QED  BY <1>1, <3>3, <4>1, <4>2
    <3>. QED  BY <3>2, <3>3
  <2>2. ASSUME NEW c, NEW born, NEW p
        PROVE  CallsTo(c, born, p)
                 = {n \in DOMAIN log : n >= born /\ log[n].q.client = c /\ log[n].q.path = p}
    BY DEF CallsTo, CallsOf
  <2>3. ASSUME NEW c \in DOMAIN trackers.of, NEW p \in Endpoints
        PROVE  LET t     == trackers.of[c]
                   calls == {n \in DOMAIN log : n >= t.born /\ log[n].q.client = c
                                                 /\ log[n].q.path = p}
                   run   == {n \in calls :
                      \A m \in calls : m > n =>
                         \E k \in calls : n <= k /\ k < m /\ log[m].at - log[k].at <= windowMs}
                   kept  == \E n \in calls : log[n].at >= t.lastSeen - windowMs
               IN  /\ (p \in DOMAIN t.endpoints) <=> kept
                   /\ kept => t.endpoints[p].count = Api!Cardinality(run)
    <3> DEFINE t     == trackers.of[c]
               calls == {n \in DOMAIN log : n >= t.born /\ log[n].q.client = c
                                             /\ log[n].q.path = p}
               run   == {n \in calls :
                  \A m \in calls : m > n =>
                     \E k \in calls : n <= k /\ k < m /\ log[m].at - log[k].at <= windowMs}
    <3>1. calls = CallsTo(c, t.born, p)
      BY <2>2
    <3>2. run = RunOf(c, t.born, p)
      <4>. HIDE DEF calls
      <4>. QED  BY <3>1 DEF RunOf
    <3>3. Api!Cardinality(run) = Cardinality(run)
      BY ApiMaps
    <3>. HIDE DEF calls, run
    <3>4. /\ p \in DOMAIN t.endpoints <=> \E n \in calls : log[n].at >= t.lastSeen - windowMs
          /\ p \in DOMAIN t.endpoints => t.endpoints[p].count = Api!Cardinality(run)
      BY <2>1, <3>1, <3>2, <3>3
    <3>. QED  BY <3>4 DEF calls, run
  <2>4. \A c \in DOMAIN trackers.of :
          LET tracker == trackers.of[c]
              calls(p) == {n \in DOMAIN log : n >= tracker.born /\ log[n].q.client = c
                                                /\ log[n].q.path = p}
          IN  \A p \in Endpoints :
                LET run == {n \in calls(p) :
                      \A m \in calls(p) : m > n =>
                         \E k \in calls(p) : n <= k /\ k < m /\ log[m].at - log[k].at <= windowMs}
                    kept == \E n \in calls(p) : log[n].at >= tracker.lastSeen - windowMs
                IN  /\ (p \in DOMAIN tracker.endpoints) <=> kept
                    /\ kept => tracker.endpoints[p].count = Api!Cardinality(run)
    BY <2>3, Zenon
  <2>. QED  BY <2>4, Zenon DEF Api!EndpointsExact
<1>. QED  BY <1>2, <1>3

LEMMA ApiInit == Api!ApiAssumption /\ Api!Init => ApiInv
<1> SUFFICES ASSUME Api!ApiAssumption, Api!Init PROVE ApiInv
  OBVIOUS
<1>1. /\ now = 0 /\ trackers = EmptyMap /\ log = <<>> /\ log \in Seq(ApiCall)
      /\ Len(log) = 0 /\ DOMAIN log = {} /\ DOMAIN trackers.of = {}
  BY EmptySeq, ApiMaps DEF Api!Init, EmptyMap, Empty
<1>2. Within(trackers, MaxTrackers)
  BY <1>1, EmptyOrdered DEF Within, Api!ApiAssumption
<1>. QED  BY <1>1, <1>2 DEF ApiInv, ApiTypes, Api!ApiAssumption

\* One call more.
LEMMA OneAccess ==
  ASSUME ApiTypes, NEW e \in ApiCall, e.at = now, log' = Append(log, e),
         NEW l, l = Len(log) + 1
  PROVE  /\ l \in Nat /\ l \notin DOMAIN log /\ \A n \in DOMAIN log : n \in Nat /\ n < l
         /\ log' \in Seq(ApiCall) /\ Len(log') = l
         /\ DOMAIN log' = DOMAIN log \cup {l}
         /\ \A n \in DOMAIN log : log'[n] = log[n]
         /\ log'[l] = e
<1>1. log \in Seq(ApiCall) /\ Len(log) \in Nat /\ DOMAIN log = 1 .. Len(log)
  BY AccessedElements DEF ApiTypes
<1>. QED  BY <1>1, AppendProperties, LenProperties

LEMMA CallsAfter ==
  ASSUME ApiTypes, NEW e \in ApiCall, e.at = now, log' = Append(log, e),
         NEW l, l = Len(log) + 1, NEW c, NEW born, born <= l
  PROVE  /\ CallsOf(c, born)' = CallsOf(c, born) \cup (IF e.q.client = c THEN {l} ELSE {})
         /\ \A p : CallsTo(c, born, p)' = CallsTo(c, born, p) \cup
              (IF e.q.client = c /\ e.q.path = p THEN {l} ELSE {})
         /\ CallsOf(c, born) \subseteq DOMAIN log
         /\ \A p : CallsTo(c, born, p) \subseteq CallsOf(c, born)
<1>1. /\ l \notin DOMAIN log /\ DOMAIN log' = DOMAIN log \cup {l}
      /\ \A n \in DOMAIN log : log'[n] = log[n]
      /\ log'[l] = e
  BY OneAccess
<1>2. CallsOf(c, born)' = CallsOf(c, born) \cup (IF e.q.client = c THEN {l} ELSE {})
  BY <1>1 DEF CallsOf
<1>3. CallsOf(c, born) \subseteq DOMAIN log
  BY DEF CallsOf
<1>4. ASSUME NEW p
      PROVE  CallsTo(c, born, p)' = CallsTo(c, born, p) \cup
               (IF e.q.client = c /\ e.q.path = p THEN {l} ELSE {})
  <2>1. CallsTo(c, born, p)' = {n \in CallsOf(c, born)' : log'[n].q.path = p}
    BY DEF CallsTo
  <2>. QED  BY <1>1, <1>2, <1>3, <2>1 DEF CallsTo
<1>5. \A p : CallsTo(c, born, p) \subseteq CallsOf(c, born)
  BY DEF CallsTo
<1>. QED  BY <1>2, <1>3, <1>4, <1>5

\* The run of an endpoint is that of before, unless the call is to it.
LEMMA RunOfOther ==
  ASSUME ApiTypes, NEW e \in ApiCall, e.at = now, log' = Append(log, e), now' = now,
         NEW c, NEW born, born <= Len(log) + 1, NEW p, ~(e.q.client = c /\ e.q.path = p)
  PROVE  CallsTo(c, born, p)' = CallsTo(c, born, p) /\ RunOf(c, born, p)' = RunOf(c, born, p)
<1>1. PICK l : l = Len(log) + 1
  OBVIOUS
<1>2. /\ CallsTo(c, born, p)' = CallsTo(c, born, p)
      /\ CallsTo(c, born, p) \subseteq DOMAIN log
  <2>1. born <= l
    BY <1>1
  <2>2. /\ CallsTo(c, born, p)' = CallsTo(c, born, p) \cup
             (IF e.q.client = c /\ e.q.path = p THEN {l} ELSE {})
        /\ CallsTo(c, born, p) \subseteq CallsOf(c, born) /\ CallsOf(c, born) \subseteq DOMAIN log
    BY <1>1, <2>1, CallsAfter
  <2>. QED  BY <2>2
<1>3. \A n \in DOMAIN log : log'[n] = log[n]
  BY <1>1, OneAccess
<1>. QED  BY <1>2, <1>3 DEF RunOf

\* A call within the window of the last one makes the run longer; one that is not
\* begins another.
LEMMA RunOfCalled ==
  ASSUME ApiTypes, NEW e \in ApiCall, e.at = now, log' = Append(log, e), now' = now,
         now \in Nat, windowMs \in Nat, NEW born, born <= Len(log) + 1,
         NEW l, l = Len(log) + 1, NEW c, c = e.q.client, NEW p, p = e.q.path
  PROVE  /\ CallsTo(c, born, p)' = CallsTo(c, born, p) \cup {l}
         /\ \A k \in CallsTo(c, born, p) :
              (\A n \in CallsTo(c, born, p) : log[n].at <= log[k].at) /\ now - log[k].at <= windowMs
                => RunOf(c, born, p)' = RunOf(c, born, p) \cup {l}
         /\ (\A n \in CallsTo(c, born, p) : ~(now - log[n].at <= windowMs))
              => RunOf(c, born, p)' = {l}
<1> DEFINE old == CallsTo(c, born, p)
           new == CallsTo(c, born, p)'
           run == RunOf(c, born, p)
           run2 == RunOf(c, born, p)'
<1>1. /\ new = old \cup {l} /\ old \subseteq DOMAIN log
      /\ l \in Nat /\ \A n \in old : n \in Nat /\ n < l
      /\ \A n \in old : log'[n] = log[n] /\ log[n].at \in Nat
      /\ log'[l].at = now
      /\ \A m, n \in old : m <= n => log[m].at <= log[n].at
  <2>1. born <= l
    OBVIOUS
  <2>2. /\ new = old \cup (IF e.q.client = c /\ e.q.path = p THEN {l} ELSE {})
        /\ old \subseteq CallsOf(c, born) /\ CallsOf(c, born) \subseteq DOMAIN log
    BY <2>1, CallsAfter
  <2>3. /\ l \in Nat /\ \A n \in DOMAIN log : n \in Nat /\ n < l
        /\ \A n \in DOMAIN log : log'[n] = log[n]
        /\ log'[l] = e
    BY OneAccess
  <2>4. \A n \in DOMAIN log : log[n].at \in Nat
    BY AccessedElements
  <2>5. \A m, n \in DOMAIN log : m <= n => log[m].at <= log[n].at
    BY DEF ApiTypes
  <2>. QED  BY <2>2, <2>3, <2>4, <2>5
<1>2. run2 = {n \in new : \A m \in new : m > n =>
                 \E k \in new : n <= k /\ k < m /\ log'[m].at - log'[k].at <= windowMs}
  BY DEF RunOf
<1>3. run = {n \in old : \A m \in old : m > n =>
                 \E k \in old : n <= k /\ k < m /\ log[m].at - log[k].at <= windowMs}
  BY DEF RunOf
<1>. HIDE DEF old, new, run, run2
<1>4. l \in run2
  BY <1>1, <1>2
<1>5. ASSUME NEW n \in old, n \in run2 PROVE n \in run
  <2>1. ASSUME NEW m \in old, m > n
        PROVE  \E k \in old : n <= k /\ k < m /\ log[m].at - log[k].at <= windowMs
    <3>1. PICK k \in new : n <= k /\ k < m /\ log'[m].at - log'[k].at <= windowMs
      BY <1>1, <1>2, <1>5, <2>1
    <3>2. k \in old
      BY <1>1, <3>1
    <3>. QED  BY <1>1, <3>1, <3>2
  <2>. QED  BY <1>3, <2>1
<1>6. ASSUME NEW n \in run, NEW k \in old, n <= k, now - log[k].at <= windowMs
      PROVE  n \in run2
  <2>1. n \in old /\ n \in new
    BY <1>1, <1>3
  <2>2. ASSUME NEW m \in new, m > n
        PROVE  \E j \in new : n <= j /\ j < m /\ log'[m].at - log'[j].at <= windowMs
    <3>1. CASE m = l
      BY <1>1, <1>6, <3>1
    <3>2. CASE m \in old
      <4>1. PICK j \in old : n <= j /\ j < m /\ log[m].at - log[j].at <= windowMs
        BY <1>3, <2>2, <3>2
      <4>. QED  BY <1>1, <3>2, <4>1
    <3>. QED  BY <1>1, <3>1, <3>2
  <2>. QED  BY <1>2, <2>1, <2>2
<1>7. ASSUME NEW k \in old, \A n \in old : log[n].at <= log[k].at, now - log[k].at <= windowMs
      PROVE  run2 = run \cup {l}
  <2>1. ASSUME NEW n \in run PROVE n \in run2
    <3>1. n \in old
      BY <1>3
    <3>2. CASE n <= k
      BY <1>6, <1>7, <3>2
    <3>3. CASE ~(n <= k)
      <4>1. n <= n /\ now - log[n].at <= windowMs
        BY <1>1, <1>7, <3>1, <3>3
      <4>. QED  BY <1>6, <3>1, <4>1
    <3>. QED  BY <3>2, <3>3
  <2>2. run2 \subseteq old \cup {l}
    BY <1>1, <1>2
  <2>3. \A n \in run2 : n \in run \/ n = l
    BY <1>5, <2>2
  <2>. QED  BY <1>4, <2>1, <2>3
<1>8. ASSUME \A n \in old : ~(now - log[n].at <= windowMs) PROVE run2 = {l}
  <2>1. ASSUME NEW n \in old, n \in run2 PROVE FALSE
    <3>1. PICK k \in new : n <= k /\ k < l /\ log'[l].at - log'[k].at <= windowMs
      BY <1>1, <1>2, <2>1
    <3>. QED  BY <1>1, <1>8, <3>1
  <2>2. run2 \subseteq old \cup {l}
    BY <1>1, <1>2
  <2>3. \A n \in run2 : n = l
    BY <2>1, <2>2
  <2>. QED  BY <1>4, <2>3
<1>9. new = old \cup {l}
  BY <1>1
<1>10. \A k \in old : (\A n \in old : log[n].at <= log[k].at) /\ now - log[k].at <= windowMs
                     => run2 = run \cup {l}
  BY <1>7
<1>11. (\A n \in old : ~(now - log[n].at <= windowMs)) => run2 = {l}
  BY <1>8
<1>. QED  BY <1>9, <1>10, <1>11 DEF old, new, run, run2

\* The endpoints of the client that calls stay exact, the one called included.
LEMMA AccessExact ==
  ASSUME Api!ApiAssumption, ApiTypes, NEW e \in ApiCall, e.at = now, log' = Append(log, e), now' = now,
         NEW c, c = e.q.client, NEW t, Tracks(c, t), t.born \in 1 .. Len(log) + 1
  PROVE  Tracks(c, [t EXCEPT !.lastSeen = now, !.endpoints = Api!Accessed(@, e.q.path, now)])'
<1>19. PICK left : left = {x \in DOMAIN t.endpoints : ~(now - t.endpoints[x].last > windowMs)}
  OBVIOUS
<1>1. PICK l : l = Len(log) + 1
  OBVIOUS
<1>2. PICK born \in 1 .. Len(log) + 1 : born = t.born
  OBVIOUS
<1>3. now \in Nat /\ windowMs \in Nat /\ windowMs > 0 /\ Len(log) \in Nat /\ born <= l
  BY <1>1, <1>2, AccessedElements DEF ApiTypes, Api!ApiAssumption
<1>4. PICK p : p = e.q.path
  OBVIOUS
<1>17. PICK A : A = Api!Accessed(t.endpoints, p, now)
  OBVIOUS
<1>5. /\ DOMAIN A = left \cup {p}
      /\ \A x \in left : x # p => A[x] = t.endpoints[x]
      /\ p \in left => A[p] = [count |-> t.endpoints[p].count + 1,
                               first |-> t.endpoints[p].first, last |-> now]
      /\ p \notin left => A[p] = [count |-> 1, first |-> now, last |-> now]
  <2>1. PICK old, at : old = t.endpoints /\ at = now
    OBVIOUS
  <2>2. /\ A = Api!Accessed(old, p, at)
        /\ left = {x \in DOMAIN old : ~(at - old[x].last > windowMs)}
    BY <1>17, <1>19, <2>1
  <2>3. /\ DOMAIN A = left \cup {p}
        /\ \A x \in left : x # p => A[x] = old[x]
        /\ p \in left => A[p] = [count |-> old[p].count + 1, first |-> old[p].first, last |-> at]
        /\ p \notin left => A[p] = [count |-> 1, first |-> at, last |-> at]
    <3> DEFINE D == Drop(old, Api!Expired(old, at))
    <3>1. DOMAIN D = left /\ \A x \in left : D[x] = old[x]
      BY <2>2 DEF Drop, Api!Expired
    <3>. HIDE DEF D
    <3>2. A = Put(D, p, [count |-> IF p \in DOMAIN D THEN D[p].count + 1 ELSE 1,
                         first |-> IF p \in DOMAIN D THEN D[p].first ELSE at,
                         last  |-> at])
      BY <2>2, ApiMaps DEF Api!Accessed, D
    <3>. QED  BY <3>1, <3>2 DEF Put
  <2>. QED  BY <2>1, <2>3
<1>6. t.firstSeen \in Nat /\ t.lastSeen \in Nat /\ t.firstSeen <= t.lastSeen /\ t.lastSeen <= now
  BY <1>3 DEF Tracks
<1>7. PICK after : after = [endpoints |-> A, firstSeen |-> t.firstSeen, lastSeen |-> now, born |-> born]
  OBVIOUS
<1>18. after = [t EXCEPT !.lastSeen = now, !.endpoints = Api!Accessed(@, e.q.path, now)]
  <2>1. PICK old, first, seen : t = [endpoints |-> old, firstSeen |-> first, lastSeen |-> seen,
                                     born |-> born]
    BY <1>2 DEF Tracks
  <2>2. t.firstSeen = first /\ t.endpoints = old
    BY <2>1
  <2>3. Api!Accessed(t.endpoints, e.q.path, now) = A
    BY <1>4, <1>17
  <2>4. [t EXCEPT !.lastSeen = now, !.endpoints = A]
          = [endpoints |-> A, firstSeen |-> first, lastSeen |-> now, born |-> born]
    <3> DEFINE R == [endpoints : {old, A}, firstSeen : {first}, lastSeen : {seen, now}, born : {born}]
    <3>1. PICK r : r = [t EXCEPT !.lastSeen = now, !.endpoints = A]
      OBVIOUS
    <3>2. t \in R
      BY <2>1
    <3>3. r \in R /\ r.endpoints = A /\ r.lastSeen = now
      BY <3>1, <3>2
    <3>. QED  BY <3>1, <3>3
  <2>. QED  BY <1>7, <2>2, <2>3, <2>4
<1>8. /\ CallsOf(c, born)' = CallsOf(c, born) \cup {l}
      /\ CallsOf(c, born) \subseteq DOMAIN log
  <2>1. /\ CallsOf(c, born)' = CallsOf(c, born) \cup (IF e.q.client = c THEN {l} ELSE {})
        /\ CallsOf(c, born) \subseteq DOMAIN log
    BY <1>1, <1>3, CallsAfter
  <2>. QED  BY <2>1
<1>9. /\ l \in Nat /\ \A n \in DOMAIN log : n \in Nat /\ n < l
      /\ \A n \in DOMAIN log : log'[n] = log[n] /\ log[n].at \in Nat /\ log[n].at <= now
      /\ log'[l] = e
  <2>1. \A n \in DOMAIN log : log[n].at \in Nat /\ log[n].at <= now
    BY AccessedElements DEF ApiTypes
  <2>. QED  BY <1>1, <2>1, OneAccess
<1>10. \A x \in DOMAIN t.endpoints : IsEndpoint(c, born, t.lastSeen, x, t.endpoints[x])
  BY <1>2 DEF Tracks
<1>11. \A n \in CallsOf(c, born) :
         log[n].q.path \in DOMAIN t.endpoints \/ log[n].at < t.lastSeen - windowMs
  BY <1>2 DEF Tracks
<1>12. \A n \in CallsOf(c, born) : log[n].q.path \notin left => log[n].at < now - windowMs
  <2>. SUFFICES ASSUME NEW n \in CallsOf(c, born), log[n].q.path \notin left
                PROVE  log[n].at < now - windowMs
    OBVIOUS
  <2>1. PICK x : x = log[n].q.path
    OBVIOUS
  <2>2. log[n].at \in Nat
    BY <1>8, <1>9
  <2>3. CASE x \in DOMAIN t.endpoints
    <3>1. now - t.endpoints[x].last > windowMs
      BY <1>19, <2>1, <2>3
    <3>2. n \in CallsTo(c, born, x)
      BY <2>1 DEF CallsTo
    <3>3. /\ log[n].at <= t.endpoints[x].last
          /\ \E m \in CallsTo(c, born, x) : log[m].at = t.endpoints[x].last
      BY <1>10, <2>3, <3>2 DEF IsEndpoint
    <3>4. t.endpoints[x].last \in Nat
      BY <1>8, <1>9, <3>3 DEF CallsTo
    <3>. QED  BY <1>3, <2>2, <3>1, <3>3, <3>4
  <2>4. CASE x \notin DOMAIN t.endpoints
    <3>1. log[n].at < t.lastSeen - windowMs
      BY <1>11, <2>1, <2>4
    <3>. QED  BY <1>3, <1>6, <2>2, <3>1
  <2>. QED  BY <2>3, <2>4
<1>13. ASSUME NEW x \in DOMAIN A PROVE IsEndpoint(c, born, now, x, A[x])'
  <2>1. CASE x # p
    <3>1. x \in left /\ A[x] = t.endpoints[x] /\ x \in DOMAIN t.endpoints
      BY <1>5, <1>19, <2>1
    <3>2. PICK f : f = t.endpoints[x]
      OBVIOUS
    <3>3. IsEndpoint(c, born, t.lastSeen, x, f) /\ ~(now - f.last > windowMs)
      BY <1>10, <1>19, <3>1, <3>2
    <3>4. CallsTo(c, born, x)' = CallsTo(c, born, x) /\ RunOf(c, born, x)' = RunOf(c, born, x)
      BY <1>1, <1>3, <1>4, <2>1, RunOfOther
    <3>5. CallsTo(c, born, x) \subseteq DOMAIN log
      BY <1>8 DEF CallsTo
    <3>6. f.last \in Nat
      BY <1>9, <3>3, <3>5 DEF IsEndpoint
    <3>7. f.last >= now - windowMs
      BY <1>3, <3>3, <3>6
    <3>8. IsEndpoint(c, born, now, x, f)'
      BY <1>9, <3>3, <3>4, <3>5, <3>7 DEF IsEndpoint
    <3>. QED  BY <3>1, <3>2, <3>8
  <2>2. CASE x = p
    <3>1. /\ CallsTo(c, born, p)' = CallsTo(c, born, p) \cup {l}
          /\ \A k \in CallsTo(c, born, p) :
               (\A n \in CallsTo(c, born, p) : log[n].at <= log[k].at) /\ now - log[k].at <= windowMs
                 => RunOf(c, born, p)' = RunOf(c, born, p) \cup {l}
          /\ (\A n \in CallsTo(c, born, p) : ~(now - log[n].at <= windowMs))
               => RunOf(c, born, p)' = {l}
      BY <1>1, <1>3, <1>4, RunOfCalled
    <3>2. CallsTo(c, born, p) \subseteq DOMAIN log /\ CallsTo(c, born, p) \subseteq CallsOf(c, born)
      BY <1>8 DEF CallsTo
    <3>3. PICK f : f = A[p]
      OBVIOUS
    <3>4. /\ f = [count |-> f.count, first |-> f.first, last |-> now] /\ f.first \in 0 .. now
          /\ f.count = Cardinality(RunOf(c, born, p)') /\ f.count # 0
      <4>1. CASE p \in left
        <5>1. PICK g : g = t.endpoints[p]
          OBVIOUS
        <5>2. IsEndpoint(c, born, t.lastSeen, p, g) /\ ~(now - g.last > windowMs)
          BY <1>10, <1>19, <4>1, <5>1
        <5>3. PICK k \in CallsTo(c, born, p) :
                 log[k].at = g.last /\ \A n \in CallsTo(c, born, p) : log[n].at <= log[k].at
          BY <5>2 DEF IsEndpoint
        <5>4. now - log[k].at <= windowMs
          BY <1>3, <1>9, <3>2, <5>2, <5>3
        <5>5. RunOf(c, born, p)' = RunOf(c, born, p) \cup {l}
          BY <3>1, <5>3, <5>4
        <5>6. RunOf(c, born, p) \in SUBSET DOMAIN log /\ l \notin RunOf(c, born, p)
          BY <1>9, <3>2 DEF RunOf
        <5>7. IsFiniteSet(RunOf(c, born, p)) /\ Cardinality(RunOf(c, born, p)) \in Nat
          BY <5>6, CallsFinite
        <5>8. Cardinality(RunOf(c, born, p) \cup {l}) = Cardinality(RunOf(c, born, p)) + 1
          BY <5>6, <5>7, FS_AddElement
        <5>9. f = [count |-> g.count + 1, first |-> g.first, last |-> now]
          BY <1>5, <3>3, <4>1, <5>1
        <5>10. g.count = Cardinality(RunOf(c, born, p)) /\ g.first \in 0 .. now
          BY <5>2 DEF IsEndpoint
        <5>. QED  BY <5>5, <5>7, <5>8, <5>9, <5>10
      <4>2. CASE p \notin left
        <5>1. \A n \in CallsTo(c, born, p) : ~(now - log[n].at <= windowMs)
          <6>1. \A n \in CallsTo(c, born, p) :
                  n \in CallsOf(c, born) /\ log[n].q.path = p /\ log[n].at \in Nat
            BY <1>9, <3>2 DEF CallsTo
          <6>. QED  BY <1>3, <1>12, <4>2, <6>1
        <5>2. RunOf(c, born, p)' = {l}
          BY <3>1, <5>1
        <5>3. Cardinality({l}) = 1
          BY FS_Singleton
        <5>4. f = [count |-> 1, first |-> now, last |-> now]
          BY <1>5, <3>3, <4>2
        <5>. QED  BY <1>3, <5>2, <5>3, <5>4
      <4>. QED  BY <4>1, <4>2
    <3>5. /\ \A n \in CallsTo(c, born, p)' : log'[n].at <= now
          /\ l \in CallsTo(c, born, p)' /\ log'[l].at = now
      <4>1. log'[l].at = now /\ l \in CallsTo(c, born, p)' /\ now <= now
        BY <1>3, <1>9, <3>1
      <4>2. ASSUME NEW n \in CallsTo(c, born, p) PROVE log'[n].at <= now
        BY <1>9, <3>2
      <4>. QED  BY <3>1, <4>1, <4>2
    <3>6. f.last = now /\ now >= now - windowMs
      BY <1>3, <3>4
    <3>7. IsEndpoint(c, born, now, p, f)'
      BY <1>3, <3>4, <3>5, <3>6 DEF IsEndpoint
    <3>. QED  BY <2>2, <3>3, <3>7
  <2>. QED  BY <2>1, <2>2
<1>14. ASSUME NEW n \in CallsOf(c, born)'
       PROVE  log'[n].at <= now /\ (log'[n].q.path \in DOMAIN A \/ log'[n].at < now - windowMs)
  <2>1. CASE n = l
    <3>1. log'[n].at = now /\ log'[n].q.path = p /\ p \in DOMAIN A
      BY <1>4, <1>5, <1>9, <2>1
    <3>. QED  BY <1>3, <3>1
  <2>2. CASE n \in CallsOf(c, born)
    BY <1>5, <1>8, <1>9, <1>12, <2>2
  <2>. QED  BY <1>8, <2>1, <2>2
<1>15. /\ after.born = born /\ after.lastSeen = now /\ after.endpoints = A
       /\ after.firstSeen = t.firstSeen
  BY <1>7
<1>20. \A x \in DOMAIN after.endpoints :
         IsEndpoint(c, after.born, after.lastSeen, x, after.endpoints[x])'
  <2>. SUFFICES ASSUME NEW x \in DOMAIN after.endpoints
                PROVE  IsEndpoint(c, after.born, after.lastSeen, x, after.endpoints[x])'
    OBVIOUS
  <2>1. IsEndpoint(c, born, now, x, A[x])'
    BY <1>13, <1>15
  <2>. QED  BY <1>15, <2>1 DEF IsEndpoint
<1>21. \A n \in CallsOf(c, after.born)' :
         /\ log'[n].at <= after.lastSeen
         /\ log'[n].q.path \in DOMAIN after.endpoints \/ log'[n].at < after.lastSeen - windowMs
  BY <1>14, <1>15
<1>22. /\ after = [endpoints |-> after.endpoints, firstSeen |-> after.firstSeen,
                   lastSeen |-> after.lastSeen, born |-> after.born]
       /\ after.firstSeen \in Nat /\ after.lastSeen \in after.firstSeen .. now'
  BY <1>3, <1>6, <1>7, <1>15
<1>16. Tracks(c, after)'
  BY <1>20, <1>21, <1>22 DEF Tracks
<1>. QED  BY <1>16, <1>18

\* What another client has accessed is as it was.
LEMMA OthersTracked ==
  ASSUME Api!ApiAssumption, ApiTypes, NEW e \in ApiCall, e.at = now, log' = Append(log, e), now' = now,
         NEW c, c # e.q.client, NEW t, Tracks(c, t), t.born \in 1 .. Len(log)
  PROVE  Tracks(c, t)'
<1>1. PICK l : l = Len(log) + 1
  OBVIOUS
<1>2. PICK born \in 1 .. Len(log) : born = t.born
  OBVIOUS
<1>3. Len(log) \in Nat /\ born <= l
  BY <1>1, <1>2, AccessedElements
<1>4. CallsOf(c, born)' = CallsOf(c, born) /\ CallsOf(c, born) \subseteq DOMAIN log
  <2>1. /\ CallsOf(c, born)' = CallsOf(c, born) \cup (IF e.q.client = c THEN {l} ELSE {})
        /\ CallsOf(c, born) \subseteq DOMAIN log
    BY <1>1, <1>3, CallsAfter
  <2>. QED  BY <2>1
<1>5. \A n \in DOMAIN log : log'[n] = log[n]
  BY <1>1, OneAccess
<1>6. ASSUME NEW x \in DOMAIN t.endpoints
      PROVE  IsEndpoint(c, t.born, t.lastSeen, x, t.endpoints[x])'
  <2>1. IsEndpoint(c, t.born, t.lastSeen, x, t.endpoints[x])
    BY DEF Tracks
  <2>2. CallsTo(c, born, x)' = CallsTo(c, born, x) /\ RunOf(c, born, x)' = RunOf(c, born, x)
    BY <1>1, <1>3, RunOfOther
  <2>3. CallsTo(c, born, x) \subseteq DOMAIN log
    BY <1>4 DEF CallsTo
  <2>. QED  BY <1>2, <1>5, <2>1, <2>2, <2>3 DEF IsEndpoint
<1>7. \A n \in CallsOf(c, born)' :
        /\ log'[n].at <= t.lastSeen
        /\ log'[n].q.path \in DOMAIN t.endpoints \/ log'[n].at < t.lastSeen - windowMs
  <2>1. \A n \in CallsOf(c, born) :
          /\ log[n].at <= t.lastSeen
          /\ log[n].q.path \in DOMAIN t.endpoints \/ log[n].at < t.lastSeen - windowMs
    BY <1>2 DEF Tracks
  <2>. QED  BY <1>4, <1>5, <2>1
<1>8. t = [endpoints |-> t.endpoints, firstSeen |-> t.firstSeen, lastSeen |-> t.lastSeen,
           born |-> t.born] /\ t.firstSeen \in Nat /\ t.lastSeen \in t.firstSeen .. now'
  BY DEF Tracks
<1>. QED  BY <1>2, <1>6, <1>7, <1>8 DEF Tracks

\* Room is made whoever calls.
LEMMA RoomForTracker ==
  ASSUME Api!ApiAssumption, Within(trackers, MaxTrackers)
  PROVE  LET room == Api!WithRoom(trackers)
         IN  /\ Within(room, MaxTrackers) /\ MapSize(room) < MaxTrackers
             /\ DOMAIN room.of \subseteq DOMAIN trackers.of
             /\ \A c \in DOMAIN room.of : room.of[c] = trackers.of[c]
<1>1. /\ MaxTrackers \in Nat /\ MaxTrackers # 0 /\ Ordered(trackers)
      /\ MapSize(trackers) \in Nat /\ MapSize(trackers) <= MaxTrackers
  BY SizeType DEF Within, Api!ApiAssumption
<1>2. CASE MapSize(trackers) >= MaxTrackers
  <2>1. Api!WithRoom(trackers) = MapDeleteFirst(trackers)
    BY <1>2, ApiMaps DEF Api!WithRoom
  <2>2. Ordered(MapDeleteFirst(trackers)) /\ MapSize(MapDeleteFirst(trackers)) = MapSize(trackers) - 1
    BY <1>1, <1>2, DeleteFirstOrdered
  <2>. QED  BY <1>1, <2>1, <2>2, DeletedFirst DEF Within
<1>3. CASE ~(MapSize(trackers) >= MaxTrackers)
  <2>1. Api!WithRoom(trackers) = trackers
    BY <1>3, ApiMaps DEF Api!WithRoom
  <2>. QED  BY <1>1, <1>3, <2>1 DEF Within
<1>. QED  BY <1>2, <1>3

LEMMA ApiCheckKeeps ==
  ASSUME Api!ApiAssumption, ApiInv, NEW q \in Accesses, Api!Check(q)
  PROVE  ApiInv'
<1>1. ApiTypes /\ now \in Nat /\ now' = now /\ Len(log) \in Nat /\ Len(log) < MaxCalls
      /\ DOMAIN log = 1 .. Len(log) /\ MaxCalls \in Nat
  BY AccessedElements DEF ApiInv, ApiTypes, Api!Check, Api!ApiAssumption
<1>2. PICK c : c = q.client
  OBVIOUS
<1>3. PICK t : t = IF MapHas(trackers, c) THEN trackers.of[c]
                   ELSE [endpoints |-> Empty, firstSeen |-> now, lastSeen |-> now,
                         born |-> Len(log) + 1]
  OBVIOUS
<1>4. PICK after : after = [t EXCEPT !.lastSeen = now, !.endpoints = Api!Accessed(@, q.path, now)]
  OBVIOUS
<1>5. PICK e \in ApiCall : /\ e.q = q /\ e.at = now
                          /\ log' = Append(log, e)
                          /\ trackers' = MapSet(Api!WithRoom(trackers), c, after)
  <2>1. PICK flags : /\ flags = (IF q.graphql THEN Api!GraphqlFlags(q.query) ELSE {})
                                 \cup Api!RestFlags(q) \cup Api!EnumerationFlags(after.endpoints)
    OBVIOUS
  <2>2. flags \subseteq ApiKinds
    <3>1. Api!GraphqlFlags(q.query) \subseteq ApiKinds
      BY DEF Api!GraphqlFlags, Api!Flag, ApiKinds
    <3>2. Api!RestFlags(q) \subseteq ApiKinds
      BY DEF Api!RestFlags, Api!Flag, ApiKinds
    <3>3. Api!EnumerationFlags(after.endpoints) \subseteq ApiKinds
      BY DEF Api!EnumerationFlags, Api!Flag, ApiKinds
    <3>. QED  BY <2>1, <3>1, <3>2, <3>3
  <2>3. /\ log' = Append(log, [q |-> q, at |-> now, flags |-> flags])
        /\ trackers' = MapSet(Api!WithRoom(trackers), c, after)
    BY <1>2, <1>3, <1>4, <2>1, ApiMaps DEF Api!Check
  <2>4. [q |-> q, at |-> now, flags |-> flags] \in ApiCall
    BY <1>1, <2>2 DEF ApiCall
  <2>. QED  BY <2>3, <2>4
<1>6. Tracks(c, t) /\ t.born \in 1 .. Len(log) + 1
  <2>1. CASE MapHas(trackers, c)
    <3>1. t = trackers.of[c] /\ c \in DOMAIN trackers.of
      BY <1>3, <2>1 DEF MapHas
    <3>2. t.born \in 1 .. Len(log) /\ Tracks(c, t)
      BY <3>1 DEF ApiInv
    <3>. QED  BY <1>1, <3>2
  <2>2. CASE ~MapHas(trackers, c)
    <3>1. PICK born : born = Len(log) + 1
      OBVIOUS
    <3>2. t = [endpoints |-> Empty, firstSeen |-> now, lastSeen |-> now, born |-> born]
      BY <1>3, <2>2, <3>1
    <3>3. CallsOf(c, born) = {}
      BY <1>1, <3>1 DEF CallsOf
    <3>4. DOMAIN t.endpoints = {}
      BY <3>2 DEF Empty
    <3>5. t.born = born /\ t.firstSeen = now /\ t.lastSeen = now
          /\ t = [endpoints |-> t.endpoints, firstSeen |-> t.firstSeen, lastSeen |-> t.lastSeen,
                  born |-> t.born]
      BY <3>2
    <3>6. Tracks(c, t)
      BY <1>1, <3>3, <3>4, <3>5 DEF Tracks
    <3>. QED  BY <1>1, <3>1, <3>5, <3>6
  <2>. QED  BY <2>1, <2>2
<1>7. Tracks(c, after)'
  <2>1. after = [t EXCEPT !.lastSeen = now, !.endpoints = Api!Accessed(@, e.q.path, now)]
    BY <1>4, <1>5
  <2>2. c = e.q.client
    BY <1>2, <1>5
  <2>3. Tracks(c, [t EXCEPT !.lastSeen = now, !.endpoints = Api!Accessed(@, e.q.path, now)])'
    BY <1>1, <1>5, <1>6, <2>2, AccessExact
  <2>. QED  BY <1>1, <2>1, <2>3
<1>8. after.born = t.born
  BY <1>4, <1>6 DEF Tracks
<1>9. PICK room : room = Api!WithRoom(trackers)
  OBVIOUS
<1>10. /\ Within(room, MaxTrackers) /\ MapSize(room) < MaxTrackers
       /\ DOMAIN room.of \subseteq DOMAIN trackers.of
       /\ \A d \in DOMAIN room.of : room.of[d] = trackers.of[d]
  BY <1>1, <1>9, RoomForTracker DEF ApiTypes
<1>11. /\ DOMAIN trackers'.of = DOMAIN room.of \cup {c} /\ trackers'.of[c] = after
       /\ \A d \in DOMAIN room.of : d # c => trackers'.of[d] = room.of[d]
  BY <1>5, <1>9, SetValue
<1>12. Within(trackers', MaxTrackers)
  BY <1>5, <1>9, <1>10, SetWithin DEF Api!ApiAssumption
<1>13. PICK l : l = Len(log) + 1
  OBVIOUS
<1>14. /\ log' \in Seq(ApiCall) /\ Len(log') = l /\ l \notin DOMAIN log
       /\ DOMAIN log' = DOMAIN log \cup {l} /\ \A n \in DOMAIN log : n \in Nat /\ n < l
       /\ \A n \in DOMAIN log : log'[n] = log[n]
       /\ log'[l] = e /\ l \in Nat
  BY <1>1, <1>5, <1>13, OneAccess
<1>15. /\ \A n \in DOMAIN log' : log'[n].at <= now'
       /\ \A m, n \in DOMAIN log' : m <= n => log'[m].at <= log'[n].at
  <2>1. \A n \in DOMAIN log : log[n].at <= now
    BY <1>1 DEF ApiTypes
  <2>2. \A m, n \in DOMAIN log : m <= n => log[m].at <= log[n].at
    BY <1>1 DEF ApiTypes
  <2>3. log'[l].at = now /\ now <= now
    BY <1>1, <1>5, <1>14
  <2>. QED  BY <1>1, <1>14, <2>1, <2>2, <2>3
<1>16. ApiTypes'
  BY <1>1, <1>12, <1>13, <1>14, <1>15 DEF ApiTypes
<1>17. ASSUME NEW d \in DOMAIN trackers'.of
       PROVE  trackers'.of[d].born \in 1 .. Len(log') /\ Tracks(d, trackers.of[d])'
  <2>1. CASE d = c
    BY <1>1, <1>6, <1>7, <1>8, <1>11, <1>13, <1>14, <2>1
  <2>2. CASE d # c
    <3>1. d \in DOMAIN trackers.of /\ trackers'.of[d] = trackers.of[d]
      BY <1>10, <1>11, <2>2
    <3>2. PICK u : u = trackers.of[d]
      OBVIOUS
    <3>3. u.born \in 1 .. Len(log) /\ Tracks(d, u)
      BY <3>1, <3>2 DEF ApiInv
    <3>4. d # e.q.client
      BY <1>2, <1>5, <2>2
    <3>5. Tracks(d, u)'
      BY <1>1, <1>5, <3>3, <3>4, OthersTracked
    <3>6. u = trackers'.of[d] /\ u.born \in 1 .. Len(log')
      BY <1>1, <1>13, <1>14, <3>1, <3>2, <3>3
    <3>. QED  BY <3>5, <3>6
  <2>. QED  BY <2>1, <2>2
<1>. QED  BY <1>16, <1>17 DEF ApiInv

\* Clients that are dropped leave the others as they were; so does time.
LEMMA ApiOthersKeep ==
  ASSUME ApiInv, Api!ApiAssumption, log' = log, now' \in 0 .. MaxTime, now <= now',
         Within(trackers', MaxTrackers),
         \A c \in DOMAIN trackers'.of : c \in DOMAIN trackers.of /\ trackers'.of[c] = trackers.of[c]
  PROVE  ApiInv'
<1>1. ApiTypes /\ now \in Nat /\ now' \in Nat
  BY DEF ApiInv, ApiTypes, Api!ApiAssumption
<1>2. ApiTypes'
  <2>1. \A n \in DOMAIN log : log[n].at \in Nat /\ log[n].at <= now
    BY <1>1, AccessedElements DEF ApiTypes
  <2>2. \A n \in DOMAIN log : log[n].at <= now'
    BY <1>1, <2>1
  <2>. QED  BY <1>1, <2>2 DEF ApiTypes
<1>3. ASSUME NEW c \in DOMAIN trackers'.of
      PROVE  trackers'.of[c].born \in 1 .. Len(log') /\ Tracks(c, trackers.of[c])'
  <2>1. PICK t : t = trackers.of[c]
    OBVIOUS
  <2>2. t = trackers'.of[c] /\ t.born \in 1 .. Len(log) /\ Tracks(c, t)
    BY <2>1 DEF ApiInv
  <2>3. /\ CallsOf(c, t.born)' = CallsOf(c, t.born)
        /\ \A p : CallsTo(c, t.born, p)' = CallsTo(c, t.born, p)
        /\ \A p : RunOf(c, t.born, p)' = RunOf(c, t.born, p)
    BY DEF CallsOf, CallsTo, RunOf
  <2>4. \A p \in DOMAIN t.endpoints : IsEndpoint(c, t.born, t.lastSeen, p, t.endpoints[p])'
    <3>. SUFFICES ASSUME NEW p \in DOMAIN t.endpoints
                  PROVE  IsEndpoint(c, t.born, t.lastSeen, p, t.endpoints[p])'
      OBVIOUS
    <3>1. IsEndpoint(c, t.born, t.lastSeen, p, t.endpoints[p])
      BY <2>2 DEF Tracks
    <3>. QED  BY <1>1, <2>3, <3>1 DEF IsEndpoint
  <2>5. t.firstSeen \in Nat /\ t.lastSeen \in t.firstSeen .. now'
    BY <1>1, <2>2 DEF Tracks
  <2>6. Tracks(c, t)'
    BY <2>2, <2>3, <2>4, <2>5 DEF Tracks
  <2>. QED  BY <2>2, <2>6
<1>. QED  BY <1>2, <1>3 DEF ApiInv

LEMMA ApiStep == Api!ApiAssumption /\ ApiInv /\ [Api!Next]_(Api!vars) => ApiInv'
<1> SUFFICES ASSUME Api!ApiAssumption, ApiInv, [Api!Next]_(Api!vars) PROVE ApiInv'
  OBVIOUS
<1>1. now \in 0 .. MaxTime /\ MaxTime \in Nat /\ Within(trackers, MaxTrackers) /\ MaxTrackers \in Nat
  BY DEF ApiInv, ApiTypes, Api!ApiAssumption
<1>2. ASSUME NEW q \in Accesses, Api!Check(q) PROVE ApiInv'
  BY <1>2, ApiCheckKeeps
<1>3. CASE Api!Collect
  <2>1. PICK S : trackers' = MapDelete(trackers, S) /\ now' = now /\ log' = log
    BY <1>3, ApiMaps DEF Api!Collect
  <2>2. /\ Within(trackers', MaxTrackers)
        /\ \A c \in DOMAIN trackers'.of :
             c \in DOMAIN trackers.of /\ trackers'.of[c] = trackers.of[c]
    BY <1>1, <2>1, DeleteWithin, DeletedKeys
  <2>. QED  BY <1>1, <2>1, <2>2, ApiOthersKeep
<1>4. CASE Api!Tick
  BY <1>1, <1>4, ApiOthersKeep DEF Api!Tick
<1>5. CASE UNCHANGED Api!vars
  BY <1>1, <1>5, ApiOthersKeep DEF Api!vars
<1>. QED  BY <1>2, <1>3, <1>4, <1>5 DEF Api!Next

-----------------------------------------------------------------------------
(* Bot detection.                                                          *)

LEMMA BotMaps ==
  /\ \A m, k, v : Bots!MapSet(m, k, v) = MapSet(m, k, v)
  /\ \A m, S : Bots!MapDelete(m, S) = MapDelete(m, S)
  /\ \A m, k : Bots!MapHas(m, k) <=> MapHas(m, k)
  /\ \A m : Bots!MapSize(m) = MapSize(m)
  /\ \A m : Bots!MapOrdered(m) <=> MapOrdered(m)
  /\ Bots!EmptyMap = EmptyMap
  /\ \A S : Bots!Cardinality(S) = Cardinality(S)
<1>1. \A S : Bots!Cardinality(S) = Cardinality(S)
  BY DEF Bots!Cardinality, Cardinality
<1>2. \A f, k, v : Bots!Put(f, k, v) = Put(f, k, v)
  BY DEF Bots!Put, Put
<1>3. \A f, S : Bots!Drop(f, S) = Drop(f, S)
  BY DEF Bots!Drop, Drop
<1>4. \A m, k : Bots!MapHas(m, k) <=> MapHas(m, k)
  BY DEF Bots!MapHas, MapHas
<1>5. \A m : Bots!MapSize(m) = MapSize(m)
  BY <1>1 DEF Bots!MapSize, MapSize
<1>6. \A s, S : Bots!Without(s, S) = Without(s, S)
  BY DEF Bots!Without, Without, Bots!Cardinality, Cardinality
<1>7. \A m, k, v : Bots!MapSet(m, k, v) = MapSet(m, k, v)
  BY <1>2, <1>4 DEF Bots!MapSet, MapSet
<1>8. \A m, S : Bots!MapDelete(m, S) = MapDelete(m, S)
  BY <1>3, <1>6 DEF Bots!MapDelete, MapDelete
<1>9. \A m : Bots!MapOrdered(m) <=> MapOrdered(m)
  BY DEF Bots!MapOrdered, MapOrdered
<1>10. Bots!EmptyMap = EmptyMap
  BY DEF Bots!EmptyMap, EmptyMap, Bots!Empty, Empty
<1>. QED  BY <1>1, <1>4, <1>5, <1>7, <1>8, <1>9, <1>10

BotKinds == (UNION {q.found : q \in Pages})
            \cup {"no_static_assets_fetched", "excessive_request_rate",
                  "sequential_path_access", "honeypot_flagged"}
PageCall == [q : Pages, at : Nat, known : Nat, in : Nat, flags : SUBSET BotKinds]
Fetched  == [at : Nat, path : {q.path : q \in Pages}]

\* The calls up to this one are analysed, those after it are queued.
Analysed == Len(log) - Len(queue)

\* The calls of a session; those of them after the n-th.
CallsIn(id, born)  == {n \in DOMAIN log : log[n].q.id = id /\ log[n].in = born}
Following(own, n)  == {m \in own : m > n}

\* A session that is not marked holds its last calls.
HoldsLast(requests, own) ==
  /\ Len(requests) = Bots!Least(maxRequests, Cardinality(own))
  /\ \A n \in own : Cardinality(Following(own, n)) < maxRequests =>
       requests[Len(requests) - Cardinality(Following(own, n))]
         = [at |-> log[n].at, path |-> log[n].q.path]

IsSession(id, data) ==
  /\ data = [lastSeen |-> data.lastSeen, requests |-> data.requests, isBot |-> data.isBot,
             born |-> data.born]
  /\ data.lastSeen \in 0 .. now /\ data.isBot \in BOOLEAN
  /\ data.requests \in Seq(Fetched) /\ Len(data.requests) <= maxRequests
  /\ ~data.isBot => HoldsLast(data.requests, CallsIn(id, data.born))

BotTypes ==
  /\ now \in 0 .. MaxTime
  /\ log \in Seq(PageCall) /\ \A n \in DOMAIN log : log[n].at <= now
  /\ queue \in Seq(Nat) /\ Len(queue) <= Len(log)
  /\ \A i \in DOMAIN queue : queue[i] = Analysed + i
  /\ Within(sessions, maxSessions)
  /\ sessions = [of |-> sessions.of, keys |-> sessions.keys]

\* A call is of no session before it is analysed, and then of one that an analysed call
\* created.
InOne ==
  \A n \in DOMAIN log :
    /\ log[n].known <= Analysed
    /\ IF n <= Analysed THEN log[n].in \in 1 .. n ELSE log[n].in = 0

\* The honeypot has marked the session its call met, if it is still there, and every
\* call analysed in it since says so.
Marked ==
  \A m \in DOMAIN log : log[m].q.trap /\ log[m].known # 0 =>
    /\ \A id \in DOMAIN sessions.of :
         id = log[m].q.id /\ sessions.of[id].born = log[m].known => sessions.of[id].isBot
    /\ \A n \in DOMAIN log :
         m <= n /\ log[n].q.id = log[m].q.id /\ log[n].in = log[m].known
           => "honeypot_flagged" \in log[n].flags

Locked == \A id \in locks : id \in DOMAIN sessions.of \/ \E i \in DOMAIN queue : log[queue[i]].q.id = id

BotsInv ==
  /\ BotTypes /\ InOne /\ Marked /\ Locked
  /\ \A id \in DOMAIN sessions.of :
       sessions.of[id].born \in 1 .. Analysed /\ IsSession(id, sessions.of[id])

LEMMA PageElements ==
  ASSUME BotTypes
  PROVE  /\ \A n \in DOMAIN log : log[n] \in PageCall
         /\ DOMAIN log = 1 .. Len(log) /\ Len(log) \in Nat
         /\ DOMAIN queue = 1 .. Len(queue) /\ Len(queue) \in Nat
         /\ Analysed \in Nat /\ Analysed <= Len(log)
<1>1. log \in Seq(PageCall) /\ queue \in Seq(Nat) /\ Len(queue) <= Len(log)
  BY DEF BotTypes
<1>2. DOMAIN log = 1 .. Len(log) /\ Len(log) \in Nat
      /\ DOMAIN queue = 1 .. Len(queue) /\ Len(queue) \in Nat
  BY <1>1, LenProperties
<1>3. \A n \in DOMAIN log : log[n] \in PageCall
  BY <1>1, <1>2, ElementOfSeq
<1>. QED  BY <1>1, <1>2, <1>3 DEF Analysed

LEMMA BotsInvHolds == Bots!BotAssumption /\ BotsInv => Bots!TypeOK /\ Bots!SessionsAsSequential
<1> SUFFICES ASSUME Bots!BotAssumption, BotsInv PROVE Bots!TypeOK /\ Bots!SessionsAsSequential
  OBVIOUS
<1>1. BotTypes
  BY DEF BotsInv
<1>2. /\ DOMAIN log = 1 .. Len(log) /\ Len(log) \in Nat
      /\ DOMAIN queue = 1 .. Len(queue) /\ Len(queue) \in Nat
  BY <1>1, PageElements
<1>3. \A i \in DOMAIN queue : queue[i] \in DOMAIN log
  BY <1>1, <1>2 DEF BotTypes, Analysed
<1>4. Bots!TypeOK
  <2>1. Bots!MapOrdered(sessions) /\ Bots!MapSize(sessions) <= maxSessions /\ now \in 0 .. MaxTime
    BY <1>1, BotMaps DEF BotTypes, Within, Ordered
  <2>2. \A id \in DOMAIN sessions.of :
          Len(sessions.of[id].requests) <= maxRequests /\ sessions.of[id].lastSeen \in 0 .. now
    BY DEF BotsInv, IsSession
  <2>3. \A n \in DOMAIN log : Bots!Severity(log[n]) \in {"none", "medium", "high"}
    BY DEF Bots!Severity
  <2>. QED  BY <1>3, <2>1, <2>2, <2>3 DEF Bots!TypeOK
<1>5. Bots!SessionsAsSequential
  <2>1. locks \subseteq DOMAIN sessions.of \cup {log[n].q.id : n \in Bots!Members(queue)}
    BY DEF BotsInv, Locked, Bots!Members
  <2>2. ASSUME NEW id \in DOMAIN sessions.of
        PROVE  LET data     == sessions.of[id]
                   own      == {n \in DOMAIN log : log[n].q.id = id /\ log[n].in = data.born}
                   after(n) == Bots!Cardinality({m \in own : m > n})
               IN  ~data.isBot =>
                     /\ Len(data.requests) = Bots!Least(maxRequests, Bots!Cardinality(own))
                     /\ \A n \in own : after(n) < maxRequests =>
                          data.requests[Len(data.requests) - after(n)]
                            = [at |-> log[n].at, path |-> log[n].q.path]
    <3> DEFINE own == {n \in DOMAIN log : log[n].q.id = id /\ log[n].in = sessions.of[id].born}
    <3>1. PICK data : data = sessions.of[id]
      OBVIOUS
    <3>2. own = CallsIn(id, data.born) /\ IsSession(id, data)
      BY <3>1 DEF CallsIn, BotsInv
    <3>. HIDE DEF own
    <3>3. ~data.isBot => HoldsLast(data.requests, own)
      BY <3>2 DEF IsSession
    <3>4. /\ Bots!Cardinality(own) = Cardinality(own)
          /\ \A n : Bots!Cardinality({m \in own : m > n}) = Cardinality(Following(own, n))
      BY BotMaps DEF Following
    <3>5. ~data.isBot =>
            /\ Len(data.requests) = Bots!Least(maxRequests, Bots!Cardinality(own))
            /\ \A n \in own : Bots!Cardinality({m \in own : m > n}) < maxRequests =>
                 data.requests[Len(data.requests) - Bots!Cardinality({m \in own : m > n})]
                   = [at |-> log[n].at, path |-> log[n].q.path]
      BY <3>3, <3>4 DEF HoldsLast
    <3>. QED  BY <3>1, <3>5, Zenon DEF own
  <2>3. \A m, n \in DOMAIN log :
          /\ m <= n /\ log[m].q.trap /\ log[m].known # 0
          /\ log[m].q.id = log[n].q.id /\ log[n].in = log[m].known
          => "honeypot_flagged" \in log[n].flags
    BY DEF BotsInv, Marked
  <2>. QED  BY <2>1, <2>2, <2>3, Zenon DEF Bots!SessionsAsSequential
<1>. QED  BY <1>4, <1>5

LEMMA BotsInit == Bots!BotAssumption /\ Bots!Init => BotsInv
<1> SUFFICES ASSUME Bots!BotAssumption, Bots!Init PROVE BotsInv
  OBVIOUS
<1>1. /\ now = 0 /\ sessions = EmptyMap /\ locks = {}
      /\ log = <<>> /\ queue = <<>> /\ log \in Seq(PageCall) /\ queue \in Seq(Nat)
      /\ Len(log) = 0 /\ Len(queue) = 0 /\ DOMAIN log = {} /\ DOMAIN queue = {}
      /\ DOMAIN sessions.of = {} /\ sessions = [of |-> sessions.of, keys |-> sessions.keys]
  BY EmptySeq, BotMaps DEF Bots!Init, EmptyMap, Empty
<1>2. Within(sessions, maxSessions)
  BY <1>1, EmptyOrdered DEF Within, Bots!BotAssumption
<1>3. BotTypes
  BY <1>1, <1>2 DEF BotTypes, Bots!BotAssumption
<1>. QED  BY <1>1, <1>3 DEF BotsInv, InOne, Marked, Locked

\* Calls that are the same say the same of a session.
LEMMA SessionStays ==
  ASSUME BotTypes, Bots!BotAssumption, NEW id, NEW data, IsSession(id, data), now <= now', now' \in Nat,
         CallsIn(id, data.born)' = CallsIn(id, data.born),
         \A n \in DOMAIN log : log'[n].at = log[n].at /\ log'[n].q = log[n].q
  PROVE  IsSession(id, data)'
<1>1. PICK born, requests : born = data.born /\ requests = data.requests
  OBVIOUS
<1>2. data.lastSeen \in 0 .. now'
  BY DEF IsSession, BotTypes, Bots!BotAssumption
<1>3. CallsIn(id, born)' = CallsIn(id, born) /\ CallsIn(id, born) \subseteq DOMAIN log
  BY <1>1 DEF CallsIn
<1>4. PICK own : own = CallsIn(id, born)
  OBVIOUS
<1>5. HoldsLast(requests, own) => HoldsLast(requests, own)'
  <2>1. \A n \in own : log'[n].at = log[n].at /\ log'[n].q = log[n].q
    BY <1>3, <1>4
  <2>. QED  BY <2>1 DEF HoldsLast
<1>6. ~data.isBot => HoldsLast(requests, own)
  BY <1>1, <1>4 DEF IsSession
<1>7. ~data.isBot => HoldsLast(data.requests, CallsIn(id, data.born))'
  BY <1>1, <1>3, <1>4, <1>5, <1>6
<1>. QED  BY <1>2, <1>7 DEF IsSession

LEMMA Called ==
  ASSUME BotTypes, NEW e \in PageCall, log' = Append(log, e), NEW l, l = Len(log) + 1,
         queue' = Append(queue, l)
  PROVE  /\ l \in Nat /\ l \notin DOMAIN log /\ log' \in Seq(PageCall) /\ Len(log') = l
         /\ DOMAIN log' = DOMAIN log \cup {l} /\ \A n \in DOMAIN log : n \in Nat /\ n < l
         /\ \A n \in DOMAIN log : log'[n] = log[n]
         /\ log'[l] = e
         /\ queue' \in Seq(Nat) /\ Len(queue') = Len(queue) + 1
         /\ DOMAIN queue' = DOMAIN queue \cup {Len(queue) + 1} /\ Len(queue) + 1 \notin DOMAIN queue
         /\ \A i \in DOMAIN queue : queue'[i] = queue[i]
         /\ queue'[Len(queue) + 1] = l
         /\ Analysed' = Analysed
<1>1. /\ log \in Seq(PageCall) /\ queue \in Seq(Nat)
      /\ Len(log) \in Nat /\ DOMAIN log = 1 .. Len(log)
      /\ Len(queue) \in Nat /\ DOMAIN queue = 1 .. Len(queue)
  BY PageElements DEF BotTypes
<1>2. /\ l \in Nat /\ l \notin DOMAIN log /\ log' \in Seq(PageCall) /\ Len(log') = l
      /\ DOMAIN log' = DOMAIN log \cup {l} /\ \A n \in DOMAIN log : n \in Nat /\ n < l
      /\ \A n \in DOMAIN log : log'[n] = log[n]
      /\ log'[l] = e
  BY <1>1, AppendProperties, LenProperties
<1>3. /\ queue' \in Seq(Nat) /\ Len(queue') = Len(queue) + 1
      /\ DOMAIN queue' = DOMAIN queue \cup {Len(queue) + 1} /\ Len(queue) + 1 \notin DOMAIN queue
      /\ \A i \in DOMAIN queue : queue'[i] = queue[i]
      /\ queue'[Len(queue) + 1] = l
  BY <1>1, <1>2, AppendProperties, LenProperties
<1>. QED  BY <1>1, <1>2, <1>3 DEF Analysed

\* The honeypot marks the session it finds.
LEMMA SessionMarked ==
  ASSUME NEW id, NEW data, IsSession(id, data)
  PROVE  /\ IsSession(id, [data EXCEPT !.isBot = TRUE])
         /\ [data EXCEPT !.isBot = TRUE].born = data.born /\ [data EXCEPT !.isBot = TRUE].isBot = TRUE
<1>1. PICK seen, requests, bot, born :
        data = [lastSeen |-> seen, requests |-> requests, isBot |-> bot, born |-> born]
  BY DEF IsSession
<1>2. PICK d : d = [data EXCEPT !.isBot = TRUE]
  OBVIOUS
<1>3. d \in [lastSeen : {seen}, requests : {requests}, isBot : {TRUE, bot}, born : {born}]
  BY <1>1, <1>2
<1>4. d.isBot = TRUE
  BY <1>1, <1>2
<1>5. d = [lastSeen |-> seen, requests |-> requests, isBot |-> TRUE, born |-> born]
  BY <1>3, <1>4
<1>6. IsSession(id, d)
  BY <1>1, <1>5 DEF IsSession
<1>. QED  BY <1>1, <1>2, <1>5, <1>6

LEMMA StartKeeps ==
  ASSUME Bots!BotAssumption, BotsInv, NEW q \in Pages, Bots!Start(q)
  PROVE  BotsInv'
<1>1. /\ BotTypes /\ InOne /\ Marked /\ Locked /\ now \in Nat /\ now' = now
      /\ DOMAIN log = 1 .. Len(log) /\ Len(log) \in Nat /\ Analysed \in Nat /\ Analysed <= Len(log)
      /\ DOMAIN queue = 1 .. Len(queue) /\ Len(queue) \in Nat
  BY PageElements DEF BotsInv, BotTypes, Bots!Start, Bots!BotAssumption
<1>2. PICK id : id = q.id
  OBVIOUS
<1>3. PICK met : met = (id \in DOMAIN sessions.of)
  OBVIOUS
<1>4. PICK known : known = IF met THEN sessions.of[id].born ELSE 0
  OBVIOUS
<1>5. known \in Nat /\ known <= Analysed /\ (known # 0 => met)
  <2>1. CASE met
    <3>1. id \in DOMAIN sessions.of /\ known = sessions.of[id].born
      BY <1>3, <1>4, <2>1
    <3>. QED  BY <1>1, <2>1, <3>1 DEF BotsInv
  <2>2. CASE ~met
    BY <1>1, <1>4, <2>2
  <2>. QED  BY <2>1, <2>2
<1>6. PICK l : l = Len(log) + 1
  OBVIOUS
<1>7. PICK e \in PageCall : /\ e.q = q /\ e.at = now /\ e.known = known /\ e.in = 0
                           /\ log' = Append(log, e)
  <2>1. PICK flags : flags = q.found \cup Bots!Flag("no_static_assets_fetched",
                               met /\ Bots!NoAssets(sessions.of[id].requests))
    OBVIOUS
  <2>2. flags \subseteq BotKinds
    BY <2>1 DEF BotKinds, Bots!Flag
  <2>3. log' = Append(log, [q |-> q, at |-> now, known |-> known, in |-> 0, flags |-> flags])
    BY <1>2, <1>3, <1>4, <2>1, BotMaps DEF Bots!Start, MapHas
  <2>4. [q |-> q, at |-> now, known |-> known, in |-> 0, flags |-> flags] \in PageCall
    BY <1>1, <1>5, <2>2 DEF PageCall
  <2>. QED  BY <2>3, <2>4
<1>8. queue' = Append(queue, l) /\ locks' = locks \cup {id}
  BY <1>2, <1>6 DEF Bots!Start
<1>9. /\ l \in Nat /\ l \notin DOMAIN log /\ log' \in Seq(PageCall) /\ Len(log') = l
      /\ DOMAIN log' = DOMAIN log \cup {l} /\ \A n \in DOMAIN log : n \in Nat /\ n < l
      /\ \A n \in DOMAIN log : log'[n] = log[n]
      /\ log'[l] = e
      /\ queue' \in Seq(Nat) /\ Len(queue') = Len(queue) + 1
      /\ DOMAIN queue' = DOMAIN queue \cup {Len(queue) + 1} /\ Len(queue) + 1 \notin DOMAIN queue
      /\ \A i \in DOMAIN queue : queue'[i] = queue[i]
      /\ queue'[Len(queue) + 1] = l
      /\ Analysed' = Analysed
  BY <1>1, <1>6, <1>7, <1>8, Called
<1>10. /\ DOMAIN sessions'.of = DOMAIN sessions.of /\ sessions'.keys = sessions.keys
       /\ sessions' = [of |-> sessions'.of, keys |-> sessions'.keys]
       /\ \A i \in DOMAIN sessions.of :
            sessions'.of[i] = IF q.trap /\ i = id THEN [sessions.of[i] EXCEPT !.isBot = TRUE]
                              ELSE sessions.of[i]
  <2>1. sessions' = IF q.trap /\ met THEN [sessions EXCEPT !.of[id].isBot = TRUE] ELSE sessions
    BY <1>2, <1>3, BotMaps DEF Bots!Start, MapHas
  <2>2. PICK of, keys : sessions = [of |-> of, keys |-> keys]
    BY <1>1 DEF BotTypes
  <2>3. CASE q.trap /\ met
    <3>1. sessions' = [of |-> [of EXCEPT ![id].isBot = TRUE], keys |-> keys]
      BY <2>1, <2>2, <2>3
    <3>. QED  BY <1>3, <2>2, <2>3, <3>1
  <2>4. CASE ~(q.trap /\ met)
    BY <1>3, <2>1, <2>2, <2>4
  <2>. QED  BY <2>3, <2>4
<1>11. ASSUME NEW i \in DOMAIN sessions'.of
       PROVE  /\ sessions'.of[i].born = sessions.of[i].born
              /\ sessions'.of[i].born \in 1 .. Analysed' /\ IsSession(i, sessions.of[i])'
              /\ sessions.of[i].isBot => sessions'.of[i].isBot
              /\ i = id /\ q.trap => sessions'.of[i].isBot
  <2>1. PICK data : data = sessions.of[i]
    OBVIOUS
  <2>2. data.born \in 1 .. Analysed /\ IsSession(i, data)
    BY <1>10, <2>1 DEF BotsInv
  <2>3. PICK d : d = IF q.trap /\ i = id THEN [data EXCEPT !.isBot = TRUE] ELSE data
    OBVIOUS
  <2>4. d.born = data.born /\ IsSession(i, d) /\ (data.isBot => d.isBot) /\ (i = id /\ q.trap => d.isBot)
    BY <2>2, <2>3, SessionMarked
  <2>5. CallsIn(i, d.born)' = CallsIn(i, d.born)
    BY <1>1, <1>7, <1>9, <2>2, <2>4 DEF CallsIn
  <2>6. IsSession(i, d)'
    BY <1>1, <1>9, <2>4, <2>5, SessionStays
  <2>7. d = sessions'.of[i]
    BY <1>10, <2>1, <2>3
  <2>. QED  BY <1>9, <2>1, <2>2, <2>4, <2>6, <2>7
<1>12. Within(sessions', maxSessions)
  BY <1>1, <1>10, OrderedByKeys DEF BotTypes, Within
<1>13. BotTypes'
  <2>1. \A i \in DOMAIN queue' : queue'[i] = Analysed' + i
    <3>1. \A i \in DOMAIN queue : queue[i] = Analysed + i
      BY <1>1 DEF BotTypes
    <3>2. l = Analysed + (Len(queue) + 1)
      BY <1>1, <1>6 DEF Analysed
    <3>. QED  BY <1>9, <3>1, <3>2
  <2>2. \A n \in DOMAIN log' : log'[n].at <= now'
    <3>1. \A n \in DOMAIN log : log[n].at <= now
      BY <1>1 DEF BotTypes
    <3>2. log'[l].at = now /\ now <= now
      BY <1>1, <1>7, <1>9
    <3>. QED  BY <1>1, <1>9, <3>1, <3>2
  <2>3. Len(queue') <= Len(log') /\ now' \in 0 .. MaxTime
    BY <1>1, <1>6, <1>9 DEF BotTypes
  <2>. QED  BY <1>9, <1>10, <1>12, <2>1, <2>2, <2>3 DEF BotTypes
<1>14. InOne'
  <2>1. \A n \in DOMAIN log : log[n].known <= Analysed
                               /\ IF n <= Analysed THEN log[n].in \in 1 .. n ELSE log[n].in = 0
    BY <1>1 DEF InOne
  <2>2. ~(l <= Analysed)
    BY <1>1, <1>6
  <2>. QED  BY <1>5, <1>7, <1>9, <2>1, <2>2 DEF InOne
<1>15. Locked'
  <2>. SUFFICES ASSUME NEW i \in locks'
                PROVE  i \in DOMAIN sessions'.of \/ \E k \in DOMAIN queue' : log'[queue'[k]].q.id = i
    BY DEF Locked
  <2>1. CASE i = id
    BY <1>2, <1>7, <1>9, <2>1
  <2>2. CASE i \in locks
    <3>1. i \in DOMAIN sessions.of \/ \E k \in DOMAIN queue : log[queue[k]].q.id = i
      BY <1>1, <2>2 DEF Locked
    <3>2. \A k \in DOMAIN queue : queue[k] \in DOMAIN log
      BY <1>1 DEF BotTypes, Analysed
    <3>. QED  BY <1>9, <1>10, <3>1, <3>2
  <2>. QED  BY <1>8, <2>1, <2>2
<1>16. Marked'
  <2>. SUFFICES ASSUME NEW m \in DOMAIN log', log'[m].q.trap, log'[m].known # 0
                PROVE  /\ \A i \in DOMAIN sessions'.of :
                            i = log'[m].q.id /\ sessions'.of[i].born = log'[m].known => sessions'.of[i].isBot
                       /\ \A n \in DOMAIN log' :
                            m <= n /\ log'[n].q.id = log'[m].q.id /\ log'[n].in = log'[m].known
                              => "honeypot_flagged" \in log'[n].flags
    BY DEF Marked
  <2>1. CASE m = l
    <3>1. \A i \in DOMAIN sessions'.of : i = id => sessions'.of[i].isBot
      BY <1>7, <1>9, <1>11, <2>1
    <3>2. \A n \in DOMAIN log' : m <= n => n = l
      BY <1>1, <1>6, <1>9, <2>1
    <3>. QED  BY <1>2, <1>7, <1>9, <2>1, <3>1, <3>2
  <2>2. CASE m \in DOMAIN log
    <3>1. /\ log'[m] = log[m]
          /\ \A i \in DOMAIN sessions.of :
               i = log[m].q.id /\ sessions.of[i].born = log[m].known => sessions.of[i].isBot
          /\ \A n \in DOMAIN log :
               m <= n /\ log[n].q.id = log[m].q.id /\ log[n].in = log[m].known
                 => "honeypot_flagged" \in log[n].flags
      BY <1>1, <1>9, <2>2 DEF Marked
    <3>2. ASSUME NEW i \in DOMAIN sessions'.of, i = log[m].q.id, sessions'.of[i].born = log[m].known
          PROVE  sessions'.of[i].isBot
      BY <1>10, <1>11, <3>1, <3>2
    <3>3. ASSUME NEW n \in DOMAIN log', m <= n, log'[n].q.id = log[m].q.id, log'[n].in = log[m].known
          PROVE  "honeypot_flagged" \in log'[n].flags
      <4>1. n # l
        BY <1>7, <1>9, <3>1, <3>3
      <4>. QED  BY <1>9, <3>1, <3>3, <4>1
    <3>. QED  BY <3>1, <3>2, <3>3
  <2>. QED  BY <1>9, <2>1, <2>2
<1>. QED  BY <1>11, <1>13, <1>14, <1>15, <1>16 DEF BotsInv

\* A number neither below nor above another is that one.
LEMMA Between ==
  ASSUME NEW a \in Nat, NEW b \in Nat, a <= b, a >= b
  PROVE  a = b
OBVIOUS

LEMMA OwnFinitely ==
  ASSUME BotTypes, NEW S \in SUBSET DOMAIN log
  PROVE  IsFiniteSet(S) /\ Cardinality(S) \in Nat /\ (Cardinality(S) = 0 <=> S = {})
<1> DEFINE N == Len(log)
<1>1. S \in SUBSET (1 .. N) /\ N \in Nat
  BY PageElements
<1>. HIDE DEF N
<1>2. IsFiniteSet(1 .. N)
  BY <1>1, FS_Interval
<1>. QED  BY <1>1, <1>2, FS_Subset, FS_CardinalityType, FS_EmptySet

\* A session that holds its last calls holds them with one more.
LEMMA HeldWithOneMore ==
  ASSUME BotTypes, NEW own \in SUBSET DOMAIN log, maxRequests \in Nat, maxRequests # 0,
         NEW requests \in Seq(Fetched), Len(requests) <= maxRequests, HoldsLast(requests, own),
         NEW l \in DOMAIN log, \A m \in own : m < l,
         \A m \in DOMAIN log : log'[m].at = log[m].at /\ log'[m].q = log[m].q,
         NEW r \in Fetched, r = [at |-> log[l].at, path |-> log[l].q.path],
         NEW R, R = Append(Bots!Shifted(requests), r)
  PROVE  R \in Seq(Fetched) /\ Len(R) <= maxRequests /\ HoldsLast(R, own \cup {l})'
<1> DEFINE C    == Cardinality(own)
           C2   == Cardinality(own \cup {l})
           S    == Bots!Shifted(requests)
<1>1. IsFiniteSet(own) /\ C \in Nat /\ l \notin own /\ DOMAIN log \subseteq Nat
  <2>1. DOMAIN log \subseteq Nat
    BY PageElements
  <2>. QED  BY <2>1, OwnFinitely
<1>2. C2 = C + 1
  BY <1>1, FS_AddElement
<1>3. Len(requests) = Bots!Least(maxRequests, C)
  BY DEF HoldsLast
<1>4. Len(requests) \in Nat /\ DOMAIN requests = 1 .. Len(requests)
  BY LenProperties
<1>. HIDE DEF C, C2, S
<1>5. /\ S \in Seq(Fetched) /\ Len(S) \in Nat
      /\ IF Len(requests) >= maxRequests
         THEN Len(S) = Len(requests) - 1 /\ \A i \in 1 .. Len(S) : S[i] = requests[i + 1]
         ELSE S = requests
  <2>1. CASE Len(requests) >= maxRequests
    <3>1. S = Tail(requests) /\ requests # <<>>
      BY <1>4, <2>1, EmptySeq DEF S, Bots!Shifted
    <3>2. /\ Tail(requests) \in Seq(Fetched) /\ Len(Tail(requests)) = Len(requests) - 1
          /\ \A i \in 1 .. Len(Tail(requests)) : Tail(requests)[i] = requests[i + 1]
      BY <3>1, HeadTailProperties
    <3>3. Len(S) \in Nat
      BY <1>4, <2>1, <3>1, <3>2
    <3>. QED  BY <2>1, <3>1, <3>2, <3>3
  <2>2. CASE ~(Len(requests) >= maxRequests)
    BY <1>4, <2>2 DEF S, Bots!Shifted
  <2>. QED  BY <2>1, <2>2
<1>6. /\ R \in Seq(Fetched) /\ Len(R) = Len(S) + 1
      /\ \A i \in 1 .. Len(S) : R[i] = S[i]
      /\ R[Len(R)] = r
  BY <1>5, AppendProperties DEF S
<1>7. Len(R) <= maxRequests /\ Len(R) = Bots!Least(maxRequests, C2)
  BY <1>1, <1>2, <1>3, <1>4, <1>5, <1>6 DEF Bots!Least
<1>8. ASSUME NEW n \in own \cup {l}, NEW k, k = Cardinality(Following(own \cup {l}, n)), k < maxRequests
      PROVE  R[Len(R) - k] = [at |-> log'[n].at, path |-> log'[n].q.path]
  <2>1. CASE n = l
    <3>1. Following(own \cup {l}, n) = {}
      BY <1>1, <2>1 DEF Following
    <3>2. k = 0
      BY <1>8, <3>1, FS_EmptySet
    <3>3. R[Len(R) - k] = r
      BY <1>5, <1>6, <3>2
    <3>. QED  BY <2>1, <3>3
  <2>2. CASE n \in own
    <3>1. PICK j : j = Cardinality(Following(own, n))
      OBVIOUS
    <3>2. Following(own, n) \in SUBSET DOMAIN log /\ l \notin Following(own, n)
      BY <1>1 DEF Following
    <3>3. Following(own \cup {l}, n) = Following(own, n) \cup {l}
      BY <1>1, <2>2 DEF Following
    <3>4. IsFiniteSet(Following(own, n)) /\ j \in Nat
      BY <3>1, <3>2, OwnFinitely
    <3>5. k = j + 1
      BY <1>8, <3>1, <3>2, <3>3, <3>4, FS_AddElement
    <3>6. requests[Len(requests) - j] = [at |-> log[n].at, path |-> log[n].q.path]
      <4>1. j < maxRequests
        BY <1>8, <3>4, <3>5
      <4>. QED  BY <2>2, <3>1, <4>1 DEF HoldsLast
    <3>7. j < C
      <4>1. Following(own, n) \in SUBSET (own \ {n})
        BY <1>1, <2>2 DEF Following
      <4>2. IsFiniteSet(own \ {n}) /\ Cardinality(own \ {n}) = C - 1
        BY <1>1, <2>2, FS_RemoveElement DEF C
      <4>3. j <= Cardinality(own \ {n})
        BY <3>1, <4>1, <4>2, FS_Subset
      <4>. QED  BY <1>1, <3>4, <4>2, <4>3
    <3>8. R[Len(R) - k] = requests[Len(requests) - j]
      <4>1. CASE Len(requests) >= maxRequests
        <5>1. Len(requests) = maxRequests /\ Len(S) = maxRequests - 1
              /\ \A i \in 1 .. Len(S) : S[i] = requests[i + 1]
          <6>1. Len(requests) = maxRequests
            BY <1>4, <4>1, Between, Zenon
          <6>. QED  BY <1>5, <4>1, <6>1
        <5>2. Len(R) - k \in 1 .. Len(S) /\ Len(R) - k + 1 = Len(requests) - j
          BY <1>6, <1>8, <3>4, <3>5, <5>1
        <5>. QED  BY <1>6, <5>1, <5>2
      <4>2. CASE ~(Len(requests) >= maxRequests)
        <5>1. S = requests /\ Len(requests) = C
          BY <1>1, <1>3, <1>4, <1>5, <4>2 DEF Bots!Least
        <5>2. Len(R) - k \in 1 .. Len(S) /\ Len(R) - k = Len(requests) - j
          BY <1>1, <1>6, <3>4, <3>5, <3>7, <5>1
        <5>. QED  BY <1>6, <5>1, <5>2
      <4>. QED  BY <4>1, <4>2
    <3>. QED  BY <2>2, <3>6, <3>8
  <2>. QED  BY <2>1, <2>2
<1>. QED  BY <1>6, <1>7, <1>8 DEF HoldsLast, C2

\* Room is made for a client that has no session.
LEMMA RoomForSession ==
  ASSUME Bots!BotAssumption, Within(sessions, maxSessions), NEW id, NEW gone, gone = Bots!Evicted(id)
  PROVE  LET room == MapDelete(sessions, gone)
         IN  /\ Within(room, maxSessions) /\ (MapHas(room, id) \/ MapSize(room) < maxSessions)
             /\ DOMAIN room.of = DOMAIN sessions.of \ gone
             /\ \A i \in DOMAIN room.of : room.of[i] = sessions.of[i]
             /\ id \in DOMAIN sessions.of => gone = {}
<1> DEFINE room == MapDelete(sessions, gone)
<1>1. /\ maxSessions \in Nat /\ maxSessions # 0 /\ Ordered(sessions)
      /\ MapSize(sessions) \in Nat /\ MapSize(sessions) <= maxSessions
  BY SizeType DEF Within, Bots!BotAssumption
<1>2. gone = IF id \in DOMAIN sessions.of \/ MapSize(sessions) < maxSessions THEN {}
             ELSE {Head(sessions.keys)}
  BY BotMaps DEF Bots!Evicted, MapHas
<1>3. /\ DOMAIN room.of = DOMAIN sessions.of \ gone
      /\ \A i \in DOMAIN room.of : room.of[i] = sessions.of[i]
  BY DeletedKeys
<1>4. Within(room, maxSessions) /\ MapSize(room) <= MapSize(sessions) /\ MapSize(room) \in Nat
  BY <1>1, DeleteWithin, DeleteOrdered, SizeType DEF Within
<1>. HIDE DEF room
<1>5. id \in DOMAIN sessions.of => gone = {} /\ MapHas(room, id)
  BY <1>2, <1>3 DEF MapHas
<1>6. id \notin DOMAIN sessions.of => MapSize(room) < maxSessions
  <2>. SUFFICES ASSUME id \notin DOMAIN sessions.of PROVE MapSize(room) < maxSessions
    OBVIOUS
  <2>1. CASE MapSize(sessions) < maxSessions
    BY <1>1, <1>4, <2>1
  <2>2. CASE ~(MapSize(sessions) < maxSessions)
    <3>1. gone = {Head(sessions.keys)} /\ MapSize(sessions) = maxSessions
      BY <1>1, <1>2, <2>2
    <3>2. MapSize(MapDeleteFirst(sessions)) = MapSize(sessions) - 1
      BY <1>1, <3>1, DeleteFirstOrdered
    <3>3. MapDeleteFirst(sessions) = room
      <4>1. MapDeleteFirst(sessions) # sessions
        BY <1>1, <3>2
      <4>. QED  BY <3>1, <4>1 DEF MapDeleteFirst, room
    <3>. QED  BY <1>1, <3>1, <3>2, <3>3
  <2>. QED  BY <2>1, <2>2
<1>. QED  BY <1>3, <1>4, <1>5, <1>6 DEF room

\* What the rest of a call makes of the session it finds, or creates.
Met(n, c, id, data) ==
  /\ c = log[n] /\ id = c.q.id
  /\ data = IF id \in DOMAIN sessions.of THEN [sessions.of[id] EXCEPT !.lastSeen = c.at]
            ELSE [lastSeen |-> c.at, requests |-> <<>>, isBot |-> FALSE, born |-> n]

LEMMA SessionAnalyzed ==
  ASSUME Bots!BotAssumption, BotsInv, NEW n \in DOMAIN log, n = Analysed + 1,
         NEW c, NEW id, NEW data, Met(n, c, id, data)
  PROVE  /\ IsSession(id, data) /\ data.born \in 1 .. n
         /\ id \in DOMAIN sessions.of =>
              data.born = sessions.of[id].born /\ data.isBot = sessions.of[id].isBot
         /\ id \notin DOMAIN sessions.of => data.born = n
<1>0. /\ c = log[n] /\ id = c.q.id
      /\ data = IF id \in DOMAIN sessions.of THEN [sessions.of[id] EXCEPT !.lastSeen = c.at]
                ELSE [lastSeen |-> c.at, requests |-> <<>>, isBot |-> FALSE, born |-> n]
  BY DEF Met
<1>1. /\ BotTypes /\ InOne /\ c \in PageCall /\ Analysed \in Nat /\ now \in Nat /\ n \in Nat
      /\ c.at \in 0 .. now
  <2>1. BotTypes /\ InOne /\ now \in Nat
    BY DEF BotsInv, BotTypes, Bots!BotAssumption
  <2>2. c \in PageCall /\ Analysed \in Nat
    BY <1>0, <2>1, PageElements
  <2>3. c.at \in Nat /\ c.at <= now
    BY <1>0, <2>1, <2>2 DEF BotTypes, PageCall
  <2>. QED  BY <2>1, <2>2, <2>3
<1>2. CASE id \in DOMAIN sessions.of
  <2>1. PICK old : old = sessions.of[id]
    OBVIOUS
  <2>2. IsSession(id, old) /\ old.born \in 1 .. Analysed
    BY <1>2, <2>1 DEF BotsInv
  <2>3. PICK seen, requests, bot, born :
          old = [lastSeen |-> seen, requests |-> requests, isBot |-> bot, born |-> born]
    BY <2>2 DEF IsSession
  <2>4. data = [lastSeen |-> c.at, requests |-> requests, isBot |-> bot, born |-> born]
    <3>1. data = [old EXCEPT !.lastSeen = c.at]
      BY <1>0, <1>2, <2>1
    <3>2. data \in [lastSeen : {seen, c.at}, requests : {requests}, isBot : {bot}, born : {born}]
      BY <2>3, <3>1
    <3>3. data.lastSeen = c.at
      BY <2>3, <3>1
    <3>. QED  BY <3>2, <3>3
  <2>5. IsSession(id, data)
    <3>1. PICK own : own = CallsIn(id, born)
      OBVIOUS
    <3>2. old.born = born /\ old.requests = requests /\ old.isBot = bot
          /\ data.born = born /\ data.requests = requests /\ data.isBot = bot /\ data.lastSeen = c.at
          /\ data = [lastSeen |-> data.lastSeen, requests |-> data.requests, isBot |-> data.isBot,
                     born |-> data.born]
      <4>1. old.born = born /\ old.requests = requests /\ old.isBot = bot
        BY <2>3
      <4>2. PICK at : at = c.at
        OBVIOUS
      <4>3. data = [lastSeen |-> at, requests |-> requests, isBot |-> bot, born |-> born]
        BY <2>4, <4>2
      <4>4. PICK d : d = data
        OBVIOUS
      <4>5. d = [lastSeen |-> at, requests |-> requests, isBot |-> bot, born |-> born]
        BY <4>3, <4>4, Zenon
      <4>6. d.born = born /\ d.requests = requests /\ d.isBot = bot /\ d.lastSeen = at
        BY <4>5, Zenon
      <4>. QED  BY <4>1, <4>2, <4>4, <4>5, <4>6, Zenon
    <3>3. /\ bot \in BOOLEAN /\ requests \in Seq(Fetched) /\ Len(requests) <= maxRequests
          /\ ~bot => HoldsLast(requests, own)
      BY <2>2, <3>1, <3>2 DEF IsSession
    <3>4. ~data.isBot => HoldsLast(data.requests, CallsIn(id, data.born))
      BY <3>1, <3>2, <3>3
    <3>. QED  BY <1>1, <3>2, <3>3, <3>4 DEF IsSession
  <2>. QED  BY <1>1, <1>2, <2>1, <2>2, <2>3, <2>4, <2>5
<1>3. CASE id \notin DOMAIN sessions.of
  <2>1. /\ data.lastSeen = c.at /\ data.requests = <<>> /\ data.isBot = FALSE /\ data.born = n
        /\ data = [lastSeen |-> data.lastSeen, requests |-> data.requests, isBot |-> data.isBot,
                   born |-> data.born]
    BY <1>0, <1>3
  <2>2. CallsIn(id, n) = {}
    <3>. SUFFICES ASSUME NEW m \in CallsIn(id, n) PROVE FALSE
      OBVIOUS
    <3>1. m \in DOMAIN log /\ log[m].in = n /\ m \in Nat
      BY <1>1, PageElements DEF CallsIn
    <3>2. IF m <= Analysed THEN log[m].in \in 1 .. m ELSE log[m].in = 0
      BY <1>1, <3>1 DEF InOne
    <3>. QED  BY <1>1, <3>1, <3>2
  <2>3. HoldsLast(<<>>, {})
    <3>1. Cardinality({}) = 0 /\ Len(<<>>) = 0
      BY FS_EmptySet
    <3>. QED  BY <3>1 DEF HoldsLast, Bots!Least, Bots!BotAssumption
  <2>4. data.requests \in Seq(Fetched) /\ Len(data.requests) <= maxRequests
    <3>1. <<>> \in Seq(Fetched) /\ Len(<<>>) = 0
      OBVIOUS
    <3>2. 0 <= maxRequests
      BY DEF Bots!BotAssumption
    <3>. QED  BY <2>1, <3>1, <3>2
  <2>5. HoldsLast(data.requests, CallsIn(id, data.born))
    <3>1. PICK own, born, requests : own = CallsIn(id, born) /\ born = data.born /\ requests = data.requests
      OBVIOUS
    <3>2. own = {} /\ requests = <<>>
      BY <2>1, <2>2, <3>1
    <3>3. HoldsLast(requests, own)
      BY <2>3, <3>2
    <3>. QED  BY <3>1, <3>3
  <2>6. IsSession(id, data)
    BY <1>1, <2>1, <2>4, <2>5 DEF IsSession
  <2>7. n \in 1 .. n
    BY <1>1
  <2>. QED  BY <1>3, <2>1, <2>6, <2>7
<1>. QED  BY <1>2, <1>3

\* The log after the n-th call is analysed.
LEMMA CallAnalyzed ==
  ASSUME BotTypes, NEW n \in DOMAIN log, NEW flags \in SUBSET BotKinds, NEW born \in Nat,
         log' = [log EXCEPT ![n].flags = @ \cup flags, ![n].in = born]
  PROVE  /\ DOMAIN log' = DOMAIN log /\ log' \in Seq(PageCall) /\ Len(log') = Len(log)
         /\ \A m \in DOMAIN log : m # n => log'[m] = log[m]
         /\ log'[n].q = log[n].q /\ log'[n].at = log[n].at /\ log'[n].known = log[n].known
         /\ log'[n].in = born /\ log'[n].flags = log[n].flags \cup flags
<1>1. /\ log \in Seq(PageCall) /\ DOMAIN log = 1 .. Len(log) /\ Len(log) \in Nat
      /\ \A m \in DOMAIN log : log[m] \in PageCall
  BY PageElements DEF BotTypes
<1>2. PICK e \in PageCall : e = log[n]
  BY <1>1
<1>3. PICK F \in SUBSET BotKinds : F = e.flags \cup flags
  BY <1>2 DEF PageCall
<1>4. PICK d : d = [e EXCEPT !.flags = F, !.in = born]
  OBVIOUS
<1>5. /\ DOMAIN log' = DOMAIN log
      /\ \A m \in DOMAIN log : m # n => log'[m] = log[m]
      /\ log'[n] = d
  BY <1>1, <1>2, <1>3, <1>4
<1>6. /\ d \in PageCall /\ d.q = e.q /\ d.at = e.at /\ d.known = e.known
      /\ d.in = born /\ d.flags = F
  BY <1>2, <1>3, <1>4 DEF PageCall
<1>7. log' \in Seq(PageCall) /\ Len(log') = Len(log)
  <2>1. \A m \in DOMAIN log : log'[m] \in PageCall
    BY <1>1, <1>5, <1>6
  <2>2. log' = [m \in DOMAIN log |-> log'[m]]
    OBVIOUS
  <2>5. PICK k \in Nat : k = Len(log) /\ DOMAIN log = 1 .. k
    BY <1>1
  <2>3. log' \in [1 .. k -> PageCall]
    BY <2>1, <2>2, <2>5
  <2>4. log' \in Seq(PageCall)
    <3>1. log' \in UNION {[1 .. i -> PageCall] : i \in Nat}
      BY <2>3
    <3>. QED  BY <3>1, SeqDef, Zenon
  <2>6. Len(log') \in Nat /\ DOMAIN log' = 1 .. Len(log')
    BY <2>4, LenProperties
  <2>7. Len(log') = k
    <3>1. 1 .. Len(log') = 1 .. k
      BY <1>5, <2>5, <2>6
    <3>. QED  BY <2>5, <2>6, <3>1
  <2>. QED  BY <2>4, <2>5, <2>7
<1>. QED  BY <1>2, <1>3, <1>5, <1>6, <1>7

LEMMA AnalyzeTaken ==
  ASSUME Bots!BotAssumption, BotsInv, NEW n \in DOMAIN log, Bots!Analyze(n)
  PROVE  /\ n = Analysed + 1 /\ n \in Nat /\ queue # <<>>
         /\ queue' \in Seq(Nat) /\ Len(queue') = Len(queue) - 1
         /\ DOMAIN queue' = 1 .. Len(queue')
         /\ \A i \in DOMAIN queue' : i + 1 \in DOMAIN queue /\ queue'[i] = queue[i + 1]
         /\ \A i \in DOMAIN queue : queue[i] = n \/ i - 1 \in DOMAIN queue'
<1>1. /\ BotTypes /\ queue \in Seq(Nat) /\ queue # <<>> /\ n = Head(queue) /\ queue' = Tail(queue)
  BY DEF BotsInv, BotTypes, Bots!Analyze
<1>2. DOMAIN queue = 1 .. Len(queue) /\ Len(queue) \in Nat /\ Analysed \in Nat
  BY <1>1, PageElements
<1>3. /\ Head(queue) = queue[1] /\ Tail(queue) \in Seq(Nat) /\ Len(Tail(queue)) = Len(queue) - 1
      /\ \A i \in 1 .. Len(Tail(queue)) : Tail(queue)[i] = queue[i + 1]
  BY <1>1, HeadTailProperties
<1>4. Len(queue) # 0
  BY <1>1, <1>2, EmptySeq
<1>5. 1 \in DOMAIN queue
  BY <1>2, <1>4
<1>6. queue[1] = Analysed + 1
  BY <1>1, <1>5 DEF BotTypes
<1>7. DOMAIN queue' = 1 .. Len(queue') /\ Len(queue') = Len(queue) - 1
  BY <1>1, <1>3, LenProperties
<1>8. /\ \A i \in DOMAIN queue' : i + 1 \in DOMAIN queue /\ queue'[i] = queue[i + 1]
      /\ \A i \in DOMAIN queue : i = 1 \/ i - 1 \in DOMAIN queue'
  BY <1>1, <1>2, <1>3, <1>4, <1>7
<1>9. \A i \in DOMAIN queue : queue[i] = n \/ i - 1 \in DOMAIN queue'
  BY <1>1, <1>3, <1>8
<1>. QED  BY <1>1, <1>2, <1>3, <1>6, <1>7, <1>8, <1>9, SMTT(30)

\* What the n-th call leaves of the sessions and the log.
Analyses(n, id, gone, data, after, flags) ==
  /\ id = log[n].q.id /\ gone = Bots!Evicted(id)
  /\ data = IF id \in DOMAIN sessions.of THEN [sessions.of[id] EXCEPT !.lastSeen = log[n].at]
            ELSE [lastSeen |-> log[n].at, requests |-> <<>>, isBot |-> FALSE, born |-> n]
  /\ after = IF data.isBot THEN data
             ELSE [data EXCEPT !.requests =
                     Append(Bots!Shifted(@), [at |-> log[n].at, path |-> log[n].q.path])]
  /\ flags \in SUBSET BotKinds /\ (data.isBot => "honeypot_flagged" \in flags)
  /\ sessions' = MapSet(MapDelete(sessions, gone), id, after)
  /\ locks' = locks \ gone
  /\ log' = [log EXCEPT ![n].flags = @ \cup flags, ![n].in = data.born]
  /\ now' = now

LEMMA Analyzed ==
  ASSUME NEW n, Bots!Analyze(n)
  PROVE  \E id, gone, data, after, flags : Analyses(n, id, gone, data, after, flags)
<1>1. PICK id, gone : id = log[n].q.id /\ gone = Bots!Evicted(id)
  OBVIOUS
<1>2. PICK data : data = IF Bots!MapHas(sessions, id) THEN [sessions.of[id] EXCEPT !.lastSeen = log[n].at]
                         ELSE [lastSeen |-> log[n].at, requests |-> <<>>, isBot |-> FALSE, born |-> n]
  OBVIOUS
<1>3. PICK after : after = IF data.isBot THEN data
                           ELSE [data EXCEPT !.requests =
                                   Append(Bots!Shifted(@), [at |-> log[n].at, path |-> log[n].q.path])]
  OBVIOUS
<1>4. PICK flags : flags = IF data.isBot THEN {"honeypot_flagged"}
                           ELSE Bots!PaceFlags(after.requests, log[n].at)
  OBVIOUS
<1>5. flags \in SUBSET BotKinds /\ (data.isBot => "honeypot_flagged" \in flags)
  <2>1. \A r, t : Bots!PaceFlags(r, t) \subseteq {"excessive_request_rate", "sequential_path_access"}
    BY DEF Bots!PaceFlags, Bots!Flag
  <2>. QED  BY <1>4, <2>1 DEF BotKinds
<1>6. /\ sessions' = Bots!MapSet(Bots!MapDelete(sessions, gone), id, after)
      /\ locks' = locks \ gone
      /\ log' = [log EXCEPT ![n].flags = @ \cup flags, ![n].in = data.born]
      /\ now' = now
  BY <1>1, <1>2, <1>3, <1>4, ZenonT(30) DEF Bots!Analyze
<1>7. data = IF id \in DOMAIN sessions.of THEN [sessions.of[id] EXCEPT !.lastSeen = log[n].at]
             ELSE [lastSeen |-> log[n].at, requests |-> <<>>, isBot |-> FALSE, born |-> n]
  BY <1>2, BotMaps DEF MapHas
<1>8. sessions' = MapSet(MapDelete(sessions, gone), id, after)
  BY <1>6, BotMaps, SMTT(30)
<1>9. Analyses(n, id, gone, data, after, flags)
  BY <1>1, <1>3, <1>5, <1>6, <1>7, <1>8 DEF Analyses
<1>. QED  BY <1>9

\* The session of the call, with the call.
LEMMA AnalyzedExact ==
  ASSUME Bots!BotAssumption, BotsInv, NEW n \in DOMAIN log, n = Analysed + 1, now' = now,
         NEW id, NEW gone, NEW data, NEW after, NEW flags, Analyses(n, id, gone, data, after, flags)
  PROVE  /\ data.born \in 1 .. n /\ data.isBot \in BOOLEAN
         /\ id \in DOMAIN sessions.of =>
              data.born = sessions.of[id].born /\ data.isBot = sessions.of[id].isBot
         /\ id \notin DOMAIN sessions.of => data.born = n
         /\ DOMAIN log' = DOMAIN log /\ log' \in Seq(PageCall) /\ Len(log') = Len(log)
         /\ \A m \in DOMAIN log : m # n => log'[m] = log[m]
         /\ log'[n].q = log[n].q /\ log'[n].at = log[n].at /\ log'[n].known = log[n].known
         /\ log'[n].in = data.born /\ log'[n].flags = log[n].flags \cup flags
         /\ after.born = data.born /\ after.isBot = data.isBot
         /\ IsSession(id, after)'
<1>1. /\ BotTypes /\ InOne /\ DOMAIN log \subseteq Nat /\ Analysed \in Nat /\ now \in Nat
      /\ log[n] \in PageCall
  <2>1. BotTypes /\ InOne /\ now \in Nat
    BY DEF BotsInv, BotTypes, Bots!BotAssumption
  <2>. QED  BY <2>1, PageElements
<1>2. PICK c : c = log[n]
  OBVIOUS
<1>3. /\ IsSession(id, data) /\ data.born \in 1 .. n
      /\ id \in DOMAIN sessions.of =>
           data.born = sessions.of[id].born /\ data.isBot = sessions.of[id].isBot
      /\ id \notin DOMAIN sessions.of => data.born = n
  <2>1. Met(n, c, id, data)
    BY <1>2 DEF Analyses, Met
  <2>. QED  BY <2>1, SessionAnalyzed, SMTT(30)
<1>4. PICK seen, requests, bot, born :
        data = [lastSeen |-> seen, requests |-> requests, isBot |-> bot, born |-> born]
  BY <1>3 DEF IsSession
<1>5. data.lastSeen = seen /\ data.requests = requests /\ data.isBot = bot /\ data.born = born
  BY <1>4
<1>6. PICK own : own = CallsIn(id, born)
  OBVIOUS
<1>7. /\ seen \in 0 .. now /\ bot \in BOOLEAN /\ requests \in Seq(Fetched)
      /\ Len(requests) <= maxRequests /\ (~bot => HoldsLast(requests, own))
  BY <1>3, <1>5, <1>6 DEF IsSession
<1>8. born \in Nat /\ born # 0 /\ born <= n
  BY <1>1, <1>3, <1>5
<1>9. /\ DOMAIN log' = DOMAIN log /\ log' \in Seq(PageCall) /\ Len(log') = Len(log)
      /\ \A m \in DOMAIN log : m # n => log'[m] = log[m]
      /\ log'[n].q = log[n].q /\ log'[n].at = log[n].at /\ log'[n].known = log[n].known
      /\ log'[n].in = born /\ log'[n].flags = log[n].flags \cup flags
  <2>1. flags \in SUBSET BotKinds /\ log' = [log EXCEPT ![n].flags = @ \cup flags, ![n].in = born]
    BY <1>5 DEF Analyses
  <2>. QED  BY <1>1, <1>8, <2>1, CallAnalyzed, ZenonT(30)
<1>10. /\ own \in SUBSET DOMAIN log /\ CallsIn(id, born)' = own \cup {n}
       /\ \A m \in own : m < n
  <2>1. id = log[n].q.id
    BY DEF Analyses
  <2>2. \A m \in DOMAIN log : IF m <= Analysed THEN log[m].in \in 1 .. m ELSE log[m].in = 0
    BY <1>1 DEF InOne
  <2>3. own = {m \in DOMAIN log : log[m].q.id = id /\ log[m].in = born}
    BY <1>6 DEF CallsIn
  <2>4. CallsIn(id, born)' = {m \in DOMAIN log' : log'[m].q.id = id /\ log'[m].in = born}
    BY DEF CallsIn
  <2>5. ASSUME NEW m \in own PROVE m < n
    <3>1. m \in DOMAIN log /\ log[m].in # 0 /\ m \in Nat
      BY <1>1, <1>8, <2>3
    <3>2. m <= Analysed
      BY <2>2, <3>1
    <3>. QED  BY <1>1, <3>1, <3>2
  <2>6. n \in CallsIn(id, born)'
    BY <1>9, <2>1, <2>4
  <2>7. ASSUME NEW m \in DOMAIN log, m # n PROVE m \in CallsIn(id, born)' <=> m \in own
    BY <1>9, <2>3, <2>4, <2>7
  <2>8. own \subseteq DOMAIN log /\ CallsIn(id, born)' \subseteq DOMAIN log
    BY <1>9, <2>3, <2>4
  <2>. QED  BY <2>5, <2>6, <2>7, <2>8, SMTT(30)
<1>11. CASE bot
  <2>1. after = data
    BY <1>5, <1>11 DEF Analyses
  <2>2. IsSession(id, data)'
    <3>1. data = [lastSeen |-> data.lastSeen, requests |-> data.requests, isBot |-> data.isBot,
                  born |-> data.born]
      BY <1>3 DEF IsSession
    <3>. QED  BY <1>5, <1>7, <1>11, <3>1 DEF IsSession
  <2>. QED  BY <1>3, <1>5, <1>7, <1>9, <2>1, <2>2, SMTT(30)
<1>12. CASE ~bot
  <2>1. PICK r : r = [at |-> log[n].at, path |-> log[n].q.path]
    OBVIOUS
  <2>2. r \in Fetched
    BY <1>1, <2>1 DEF PageCall, Fetched
  <2>3. PICK R : R = Append(Bots!Shifted(requests), r)
    OBVIOUS
  <2>4. R \in Seq(Fetched) /\ Len(R) <= maxRequests /\ HoldsLast(R, own \cup {n})'
    <3>1. maxRequests \in Nat /\ maxRequests # 0
      BY DEF Bots!BotAssumption
    <3>2. HoldsLast(requests, own)
      BY <1>7, <1>12
    <3>3. \A m \in DOMAIN log : log'[m].at = log[m].at /\ log'[m].q = log[m].q
      BY <1>9
    <3>. QED  BY <1>1, <1>7, <1>10, <2>1, <2>2, <2>3, <3>1, <3>2, <3>3, HeldWithOneMore
  <2>5. PICK d : d = after
    OBVIOUS
  <2>6. d = [lastSeen |-> seen, requests |-> R, isBot |-> bot, born |-> born]
    <3>1. d = [data EXCEPT !.requests = R]
      <4>1. after = [data EXCEPT !.requests =
                       Append(Bots!Shifted(@), [at |-> log[n].at, path |-> log[n].q.path])]
        BY <1>5, <1>12 DEF Analyses
      <4>. QED  BY <1>5, <2>1, <2>3, <2>5, <4>1, SMTT(30)
    <3>2. d \in [lastSeen : {seen}, requests : {requests, R}, isBot : {bot}, born : {born}]
      BY <1>4, <3>1
    <3>3. d.requests = R
      BY <1>4, <3>1
    <3>. QED  BY <3>2, <3>3
  <2>7. /\ d.lastSeen = seen /\ d.requests = R /\ d.isBot = bot /\ d.born = born
        /\ d = [lastSeen |-> d.lastSeen, requests |-> d.requests, isBot |-> d.isBot, born |-> d.born]
    BY <2>6
  <2>8. HoldsLast(d.requests, CallsIn(id, d.born))'
    <3>1. PICK S : S = own \cup {n}
      OBVIOUS
    <3>2. HoldsLast(R, S)'
      BY <2>4, <3>1
    <3>3. S = CallsIn(id, born)'
      BY <1>10, <3>1
    <3>4. HoldsLast(R, CallsIn(id, born))'
      BY <3>2, <3>3 DEF HoldsLast
    <3>. QED  BY <2>7, <3>4
  <2>9. IsSession(id, d)'
    BY <1>7, <2>4, <2>7, <2>8 DEF IsSession
  <2>. QED  BY <1>3, <1>5, <1>7, <1>9, <2>5, <2>7, <2>9
<1>. QED  BY <1>7, <1>11, <1>12

LEMMA CallKeeps ==
  ASSUME Bots!BotAssumption, BotsInv, NEW n \in DOMAIN log, Bots!Analyze(n)
  PROVE  BotsInv'
<1>1. /\ BotTypes /\ InOne /\ Marked /\ Locked /\ now \in Nat /\ maxSessions \in Nat
      /\ DOMAIN log = 1 .. Len(log) /\ Len(log) \in Nat /\ Analysed \in Nat /\ Len(queue) \in Nat
  <2>1. BotTypes /\ InOne /\ Marked /\ Locked /\ now \in Nat /\ maxSessions \in Nat
    BY DEF BotsInv, BotTypes, Bots!BotAssumption
  <2>. QED  BY <2>1, PageElements
<1>2. /\ n = Analysed + 1 /\ n \in Nat
      /\ queue' \in Seq(Nat) /\ Len(queue') = Len(queue) - 1
      /\ DOMAIN queue' = 1 .. Len(queue')
      /\ \A i \in DOMAIN queue' : i + 1 \in DOMAIN queue /\ queue'[i] = queue[i + 1]
      /\ \A i \in DOMAIN queue : queue[i] = n \/ i - 1 \in DOMAIN queue'
  BY AnalyzeTaken
<1>3. PICK id, gone, data, after, flags : Analyses(n, id, gone, data, after, flags)
  BY Analyzed, SMTT(30)
<1>4. /\ id = log[n].q.id /\ gone = Bots!Evicted(id) /\ (data.isBot => "honeypot_flagged" \in flags)
      /\ sessions' = MapSet(MapDelete(sessions, gone), id, after)
      /\ locks' = locks \ gone /\ now' = now
  BY <1>3 DEF Analyses
<1>5. /\ data.born \in 1 .. n /\ data.isBot \in BOOLEAN
      /\ id \in DOMAIN sessions.of =>
           data.born = sessions.of[id].born /\ data.isBot = sessions.of[id].isBot
      /\ id \notin DOMAIN sessions.of => data.born = n
      /\ after.born = data.born /\ after.isBot = data.isBot
      /\ IsSession(id, after)'
  BY <1>2, <1>3, <1>4, AnalyzedExact
<1>6. /\ DOMAIN log' = DOMAIN log /\ log' \in Seq(PageCall) /\ Len(log') = Len(log)
      /\ \A m \in DOMAIN log : m # n => log'[m] = log[m]
      /\ log'[n].q = log[n].q /\ log'[n].at = log[n].at /\ log'[n].known = log[n].known
      /\ log'[n].in = data.born /\ log'[n].flags = log[n].flags \cup flags
  BY <1>2, <1>3, <1>4, AnalyzedExact
<1>7. \A m \in DOMAIN log : /\ log'[m].q = log[m].q /\ log'[m].at = log[m].at
                            /\ log'[m].known = log[m].known
  BY <1>6
<1>8. Analysed' = n
  BY <1>1, <1>2, <1>6 DEF Analysed
<1>9. PICK room : room = MapDelete(sessions, gone)
  OBVIOUS
<1>10. /\ Within(room, maxSessions) /\ (MapHas(room, id) \/ MapSize(room) < maxSessions)
       /\ DOMAIN room.of = DOMAIN sessions.of \ gone
       /\ \A i \in DOMAIN room.of : room.of[i] = sessions.of[i]
  <2>1. Within(sessions, maxSessions)
    BY <1>1 DEF BotTypes
  <2>. QED  BY <1>4, <1>9, <2>1, RoomForSession
<1>11. /\ DOMAIN sessions'.of = (DOMAIN sessions.of \ gone) \cup {id} /\ sessions'.of[id] = after
       /\ \A i \in DOMAIN sessions'.of : i # id =>
            i \in DOMAIN sessions.of /\ sessions'.of[i] = sessions.of[i]
       /\ sessions' = [of |-> sessions'.of, keys |-> sessions'.keys]
       /\ Within(sessions', maxSessions)
  <2>1. sessions' = MapSet(room, id, after)
    BY <1>4, <1>9
  <2>2. /\ DOMAIN sessions'.of = DOMAIN room.of \cup {id} /\ sessions'.of[id] = after
        /\ \A i \in DOMAIN room.of : i # id => sessions'.of[i] = room.of[i]
    BY <2>1, SetValue
  <2>3. sessions' = [of |-> sessions'.of, keys |-> sessions'.keys]
    BY <2>1 DEF MapSet
  <2>4. Within(sessions', maxSessions)
    BY <1>1, <1>10, <2>1, SetWithin
  <2>. QED  BY <1>10, <2>2, <2>3, <2>4
<1>12. ASSUME NEW i \in DOMAIN sessions'.of
       PROVE  sessions'.of[i].born \in 1 .. Analysed' /\ IsSession(i, sessions.of[i])'
  <2>1. CASE i = id
    BY <1>5, <1>8, <1>11, <2>1
  <2>2. CASE i # id
    <3>1. PICK d : d = sessions.of[i]
      OBVIOUS
    <3>2. /\ i \in DOMAIN sessions.of /\ d = sessions'.of[i]
          /\ d.born \in 1 .. Analysed /\ IsSession(i, d)
      BY <1>11, <2>2, <3>1 DEF BotsInv
    <3>3. CallsIn(i, d.born)' = CallsIn(i, d.born)
      BY <1>4, <1>6, <1>7, <2>2 DEF CallsIn
    <3>4. IsSession(i, d)'
      <4>1. now <= now' /\ now' \in Nat
        BY <1>1, <1>4
      <4>. QED  BY <1>1, <1>7, <3>2, <3>3, <4>1, SessionStays
    <3>5. d.born \in 1 .. n
      BY <1>1, <1>2, <3>2
    <3>. QED  BY <1>8, <3>2, <3>4, <3>5
  <2>. QED  BY <2>1, <2>2
<1>13. BotTypes'
  <2>1. \A i \in DOMAIN queue' : queue'[i] = Analysed' + i
    <3>. SUFFICES ASSUME NEW i \in DOMAIN queue' PROVE queue'[i] = Analysed' + i
      OBVIOUS
    <3>1. i + 1 \in DOMAIN queue /\ queue'[i] = queue[i + 1] /\ i \in Nat
      BY <1>2
    <3>2. queue[i + 1] = Analysed + (i + 1)
      BY <1>1, <3>1 DEF BotTypes
    <3>. QED  BY <1>1, <1>2, <1>8, <3>1, <3>2
  <2>2. \A m \in DOMAIN log' : log'[m].at <= now'
    BY <1>1, <1>4, <1>6, <1>7 DEF BotTypes
  <2>3. Len(queue') <= Len(log') /\ now' \in 0 .. MaxTime
    BY <1>1, <1>2, <1>4, <1>6 DEF BotTypes
  <2>. QED  BY <1>2, <1>6, <1>11, <2>1, <2>2, <2>3 DEF BotTypes
<1>14. InOne'
  <2>. SUFFICES ASSUME NEW m \in DOMAIN log
                PROVE  /\ log'[m].known <= n
                       /\ IF m <= n THEN log'[m].in \in 1 .. m ELSE log'[m].in = 0
    BY <1>6, <1>8 DEF InOne
  <2>1. /\ log[m].known <= Analysed /\ log[m].known \in Nat /\ m \in Nat
        /\ IF m <= Analysed THEN log[m].in \in 1 .. m ELSE log[m].in = 0
    BY <1>1, PageElements DEF InOne, PageCall
  <2>2. log'[m].known <= n
    BY <1>1, <1>2, <1>7, <2>1
  <2>3. CASE m = n
    BY <1>2, <1>5, <1>6, <2>2, <2>3
  <2>4. CASE m # n
    <3>1. log'[m] = log[m] /\ (m <= n <=> m <= Analysed)
      BY <1>1, <1>2, <1>6, <2>1, <2>4
    <3>. QED  BY <2>1, <2>2, <3>1
  <2>. QED  BY <2>3, <2>4
<1>15. Locked'
  <2>. SUFFICES ASSUME NEW i \in locks, i \notin gone
                PROVE  i \in DOMAIN sessions'.of \/ \E k \in DOMAIN queue' : log'[queue'[k]].q.id = i
    BY <1>4 DEF Locked
  <2>1. CASE i \in DOMAIN sessions.of
    BY <1>11, <2>1
  <2>2. CASE \E k \in DOMAIN queue : log[queue[k]].q.id = i
    <3>1. PICK k \in DOMAIN queue : log[queue[k]].q.id = i
      BY <2>2
    <3>2. CASE queue[k] = n
      BY <1>4, <1>11, <3>1, <3>2
    <3>3. CASE queue[k] # n
      <4>1. PICK j \in DOMAIN queue' : j = k - 1
        BY <1>2, <3>3
      <4>2. DOMAIN queue = 1 .. Len(queue)
        BY <1>1, PageElements
      <4>3. j + 1 = k
        BY <1>1, <3>1, <4>1, <4>2
      <4>4. queue'[j] = queue[k]
        BY <1>2, <4>3
      <4>5. queue[k] \in DOMAIN log
        BY <1>1, <4>2 DEF BotTypes, Analysed
      <4>. QED  BY <1>7, <3>1, <4>4, <4>5
    <3>. QED  BY <3>2, <3>3
  <2>. QED  BY <1>1, <2>1, <2>2 DEF Locked
<1>16. Marked'
  <2>. SUFFICES ASSUME NEW m \in DOMAIN log, log[m].q.trap, log[m].known # 0
                PROVE  /\ \A i \in DOMAIN sessions'.of :
                            i = log[m].q.id /\ sessions'.of[i].born = log[m].known => sessions'.of[i].isBot
                       /\ \A k \in DOMAIN log :
                            m <= k /\ log[k].q.id = log[m].q.id /\ log'[k].in = log[m].known
                              => "honeypot_flagged" \in log'[k].flags
    BY <1>6, <1>7 DEF Marked
  <2>1. /\ \A i \in DOMAIN sessions.of :
             i = log[m].q.id /\ sessions.of[i].born = log[m].known => sessions.of[i].isBot
        /\ \A k \in DOMAIN log :
             m <= k /\ log[k].q.id = log[m].q.id /\ log[k].in = log[m].known
               => "honeypot_flagged" \in log[k].flags
    BY <1>1 DEF Marked
  <2>2. log[m].known # n
    <3>1. log[m].known <= Analysed /\ log[m].known \in Nat
      BY <1>1, PageElements DEF InOne, PageCall
    <3>. QED  BY <1>1, <1>2, <3>1
  <2>3. id = log[m].q.id /\ data.born = log[m].known => data.isBot
    BY <1>5, <2>1, <2>2
  <2>4. \A i \in DOMAIN sessions'.of :
          i = log[m].q.id /\ sessions'.of[i].born = log[m].known => sessions'.of[i].isBot
    <3>. SUFFICES ASSUME NEW i \in DOMAIN sessions'.of, i = log[m].q.id, sessions'.of[i].born = log[m].known
                  PROVE  sessions'.of[i].isBot
      OBVIOUS
    <3>1. CASE i = id
      BY <1>5, <1>11, <2>3, <3>1
    <3>2. CASE i # id
      BY <1>11, <2>1, <3>2
    <3>. QED  BY <3>1, <3>2
  <2>5. \A k \in DOMAIN log :
          m <= k /\ log[k].q.id = log[m].q.id /\ log'[k].in = log[m].known
            => "honeypot_flagged" \in log'[k].flags
    <3>. SUFFICES ASSUME NEW k \in DOMAIN log, m <= k, log[k].q.id = log[m].q.id, log'[k].in = log[m].known
                  PROVE  "honeypot_flagged" \in log'[k].flags
      OBVIOUS
    <3>1. CASE k = n
      BY <1>4, <1>6, <2>3, <3>1
    <3>2. CASE k # n
      BY <1>6, <2>1, <3>2
    <3>. QED  BY <3>1, <3>2
  <2>. QED  BY <2>4, <2>5
<1>. QED  BY <1>12, <1>13, <1>14, <1>15, <1>16 DEF BotsInv

\* Sessions that are dropped while no call waits leave the others as they were; so does
\* time.
LEMMA BotsOthersKeep ==
  ASSUME Bots!BotAssumption, BotsInv, log' = log, queue' = queue, now' \in 0 .. MaxTime, now <= now',
         Within(sessions', maxSessions), sessions' = [of |-> sessions'.of, keys |-> sessions'.keys],
         \A i \in DOMAIN sessions'.of : i \in DOMAIN sessions.of /\ sessions'.of[i] = sessions.of[i],
         \A i \in locks' : i \in locks /\
           (i \in DOMAIN sessions.of => i \in DOMAIN sessions'.of)
  PROVE  BotsInv'
<1>1. /\ BotTypes /\ InOne /\ Marked /\ Locked /\ now \in Nat /\ now' \in Nat
      /\ \A n \in DOMAIN log : log[n].at \in Nat /\ log[n].at <= now
  <2>1. BotTypes /\ InOne /\ Marked /\ Locked /\ now \in Nat /\ now' \in Nat
    BY DEF BotsInv, BotTypes, Bots!BotAssumption
  <2>. QED  BY <2>1, PageElements DEF BotTypes, PageCall
<1>2. Analysed' = Analysed
  BY DEF Analysed
<1>3. BotTypes'
  <2>1. \A n \in DOMAIN log : log[n].at <= now'
    BY <1>1
  <2>. QED  BY <1>1, <1>2, <2>1 DEF BotTypes
<1>4. InOne'
  BY <1>1, <1>2 DEF InOne
<1>5. Marked'
  BY <1>1 DEF Marked
<1>6. Locked'
  BY <1>1 DEF Locked
<1>7. ASSUME NEW i \in DOMAIN sessions'.of
      PROVE  sessions'.of[i].born \in 1 .. Analysed' /\ IsSession(i, sessions.of[i])'
  <2>1. PICK d : d = sessions.of[i]
    OBVIOUS
  <2>2. d = sessions'.of[i] /\ d.born \in 1 .. Analysed /\ IsSession(i, d)
    BY <2>1 DEF BotsInv
  <2>3. CallsIn(i, d.born)' = CallsIn(i, d.born)
    BY DEF CallsIn
  <2>4. IsSession(i, d)'
    BY <1>1, <2>2, <2>3, SessionStays
  <2>. QED  BY <1>2, <2>2, <2>4
<1>. QED  BY <1>3, <1>4, <1>5, <1>6, <1>7 DEF BotsInv

LEMMA BotsStep == Bots!BotAssumption /\ BotsInv /\ [Bots!Next]_(Bots!vars) => BotsInv'
<1> SUFFICES ASSUME Bots!BotAssumption, BotsInv, [Bots!Next]_(Bots!vars) PROVE BotsInv'
  OBVIOUS
<1>1. /\ now \in 0 .. MaxTime /\ MaxTime \in Nat /\ Within(sessions, maxSessions) /\ maxSessions \in Nat
      /\ sessions = [of |-> sessions.of, keys |-> sessions.keys]
  BY DEF BotsInv, BotTypes, Bots!BotAssumption
<1>2. ASSUME NEW q \in Pages, Bots!Start(q) PROVE BotsInv'
  BY <1>2, StartKeeps
<1>3. ASSUME NEW n \in DOMAIN log, Bots!Analyze(n) PROVE BotsInv'
  BY <1>3, CallKeeps
<1>4. CASE Bots!Collect
  <2>1. PICK S : /\ sessions' = MapDelete(sessions, S) /\ locks' = locks \ S
                 /\ now' = now /\ log' = log /\ queue' = queue
    BY <1>4, BotMaps DEF Bots!Collect
  <2>2. /\ Within(sessions', maxSessions) /\ DOMAIN sessions'.of = DOMAIN sessions.of \ S
        /\ \A i \in DOMAIN sessions'.of : sessions'.of[i] = sessions.of[i]
        /\ sessions' = [of |-> sessions'.of, keys |-> sessions'.keys]
    <3>1. PICK left : left = MapDelete(sessions, S)
      OBVIOUS
    <3>2. /\ Within(left, maxSessions) /\ DOMAIN left.of = DOMAIN sessions.of \ S
          /\ \A i \in DOMAIN sessions.of \ S : left.of[i] = sessions.of[i]
      BY <1>1, <3>1, DeleteWithin, DeletedKeys
    <3>3. left = [of |-> left.of, keys |-> left.keys]
      BY <3>1 DEF MapDelete
    <3>4. sessions' = left
      BY <2>1, <3>1
    <3>. QED  BY <3>2, <3>3, <3>4
  <2>3. now <= now'
    BY <1>1, <2>1
  <2>. QED  BY <1>1, <2>1, <2>2, <2>3, BotsOthersKeep
<1>5. CASE Bots!Tick
  BY <1>1, <1>5, BotsOthersKeep DEF Bots!Tick
<1>6. CASE UNCHANGED Bots!vars
  BY <1>1, <1>6, BotsOthersKeep DEF Bots!vars
<1>. QED  BY <1>2, <1>3, <1>4, <1>5, <1>6 DEF Bots!Next

-----------------------------------------------------------------------------
(* Smart anomaly.                                                          *)

LEMMA SmartMaps ==
  /\ \A f, k, v : Smart!Put(f, k, v) = Put(f, k, v)
  /\ \A f, S : Smart!Drop(f, S) = Drop(f, S)
  /\ \A S : Smart!Cardinality(S) = Cardinality(S)
  /\ Smart!Empty = Empty
<1>1. \A S : Smart!Cardinality(S) = Cardinality(S)
  BY DEF Smart!Cardinality, Cardinality
<1>2. \A f, k, v : Smart!Put(f, k, v) = Put(f, k, v)
  BY DEF Smart!Put, Put
<1>3. \A f, S : Smart!Drop(f, S) = Drop(f, S)
  BY DEF Smart!Drop, Drop
<1>4. Smart!Empty = Empty
  BY DEF Smart!Empty, Empty
<1>. QED  BY <1>1, <1>2, <1>3, <1>4

SmartLimits ==
  /\ {minSamples, MAX_HISTORY, MaxLoads, unit} \subseteq Nat \ {0} /\ unit % 10 = 0
  /\ {HISTORY_WINDOW, MaxFeedback, MaxTime} \subseteq Nat

\* How many calls an address made after the n-th; what a call leaves in a history.
After(L, ip, n) == Cardinality(Later(L, ip, n))
Scored(L, n)    == [at |-> L[n].at, score |-> L[n].score]
AllScored(L)    == {Scored(L, n) : n \in DOMAIN L}

\* A list holds the last calls of its address.
HoldsScores(list, ip, L) ==
  /\ list \in Seq(AllScored(L))
  /\ \A i \in DOMAIN list : \E n \in SentBy(L, ip) : After(L, ip, n) = Len(list) - i
  /\ \A n \in SentBy(L, ip) :
       After(L, ip, n) < Len(list) => list[Len(list) - After(L, ip, n)] = Scored(L, n)

\* What is missing is out of the window at t, or too many calls ago.
MissesScores(list, ip, L, t) ==
  \A n \in SentBy(L, ip) :
    After(L, ip, n) >= Len(list) =>
      After(L, ip, n) >= MAX_HISTORY \/ t - L[n].at > HISTORY_WINDOW

\* The history of an address: what it holds was within the window of its last call.
IsScores(list, ip, L) ==
  /\ HoldsScores(list, ip, L) /\ Len(list) \in 1 .. MAX_HISTORY
  /\ \A n \in SentBy(L, ip) :
       IF After(L, ip, n) < Len(list)
       THEN \A m \in SentBy(L, ip) : L[m].at - L[n].at <= HISTORY_WINDOW
       ELSE \/ After(L, ip, n) >= MAX_HISTORY
            \/ \E m \in SentBy(L, ip) : L[m].at - L[n].at > HISTORY_WINDOW

Severities == {"info", "low", "medium", "high", "critical"}

\* A shift was reported against the two calls just before.
ShiftTrue(L, n) ==
  \E k \in 1 .. n - 1, j \in 1 .. n - 1 :
    /\ k < j /\ {L[k].ip, L[j].ip} = {L[n].ip}
    /\ L[j].at - L[k].at <= HISTORY_WINDOW
    /\ \A m \in k + 1 .. n - 1 : L[m].ip = L[n].ip => m = j

ShiftsTrue(L) == \A n \in DOMAIN L : "behavioral_shift" \in L[n].signals => ShiftTrue(L, n)

FeedbackTyped(store) ==
  store \in [DOMAIN store -> [tp : 0 .. MaxFeedback, fp : 0 .. MaxFeedback]]

SmartInv ==
  /\ now \in 0 .. MaxTime /\ loads \in 1 .. MaxLoads /\ FeedbackTyped(feedbackStore)
  /\ IsLog(log, now)
  /\ \A n \in DOMAIN log : log[n].severity \in Severities
  /\ \A ip \in DOMAIN history : IsScores(history[ip], ip, log)
  /\ \A n \in DOMAIN log : log[n].ip \notin DOMAIN history => now - log[n].at > HISTORY_WINDOW
  /\ ShiftsTrue(log)

LEMMA SmartLimited == Smart!SmartAssumption => SmartLimits
BY DEF Smart!SmartAssumption, SmartLimits

\* The fewer calls come after one, the later it is.
LEMMA FewerAfter ==
  ASSUME NEW L, NEW t, IsLog(L, t), NEW ip, NEW m \in SentBy(L, ip), NEW n \in SentBy(L, ip), m < n
  PROVE  /\ After(L, ip, n) < After(L, ip, m)
         /\ After(L, ip, m) \in Nat /\ After(L, ip, n) \in Nat
<1>1. SentBy(L, ip) \subseteq Nat
  BY LogElements DEF SentBy
<1>2. Later(L, ip, n) \cup {n} \in SUBSET Later(L, ip, m) /\ n \notin Later(L, ip, n)
  BY <1>1 DEF Later
<1>3. /\ IsFiniteSet(Later(L, ip, n)) /\ Cardinality(Later(L, ip, n)) \in Nat
      /\ IsFiniteSet(Later(L, ip, m)) /\ Cardinality(Later(L, ip, m)) \in Nat
  BY LaterFinite
<1>4. Cardinality(Later(L, ip, n) \cup {n}) = Cardinality(Later(L, ip, n)) + 1
  BY <1>2, <1>3, FS_AddElement
<1>5. Cardinality(Later(L, ip, n) \cup {n}) <= Cardinality(Later(L, ip, m))
  BY <1>2, <1>3, FS_Subset
<1>. QED  BY <1>3, <1>4, <1>5 DEF After

\* At t an address makes one call more, which L2 has last.
NextCall(L, t, e, L2, ip) ==
  IsLog(L, t) /\ IsLog(L2, t) /\ Logged(L, e, L2) /\ e.ip = ip /\ e.at = t

\* It comes after each of the others of the address, and none after it.
OneMore(L, L2, ip, l) ==
  /\ SentBy(L2, ip) = SentBy(L, ip) \cup {l} /\ l \notin SentBy(L, ip)
  /\ After(L2, ip, l) = 0
  /\ \A n \in SentBy(L, ip) : /\ After(L2, ip, n) = After(L, ip, n) + 1
                              /\ After(L, ip, n) \in Nat

LEMMA OneMoreAfter ==
  ASSUME NEW L, NEW t, NEW e, NEW L2, NEW ip, NextCall(L, t, e, L2, ip)
  PROVE  OneMore(L, L2, ip, Len(L2))
<1>0. PICK l : l = Len(L2)
  OBVIOUS
<1>1. /\ SentBy(L2, ip) = SentBy(L, ip) \cup {l} /\ l \notin SentBy(L, ip)
      /\ \A n \in SentBy(L, ip) : n < l
      /\ SentBy(L2, ip) \subseteq Nat
  BY <1>0, LogElements DEF NextCall, SentBy, Logged
<1>2. After(L2, ip, l) = 0
  <2>1. Later(L2, ip, l) = {}
    BY <1>1 DEF Later
  <2>. QED  BY <2>1, FS_EmptySet DEF After
<1>3. ASSUME NEW n \in SentBy(L, ip)
      PROVE  After(L2, ip, n) = After(L, ip, n) + 1 /\ After(L, ip, n) \in Nat
  <2>1. Later(L2, ip, n) = Later(L, ip, n) \cup {l} /\ l \notin Later(L, ip, n)
    BY <1>1, <1>3 DEF Later
  <2>2. IsFiniteSet(Later(L, ip, n)) /\ Cardinality(Later(L, ip, n)) \in Nat
    BY LaterFinite DEF NextCall
  <2>. QED  BY <2>1, <2>2, FS_AddElement DEF After
<1>. QED  BY <1>0, <1>1, <1>2, <1>3 DEF OneMore

\* The call of an address added to what it holds.
WithScore(old, new, score, t) == new = Append(old, [at |-> t, score |-> score])

LEMMA ScoreAdded ==
  ASSUME SmartLimits, NEW L, NEW t, NEW e, NEW L2, NEW ip, NextCall(L, t, e, L2, ip),
         NEW old, HoldsScores(old, ip, L), MissesScores(old, ip, L, t),
         NEW new, WithScore(old, new, e.score, t)
  PROVE  /\ HoldsScores(new, ip, L2) /\ Len(new) \in Nat /\ DOMAIN new = 1 .. Len(new)
         /\ Len(new) > 0 /\ new[Len(new)].at = t
         /\ MissesScores(new, ip, L2, t)
<1> DEFINE r == [at |-> t, score |-> e.score]
<1>0. PICK l : l = Len(L2) /\ l = Len(L) + 1
  BY DEF NextCall, Logged
<1>1. /\ SentBy(L2, ip) = SentBy(L, ip) \cup {l} /\ l \notin SentBy(L, ip)
      /\ After(L2, ip, l) = 0
      /\ \A n \in SentBy(L, ip) : /\ After(L2, ip, n) = After(L, ip, n) + 1
                                  /\ After(L, ip, n) \in Nat
  <2>1. OneMore(L, L2, ip, l)
    BY <1>0, OneMoreAfter
  <2>. QED  BY <2>1 DEF OneMore
<1>2. /\ \A n \in DOMAIN L : L2[n] = L[n] /\ n \in DOMAIN L2 /\ Scored(L2, n) = Scored(L, n)
      /\ L2[l] = e /\ l \in DOMAIN L2 /\ Scored(L2, l) = r /\ DOMAIN L2 = DOMAIN L \cup {l}
  BY <1>0 DEF NextCall, Logged, Scored
<1>. HIDE DEF r
<1>3. AllScored(L) \subseteq AllScored(L2) /\ r \in AllScored(L2)
  BY <1>2 DEF AllScored
<1>4. old \in Seq(AllScored(L2)) /\ old \in Seq(AllScored(L))
  BY <1>3, SeqMonotonic DEF HoldsScores
<1>5. /\ new \in Seq(AllScored(L2)) /\ Len(new) = Len(old) + 1
      /\ \A i \in 1 .. Len(old) : new[i] = old[i]
      /\ new[Len(new)] = r
      /\ Len(old) \in Nat /\ DOMAIN old = 1 .. Len(old)
  <2>1. new = Append(old, r)
    BY DEF r, WithScore
  <2>. QED  BY <1>3, <1>4, <2>1, AppendProperties, LenProperties
<1>6. Len(new) \in Nat /\ DOMAIN new = 1 .. Len(new) /\ Len(new) > 0 /\ new[Len(new)].at = t
  <2>1. DOMAIN new = 1 .. Len(new)
    BY <1>5, LenProperties
  <2>. QED  BY <1>5, <2>1 DEF r
<1>7. ASSUME NEW i \in DOMAIN new
      PROVE  \E n \in SentBy(L2, ip) : After(L2, ip, n) = Len(new) - i
  <2>1. CASE i = Len(new)
    BY <1>1, <1>6, <2>1
  <2>2. CASE i # Len(new)
    <3>1. i \in DOMAIN old /\ Len(old) - i + 1 = Len(new) - i
      BY <1>5, <1>6, <2>2
    <3>2. PICK n \in SentBy(L, ip) : After(L, ip, n) = Len(old) - i
      BY <3>1 DEF HoldsScores
    <3>. QED  BY <1>1, <3>1, <3>2
  <2>. QED  BY <2>1, <2>2
<1>8. ASSUME NEW n \in SentBy(L2, ip), After(L2, ip, n) < Len(new)
      PROVE  new[Len(new) - After(L2, ip, n)] = Scored(L2, n)
  <2>1. CASE n = l
    BY <1>1, <1>2, <1>5, <1>6, <2>1
  <2>2. CASE n \in SentBy(L, ip)
    <3>1. PICK k \in Nat : k = After(L, ip, n) /\ After(L2, ip, n) = k + 1
      BY <1>1, <2>2
    <3>2. k < Len(old) /\ Len(new) - (k + 1) = Len(old) - k /\ Len(old) - k \in 1 .. Len(old)
      BY <1>5, <1>8, <3>1
    <3>3. old[Len(old) - k] = Scored(L, n)
      BY <2>2, <3>1, <3>2 DEF HoldsScores
    <3>4. Scored(L2, n) = Scored(L, n)
      BY <1>2, <2>2 DEF SentBy
    <3>. QED  BY <1>5, <3>1, <3>2, <3>3, <3>4
  <2>. QED  BY <1>1, <2>1, <2>2
<1>9. ASSUME NEW n \in SentBy(L2, ip), After(L2, ip, n) >= Len(new)
      PROVE  After(L2, ip, n) >= MAX_HISTORY \/ t - L2[n].at > HISTORY_WINDOW
  <2>1. n \in SentBy(L, ip)
    BY <1>1, <1>6, <1>9
  <2>2. PICK k \in Nat : k = After(L, ip, n) /\ After(L2, ip, n) = k + 1
    BY <1>1, <2>1
  <2>3. L2[n] = L[n] /\ k >= Len(old)
    BY <1>2, <1>5, <1>9, <2>1, <2>2 DEF SentBy
  <2>4. k >= MAX_HISTORY \/ t - L[n].at > HISTORY_WINDOW
    BY <2>1, <2>2, <2>3 DEF MissesScores
  <2>5. MAX_HISTORY \in Nat
    BY DEF SmartLimits
  <2>. QED  BY <2>2, <2>3, <2>4, <2>5
<1>. QED  BY <1>5, <1>6, <1>7, <1>8, <1>9 DEF HoldsScores, MissesScores

\* What is left of a list from some place on.
LEMMA FromPlace ==
  ASSUME NEW S, NEW s \in Seq(S), NEW N \in Nat, N = Len(s), NEW f \in 1 .. N,
         NEW rest, rest = SubSeq(s, f, N)
  PROVE  /\ rest \in Seq(S) /\ Len(rest) = N - f + 1 /\ DOMAIN rest = 1 .. N - f + 1
         /\ \A i \in 1 .. N - f + 1 : rest[i] = s[f + i - 1]
<1>1. \A i \in f .. N : s[i] \in S
  BY LenProperties, ElementOfSeq
<1>2. /\ SubSeq(s, f, N) \in Seq(S)
      /\ Len(SubSeq(s, f, N)) = IF f <= N THEN N - f + 1 ELSE 0
      /\ \A i \in 1 .. N - f + 1 : SubSeq(s, f, N)[i] = s[f + i - 1]
  BY <1>1, SubSeqProperties
<1>3. DOMAIN rest = 1 .. Len(rest)
  BY <1>2, LenProperties
<1>. QED  BY <1>2, <1>3

\* The front that is too old is shifted out, and then once more.
LeavesFrom(R, S, new, d, first, t) ==
  /\ new[first].at >= t - HISTORY_WINDOW
  /\ \A i \in DOMAIN new : i < first => ~(new[i].at >= t - HISTORY_WINDOW)
  /\ d < Len(new) /\ Len(new) - d <= MAX_HISTORY
  /\ d = first - 1 \/ (d >= first /\ d = Len(new) - MAX_HISTORY)
  /\ R \in Seq(S) /\ Len(R) = Len(new) - d /\ DOMAIN R = 1 .. Len(new) - d
  /\ \A i \in 1 .. Len(new) - d : R[i] = new[d + i]

LEMMA ScoresShifted ==
  ASSUME SmartLimits, NEW t \in Nat, NEW S, NEW old \in Seq(S), NEW new \in Seq(S), NEW score,
         WithScore(old, new, score, t), \A i \in DOMAIN new : new[i].at \in Nat
  PROVE  \E d \in Nat, first \in DOMAIN new :
           LeavesFrom(Smart!Updated(old, score, t), S, new, d, first, t)
<1>20. PICK R : R = Smart!Updated(old, score, t)
  OBVIOUS
<1> DEFINE r == [at |-> t, score |-> score]
           fresh == {i \in DOMAIN new : new[i].at >= t - HISTORY_WINDOW}
           first == CHOOSE i \in fresh : \A j \in fresh : i <= j
           mid   == SubSeq(new, first, Len(new))
<1>0. HISTORY_WINDOW \in Nat /\ MAX_HISTORY \in Nat /\ MAX_HISTORY # 0
  BY DEF SmartLimits
<1>1. R = Smart!LastOf(mid, MAX_HISTORY)
  BY <1>20 DEF Smart!Updated, WithScore
<1>2. /\ DOMAIN new = 1 .. Len(new) /\ Len(new) \in Nat /\ Len(new) > 0
      /\ new[Len(new)] = r
      /\ \A i \in DOMAIN new : new[i] \in S
  <2>1. old \in Seq(S \cup {r}) /\ r \in S \cup {r} /\ Len(old) \in Nat
    BY SeqMonotonic, LenProperties
  <2>2. Len(new) = Len(old) + 1 /\ new[Len(old) + 1] = r
    BY <2>1, AppendProperties DEF r, WithScore
  <2>3. DOMAIN new = 1 .. Len(new) /\ \A i \in DOMAIN new : new[i] \in S
    BY LenProperties, ElementOfSeq
  <2>. QED  BY <2>1, <2>2, <2>3
<1>3. PICK N \in Nat : N = Len(new) /\ N # 0
  <2>1. Len(new) \in Nat /\ Len(new) # 0
    BY <1>2
  <2>. HIDE DEF r
  <2>. QED  BY <2>1
<1>4. first \in fresh /\ \A j \in fresh : first <= j
  <2>1. fresh \in SUBSET Int /\ fresh # {}
    <3>1. N \in fresh
      BY <1>0, <1>2, <1>3
    <3>. QED  BY <1>2, <3>1
  <2>2. IsFiniteSet(fresh)
    <3>1. fresh \in SUBSET (1 .. N) /\ IsFiniteSet(1 .. N)
      BY <1>2, <1>3, FS_Interval
    <3>. QED  BY <3>1, FS_Subset
  <2>. HIDE DEF fresh
  <2>3. \E i \in fresh : \A j \in fresh : i <= j
    BY <2>1, <2>2, LeastOf
  <2>. QED  BY <2>3
<1>5. PICK f \in 1 .. N : f = first
  BY <1>2, <1>3, <1>4
<1>. HIDE DEF first
<1>6. /\ new[f].at >= t - HISTORY_WINDOW
      /\ \A i \in DOMAIN new : i < f => ~(new[i].at >= t - HISTORY_WINDOW)
  <2>1. ASSUME NEW i \in DOMAIN new, i < f, new[i].at >= t - HISTORY_WINDOW PROVE FALSE
    <3>1. f <= i
      BY <1>4, <1>5, <2>1
    <3>2. i \in 1 .. N
      BY <1>2, <1>3
    <3>. QED  BY <2>1, <3>1, <3>2
  <2>. QED  BY <1>4, <1>5, <2>1
<1>. HIDE DEF fresh
<1>7. /\ mid \in Seq(S) /\ Len(mid) = N - f + 1 /\ DOMAIN mid = 1 .. N - f + 1
      /\ \A i \in 1 .. N - f + 1 : mid[i] = new[f + i - 1]
  <2>1. mid = SubSeq(new, f, N)
    BY <1>3, <1>5
  <2>2. PICK m : m = mid
    OBVIOUS
  <2>. HIDE DEF mid, r
  <2>3. /\ m \in Seq(S) /\ Len(m) = N - f + 1 /\ DOMAIN m = 1 .. N - f + 1
        /\ \A i \in 1 .. N - f + 1 : m[i] = new[f + i - 1]
    BY <1>3, <2>1, <2>2, FromPlace
  <2>. QED  BY <2>2, <2>3
<1>. HIDE DEF mid
<1>8. PICK M \in Nat : M = N - f + 1 /\ M # 0
  OBVIOUS
<1>9. PICK c \in Nat : c = IF M > MAX_HISTORY THEN M - MAX_HISTORY ELSE 0
  <2>1. CASE M > MAX_HISTORY
    <3>1. M - MAX_HISTORY \in Nat
      BY <1>0, <2>1
    <3>. QED  BY <2>1, <3>1
  <2>2. CASE ~(M > MAX_HISTORY)
    BY <2>2
  <2>. QED  BY <2>1, <2>2
<1>10. c < M /\ R = SubSeq(mid, c + 1, M)
  <2>1. c < M /\ c + 1 = IF M > MAX_HISTORY THEN M - MAX_HISTORY + 1 ELSE 1
    BY <1>0, <1>8, <1>9
  <2>2. Len(mid) = M
    BY <1>7, <1>8
  <2>. QED  BY <1>1, <2>1, <2>2 DEF Smart!LastOf
<1>11. /\ R \in Seq(S) /\ Len(R) = M - c /\ DOMAIN R = 1 .. M - c
       /\ \A i \in 1 .. M - c : R[i] = mid[c + i]
  <2>1. c + 1 \in 1 .. M /\ M = Len(mid)
    BY <1>7, <1>8, <1>10
  <2>2. PICK g \in 1 .. M : g = c + 1
    BY <2>1
  <2>3. R = SubSeq(mid, g, M)
    BY <1>10, <2>2
  <2>4. /\ R \in Seq(S) /\ Len(R) = M - g + 1 /\ DOMAIN R = 1 .. M - g + 1
        /\ \A i \in 1 .. M - g + 1 : R[i] = mid[g + i - 1]
    BY <1>7, <1>8, <2>1, <2>3, FromPlace
  <2>5. M - g + 1 = M - c /\ \A i \in 1 .. M - c : g + i - 1 = c + i
    BY <2>2
  <2>. QED  BY <2>4, <2>5
<1>12. PICK d \in Nat : d = f - 1 + c
  OBVIOUS
<1>13. /\ d < N /\ N - d = M - c /\ N - d <= MAX_HISTORY
       /\ d = f - 1 \/ (d >= f /\ d = N - MAX_HISTORY)
  BY <1>0, <1>8, <1>9, <1>10, <1>12
<1>14. \A i \in 1 .. N - d : R[i] = new[d + i]
  <2>. SUFFICES ASSUME NEW i \in 1 .. N - d PROVE R[i] = new[d + i]
    OBVIOUS
  <2>1. R[i] = mid[c + i]
    BY <1>11, <1>13
  <2>2. c + i \in 1 .. N - f + 1 /\ f + (c + i) - 1 = d + i
    BY <1>8, <1>12, <1>13
  <2>. QED  BY <1>7, <2>1, <2>2
<1>15. f \in DOMAIN new
  BY <1>2, <1>3
<1>16. LeavesFrom(R, S, new, d, f, t)
  BY <1>3, <1>6, <1>11, <1>13, <1>14 DEF LeavesFrom
<1>. QED  BY <1>20, <1>15, <1>16

\* What is left is the history after the call.
LEMMA ScoresUpdated ==
  ASSUME SmartLimits, NEW L, NEW t, NEW e, NEW L2, NEW ip, NextCall(L, t, e, L2, ip),
         NEW old, HoldsScores(old, ip, L), MissesScores(old, ip, L, t)
  PROVE  IsScores(Smart!Updated(old, e.score, t), ip, L2)
<1>0. /\ HISTORY_WINDOW \in Nat /\ MAX_HISTORY \in Nat /\ MAX_HISTORY # 0 /\ t \in Nat
      /\ \A n \in DOMAIN L2 : L2[n].at \in Nat /\ L2[n].at <= t
      /\ IsLog(L2, t)
  BY DEF SmartLimits, NextCall, IsLog
<1>20. PICK R : R = Smart!Updated(old, e.score, t)
  OBVIOUS
<1>1. PICK new : WithScore(old, new, e.score, t)
  BY DEF WithScore
<1>2. /\ HoldsScores(new, ip, L2) /\ Len(new) \in Nat /\ DOMAIN new = 1 .. Len(new)
      /\ Len(new) > 0 /\ new[Len(new)].at = t
      /\ MissesScores(new, ip, L2, t)
  BY <1>1, ScoreAdded
<1>3. new \in Seq(AllScored(L2)) /\ old \in Seq(AllScored(L2))
  <2>1. AllScored(L) \subseteq AllScored(L2)
    BY DEF NextCall, Logged, AllScored, Scored
  <2>. QED  BY <1>2, <2>1, SeqMonotonic DEF HoldsScores
<1>4. \A i \in DOMAIN new : new[i].at \in Nat
  <2>. SUFFICES ASSUME NEW i \in DOMAIN new PROVE new[i].at \in Nat
    OBVIOUS
  <2>1. new[i] \in AllScored(L2)
    BY <1>2, <1>3, ElementOfSeq
  <2>. QED  BY <1>0, <2>1 DEF AllScored, Scored
<1>50. PICK d \in Nat, first \in DOMAIN new : LeavesFrom(R, AllScored(L2), new, d, first, t)
  <2>. HIDE DEF AllScored
  <2>. QED  BY <1>0, <1>20, <1>1, <1>3, <1>4, ScoresShifted
<1>5. /\ new[first].at >= t - HISTORY_WINDOW
      /\ \A i \in DOMAIN new : i < first => ~(new[i].at >= t - HISTORY_WINDOW)
      /\ d < Len(new) /\ Len(new) - d <= MAX_HISTORY
      /\ d = first - 1 \/ (d >= first /\ d = Len(new) - MAX_HISTORY)
      /\ R \in Seq(AllScored(L2)) /\ Len(R) = Len(new) - d /\ DOMAIN R = 1 .. Len(new) - d
      /\ \A i \in 1 .. Len(new) - d : R[i] = new[d + i]
  BY <1>50, SMTT(30) DEF LeavesFrom
<1>6. PICK N \in Nat : N = Len(new)
  BY <1>2
<1>7. Len(R) = N - d /\ N - d \in 1 .. MAX_HISTORY /\ first \in 1 .. N
  <2>1. Len(R) = N - d /\ d < N /\ N - d <= MAX_HISTORY /\ first \in 1 .. N
    BY <1>2, <1>5, <1>6
  <2>. QED  BY <1>0, <2>1
<1>8. \A n \in SentBy(L2, ip) : After(L2, ip, n) \in Nat /\ n \in DOMAIN L2 /\ n \in Nat
  BY <1>0, LaterFinite, LogElements DEF After, SentBy
<1>9. HoldsScores(R, ip, L2)
  <2>1. ASSUME NEW i \in DOMAIN R
        PROVE  \E n \in SentBy(L2, ip) : After(L2, ip, n) = Len(R) - i
    <3>1. d + i \in DOMAIN new /\ N - (d + i) = Len(R) - i
      BY <1>2, <1>5, <1>6, <1>7
    <3>. QED  BY <1>2, <1>6, <3>1 DEF HoldsScores
  <2>2. ASSUME NEW n \in SentBy(L2, ip), After(L2, ip, n) < Len(R)
        PROVE  R[Len(R) - After(L2, ip, n)] = Scored(L2, n)
    <3>1. PICK k \in Nat : k = After(L2, ip, n)
      BY <1>8
    <3>2. k < N /\ N - d - k \in 1 .. N - d /\ d + (N - d - k) = N - k
      BY <1>7, <2>2, <3>1
    <3>3. new[N - k] = Scored(L2, n)
      BY <1>2, <1>6, <3>1, <3>2 DEF HoldsScores
    <3>4. R[N - d - k] = new[N - k]
      BY <1>5, <1>6, <3>2
    <3>. QED  BY <1>7, <3>1, <3>3, <3>4
  <2>. QED  BY <1>5, <2>1, <2>2 DEF HoldsScores
<1>10. PICK n0 \in SentBy(L2, ip) : After(L2, ip, n0) = N - first
  BY <1>2, <1>6 DEF HoldsScores
<1>11. L2[n0].at >= t - HISTORY_WINDOW
  <2>1. N - first < N /\ N - (N - first) = first
    BY <1>7
  <2>2. new[first] = Scored(L2, n0)
    BY <1>2, <1>6, <1>10, <2>1 DEF HoldsScores
  <2>. QED  BY <1>5, <2>2 DEF Scored
<1>12. PICK l \in SentBy(L2, ip) : L2[l].at = t
  BY DEF NextCall, Logged, SentBy
<1>13. ASSUME NEW n \in SentBy(L2, ip), After(L2, ip, n) < Len(R), NEW m \in SentBy(L2, ip)
       PROVE  L2[m].at - L2[n].at <= HISTORY_WINDOW
  <2>1. ~(n < n0)
    <3>. SUFFICES ASSUME n < n0 PROVE FALSE
      OBVIOUS
    <3>1. After(L2, ip, n0) < After(L2, ip, n)
      BY <1>0, FewerAfter
    <3>2. After(L2, ip, n) <= N - first
      BY <1>5, <1>6, <1>7, <1>8, <1>13, SMTT(30)
    <3>. QED  BY <1>7, <1>8, <1>10, <3>1, <3>2
  <2>2. L2[n0].at <= L2[n].at
    <3>1. n0 = n \/ n0 < n
      BY <1>8, <2>1
    <3>. QED  BY <1>0, <1>8, <3>1 DEF IsLog
  <2>3. L2[m].at <= t /\ L2[m].at \in Nat /\ L2[n].at \in Nat /\ L2[n0].at \in Nat
    BY <1>0, <1>8
  <2>. QED  BY <1>0, <1>11, <2>2, <2>3
<1>14. ASSUME NEW n \in SentBy(L2, ip), ~(After(L2, ip, n) < Len(R)), ~(After(L2, ip, n) >= MAX_HISTORY)
       PROVE  \E m \in SentBy(L2, ip) : L2[m].at - L2[n].at > HISTORY_WINDOW
  <2>1. PICK k \in Nat : k = After(L2, ip, n)
    BY <1>8
  <2>2. L2[n].at \in Nat
    BY <1>0, <1>8
  <2>3. t - L2[n].at > HISTORY_WINDOW
    <3>1. CASE k >= N
      BY <1>2, <1>6, <1>14, <2>1, <3>1 DEF MissesScores
    <3>2. CASE k < N
      <4>1. N - k \in DOMAIN new /\ N - k < first
        <5>1. ~(k < N - d) /\ ~(k >= MAX_HISTORY)
          BY <1>7, <1>14, <2>1
        <5>2. d = first - 1 \/ (d >= first /\ d = N - MAX_HISTORY)
          BY <1>5, <1>6
        <5>3. d = first - 1
          BY <1>0, <3>2, <5>1, <5>2
        <5>4. N - k \in 1 .. N /\ N - k <= d
          BY <1>7, <3>2, <5>1
        <5>. QED  BY <1>2, <1>6, <1>7, <5>3, <5>4
      <4>2. ~(new[N - k].at >= t - HISTORY_WINDOW)
        BY <1>5, <4>1
      <4>3. new[N - k] = Scored(L2, n)
        BY <1>2, <1>6, <2>1, <3>2 DEF HoldsScores
      <4>4. new[N - k].at = L2[n].at
        BY <4>3 DEF Scored
      <4>. QED  BY <1>0, <2>2, <4>2, <4>4
    <3>. QED  BY <3>1, <3>2
  <2>. QED  BY <1>12, <2>3
<1>. QED  BY <1>20, <1>7, <1>9, <1>13, <1>14 DEF IsScores

-----------------------------------------------------------------------------
(* Smart anomaly: what its invariant says.                                 *)

LEMMA Factors ==
  ASSUME NEW a \in Nat, NEW b \in Nat, NEW c \in Nat, b <= c
  PROVE  a * b \in Nat /\ a * b <= a * c
<1>1. PICK d \in Nat : c = b + d
  <2>1. c - b \in Nat /\ c = b + (c - b)
    OBVIOUS
  <2>. QED  BY <2>1
<1>2. a * c = a * b + a * d /\ a * b \in Nat /\ a * d \in Nat
  BY <1>1
<1>. QED  BY <1>2

\* A share of a whole.
LEMMA ShareOfWhole ==
  ASSUME NEW u \in Nat, NEW part \in Nat, NEW whole \in Nat \ {0}, part <= whole
  PROVE  (u * part) \div whole \in Nat /\ (u * part) \div whole <= u
<1>1. PICK x \in Nat : x = u * part
  BY Factors
<1>2. PICK y \in Nat : y = x \div whole
  OBVIOUS
<1>3. whole * y <= x
  BY <1>2
<1>4. x <= u * whole
  BY <1>1, Factors
<1>5. y <= u
  <2>. SUFFICES ASSUME u + 1 <= y PROVE FALSE
    BY <1>2
  <2>1. whole * (u + 1) <= whole * y
    BY Factors
  <2>2. whole * (u + 1) = u * whole + whole /\ u * whole \in Nat
    OBVIOUS
  <2>3. whole * y \in Nat
    OBVIOUS
  <2>. QED  BY <1>3, <1>4, <2>1, <2>2, <2>3
<1>. QED  BY <1>1, <1>2, <1>5

LEMMA WeightInBounds ==
  ASSUME Smart!SmartAssumption, FeedbackTyped(feedbackStore), NEW s \in Signals
  PROVE  /\ 10 * Smart!EffectiveWeight(s) >= BaseWeight[s] * unit
         /\ Smart!EffectiveWeight(s) <= BaseWeight[s] * unit
<1>1. /\ unit \in Nat /\ unit % 10 = 0 /\ minSamples \in Nat /\ minSamples # 0
      /\ MaxFeedback \in Nat
  BY SmartLimited DEF SmartLimits
<1>2. PICK W \in Nat : W = BaseWeight[s]
  BY DEF Smart!SmartAssumption
<1>3. Smart!FeedbackOf(s).tp \in Nat /\ Smart!FeedbackOf(s).fp \in Nat
  <2>1. CASE s \in DOMAIN feedbackStore
    <3>1. feedbackStore[s] \in [tp : 0 .. MaxFeedback, fp : 0 .. MaxFeedback]
      BY <2>1 DEF FeedbackTyped
    <3>. QED  BY <1>1, <2>1, <3>1 DEF Smart!FeedbackOf
  <2>2. CASE s \notin DOMAIN feedbackStore
    BY <2>2 DEF Smart!FeedbackOf, Smart!NoFeedback
  <2>. QED  BY <2>1, <2>2
<1>4. PICK right \in Nat, wrong \in Nat :
        right = Smart!FeedbackOf(s).tp /\ wrong = Smart!FeedbackOf(s).fp
  BY <1>3
<1>5. PICK total \in Nat : total = right + wrong
  OBVIOUS
<1>6. PICK tenth \in Nat : tenth = unit \div 10 /\ 10 * tenth = unit
  BY <1>1
<1>7. CASE total < minSamples
  <2>1. Smart!EffectiveWeight(s) = W * unit
    BY <1>2, <1>4, <1>5, <1>7 DEF Smart!EffectiveWeight
  <2>2. PICK y \in Nat : y = W * unit
    BY <1>1, Factors
  <2>. QED  BY <1>2, <2>1, <2>2
<1>8. CASE ~(total < minSamples)
  <2>1. PICK share : share = (unit * right) \div total
    OBVIOUS
  <2>2. share \in Nat /\ share <= unit
    <3>1. total \in Nat \ {0} /\ right <= total
      BY <1>1, <1>5, <1>8
    <3>. QED  BY <1>1, <2>1, <3>1, ShareOfWhole
  <2>3. PICK x \in Nat : x = IF 10 * share < unit THEN tenth ELSE share
    BY <2>2
  <2>4. 10 * x >= unit /\ x <= unit
    BY <1>1, <1>6, <2>2, <2>3
  <2>5. Smart!EffectiveWeight(s) = W * x
    BY <1>2, <1>4, <1>5, <1>6, <1>8, <2>1, <2>3 DEF Smart!EffectiveWeight
  <2>6. PICK p \in Nat, y \in Nat : p = W * x /\ y = W * unit
    BY <1>1, Factors
  <2>7. p <= y
    BY <1>1, <2>4, <2>6, Factors
  <2>8. y <= 10 * p
    <3>1. PICK z \in Nat : z = 10 * x
      OBVIOUS
    <3>2. W * unit <= W * z
      BY <1>1, <2>4, <3>1, Factors
    <3>3. W * z = 10 * (W * x)
      BY <3>1
    <3>. QED  BY <2>6, <3>2, <3>3
  <2>. QED  BY <1>2, <2>5, <2>6, <2>7, <2>8
<1>. QED  BY <1>7, <1>8

LEMMA SmartInvHolds ==
  Smart!SmartAssumption /\ SmartInv => Smart!TypeOK /\ Smart!ScoresExact /\ Smart!WeightsKept
<1> SUFFICES ASSUME Smart!SmartAssumption, SmartInv
             PROVE  Smart!TypeOK /\ Smart!ScoresExact /\ Smart!WeightsKept
  OBVIOUS
<1>1. Smart!TypeOK
  BY DEF SmartInv, Smart!TypeOK, FeedbackTyped, IsScores, Severities
<1>2. Smart!WeightsKept
  BY WeightInBounds DEF SmartInv, Smart!WeightsKept
<1>3. Smart!HistoriesExact
  <2>1. ASSUME NEW ip \in DOMAIN history
        PROVE  LET list     == history[ip]
                   own      == {n \in DOMAIN log : log[n].ip = ip}
                   after(n) == Smart!Cardinality({m \in own : m > n})
               IN  /\ \A i \in DOMAIN list : \E n \in own : after(n) = Len(list) - i
                   /\ \A n \in own :
                        IF after(n) < Len(list)
                        THEN /\ list[Len(list) - after(n)] = [at |-> log[n].at, score |-> log[n].score]
                             /\ \A m \in own : log[m].at - log[n].at <= HISTORY_WINDOW
                        ELSE \/ after(n) >= MAX_HISTORY
                             \/ \E m \in own : log[m].at - log[n].at > HISTORY_WINDOW
    <3> DEFINE own      == {n \in DOMAIN log : log[n].ip = ip}
               after(n) == Smart!Cardinality({m \in own : m > n})
    <3>1. own = SentBy(log, ip)
      BY DEF SentBy
    <3>2. \A n : after(n) = After(log, ip, n)
      BY <3>1, SmartMaps DEF After, Later
    <3>. HIDE DEF own, after
    <3>3. PICK list : list = history[ip]
      OBVIOUS
    <3>4. IsScores(list, ip, log)
      BY <3>3 DEF SmartInv
    <3>5. \A i \in DOMAIN list : \E n \in own : after(n) = Len(list) - i
      BY <3>1, <3>2, <3>4 DEF IsScores, HoldsScores
    <3>6. ASSUME NEW n \in own
          PROVE  IF after(n) < Len(list)
                 THEN /\ list[Len(list) - after(n)] = [at |-> log[n].at, score |-> log[n].score]
                      /\ \A m \in own : log[m].at - log[n].at <= HISTORY_WINDOW
                 ELSE \/ after(n) >= MAX_HISTORY
                      \/ \E m \in own : log[m].at - log[n].at > HISTORY_WINDOW
      BY <3>1, <3>2, <3>4, <3>6 DEF IsScores, HoldsScores, Scored
    <3>. QED  BY <3>3, <3>5, <3>6 DEF own, after
  <2>. QED  BY <2>1 DEF Smart!HistoriesExact
<1>4. Smart!ScoresExact
  BY <1>3 DEF SmartInv, ShiftsTrue, ShiftTrue, Smart!ScoresExact
<1>. QED  BY <1>1, <1>2, <1>4

LEMMA SmartInit == Smart!SmartAssumption /\ Smart!Init => SmartInv
<1> SUFFICES ASSUME Smart!SmartAssumption, Smart!Init PROVE SmartInv
  OBVIOUS
<1>1. /\ now = 0 /\ log = <<>> /\ loads = 1
      /\ DOMAIN history = {} /\ DOMAIN feedbackStore = {}
  BY SmartMaps DEF Smart!Init, Empty
<1>2. MaxTime \in Nat /\ MaxLoads \in Nat /\ MaxLoads # 0
  BY SmartLimited DEF SmartLimits
<1>3. DOMAIN log = {} /\ log \in Seq({})
  BY <1>1
<1>4. FeedbackTyped(feedbackStore)
  <2>1. feedbackStore = [s \in {} |-> s]
    BY SmartMaps DEF Smart!Init, Empty
  <2>. QED  BY <2>1 DEF FeedbackTyped
<1>5. IsLog(log, now)
  BY <1>1, <1>3 DEF IsLog
<1>. QED  BY <1>1, <1>2, <1>3, <1>4, <1>5 DEF SmartInv, ShiftsTrue

-----------------------------------------------------------------------------
(* Smart anomaly: the steps.                                               *)

\* What an address's history lacks, or all of it once it is forgotten, is out of the
\* window.
LEMMA HistoryHeld ==
  ASSUME SmartLimits, SmartInv, NEW ip
  PROVE  /\ HoldsScores(Smart!HistoryOf(ip), ip, log)
         /\ MissesScores(Smart!HistoryOf(ip), ip, log, now)
<1>1. /\ HISTORY_WINDOW \in Nat /\ IsLog(log, now) /\ now \in Nat
      /\ \A n \in DOMAIN log : log[n].at \in Nat /\ log[n].at <= now
  BY DEF SmartLimits, SmartInv, IsLog
<1>2. CASE ip \in DOMAIN history
  <2>1. PICK list : list = history[ip] /\ list = Smart!HistoryOf(ip)
    BY <1>2 DEF Smart!HistoryOf
  <2>2. IsScores(list, ip, log)
    BY <1>2, <2>1 DEF SmartInv
  <2>3. ASSUME NEW n \in SentBy(log, ip), After(log, ip, n) >= Len(list)
        PROVE  After(log, ip, n) >= MAX_HISTORY \/ now - log[n].at > HISTORY_WINDOW
    <3>1. After(log, ip, n) \in Nat /\ Len(list) \in Nat
      BY <1>1, <2>2, LaterFinite, LenProperties DEF After, IsScores, HoldsScores
    <3>2. \/ After(log, ip, n) >= MAX_HISTORY
          \/ \E m \in SentBy(log, ip) : log[m].at - log[n].at > HISTORY_WINDOW
      BY <2>2, <2>3, <3>1 DEF IsScores
    <3>3. ASSUME NEW m \in SentBy(log, ip), log[m].at - log[n].at > HISTORY_WINDOW
          PROVE  now - log[n].at > HISTORY_WINDOW
      <4>1. log[m].at \in Nat /\ log[m].at <= now /\ log[n].at \in Nat
        BY <1>1 DEF SentBy
      <4>. QED  BY <1>1, <3>3, <4>1
    <3>. QED  BY <3>2, <3>3
  <2>. QED  BY <2>1, <2>2, <2>3 DEF IsScores, MissesScores
<1>3. CASE ip \notin DOMAIN history
  <2>1. Smart!HistoryOf(ip) = <<>>
    BY <1>3 DEF Smart!HistoryOf
  <2>2. HoldsScores(<<>>, ip, log)
    <3>1. \A n \in SentBy(log, ip) : After(log, ip, n) \in Nat
      BY <1>1, LaterFinite DEF After
    <3>. QED  BY <3>1 DEF HoldsScores
  <2>3. \A n \in SentBy(log, ip) : now - log[n].at > HISTORY_WINDOW
    BY <1>3 DEF SmartInv, SentBy
  <2>. QED  BY <2>1, <2>2, <2>3 DEF MissesScores
<1>. QED  BY <1>2, <1>3

\* A shift is against the last two calls of the address.
LEMMA ShiftSeen ==
  ASSUME SmartLimits, SmartInv, NEW ip, NEW score, Smart!Shift(ip, score)
  PROVE  \E k \in SentBy(log, ip), j \in SentBy(log, ip) :
           /\ k < j /\ log[j].at - log[k].at <= HISTORY_WINDOW
           /\ \A m \in SentBy(log, ip) : k < m => m = j
<1>0. IsLog(log, now) /\ MAX_HISTORY \in Nat /\ SentBy(log, ip) \subseteq Nat
  <2>1. IsLog(log, now) /\ MAX_HISTORY \in Nat
    BY DEF SmartInv, SmartLimits
  <2>. QED  BY <2>1, LogElements DEF SentBy
<1>1. Len(Smart!HistoryOf(ip)) >= 2
  BY DEF Smart!Shift
<1>2. ip \in DOMAIN history
  <2>. SUFFICES ASSUME ip \notin DOMAIN history PROVE FALSE
    OBVIOUS
  <2>1. Smart!HistoryOf(ip) = <<>> /\ Len(<<>>) = 0
    BY DEF Smart!HistoryOf
  <2>. QED  BY <1>1, <2>1
<1>3. PICK list : list = history[ip] /\ Len(list) >= 2
  BY <1>1, <1>2 DEF Smart!HistoryOf
<1>4. IsScores(list, ip, log)
  BY <1>2, <1>3 DEF SmartInv
<1>5. PICK N \in Nat : N = Len(list) /\ N >= 2 /\ DOMAIN list = 1 .. N
  <2>1. Len(list) \in Nat /\ DOMAIN list = 1 .. Len(list)
    BY <1>4, LenProperties DEF IsScores, HoldsScores
  <2>. QED  BY <1>3, <2>1
<1>6. PICK j \in SentBy(log, ip) : After(log, ip, j) = 0
  <2>1. N \in DOMAIN list /\ N - N = 0
    BY <1>5
  <2>. QED  BY <1>4, <1>5, <2>1 DEF IsScores, HoldsScores
<1>7. PICK k \in SentBy(log, ip) : After(log, ip, k) = 1
  <2>1. N - 1 \in DOMAIN list /\ N - (N - 1) = 1
    BY <1>5
  <2>. QED  BY <1>4, <1>5, <2>1 DEF IsScores, HoldsScores
<1>8. \A m \in SentBy(log, ip) : ~(j < m)
  <2>. SUFFICES ASSUME NEW m \in SentBy(log, ip), j < m PROVE FALSE
    OBVIOUS
  <2>1. After(log, ip, m) < 0 /\ After(log, ip, m) \in Nat
    BY <1>0, <1>6, FewerAfter
  <2>. QED  BY <2>1
<1>9. k < j
  <2>1. k # j
    BY <1>6, <1>7
  <2>. QED  BY <1>0, <1>8, <2>1
<1>10. log[j].at - log[k].at <= HISTORY_WINDOW
  BY <1>4, <1>5, <1>7 DEF IsScores
<1>11. ASSUME NEW m \in SentBy(log, ip), k < m, m # j PROVE FALSE
  <2>1. m < j
    BY <1>0, <1>8, <1>11
  <2>2. 0 < After(log, ip, m) /\ After(log, ip, m) \in Nat
    BY <1>0, <1>6, <2>1, FewerAfter
  <2>3. After(log, ip, m) < 1
    BY <1>0, <1>7, <1>11, FewerAfter
  <2>. QED  BY <2>2, <2>3
<1>. QED  BY <1>9, <1>10, <1>11

\* Another's call changes no history.
LEMMA ScoresOfOther ==
  ASSUME NEW L, NEW t, NEW e, NEW L2, NEW ip, NextCall(L, t, e, L2, ip), NEW other, other # ip,
         NEW list, IsScores(list, other, L)
  PROVE  IsScores(list, other, L2)
<1>1. /\ SentBy(L2, other) = SentBy(L, other)
      /\ \A m \in SentBy(L, other) : m \in DOMAIN L /\ L2[m] = L[m]
      /\ \A m \in DOMAIN L : m \in DOMAIN L2 /\ L2[m] = L[m]
  BY DEF NextCall, Logged, SentBy
<1>2. \A m : After(L2, other, m) = After(L, other, m)
  BY <1>1 DEF After, Later
<1>3. AllScored(L) \subseteq AllScored(L2) /\ \A m \in SentBy(L, other) : Scored(L2, m) = Scored(L, m)
  BY <1>1 DEF AllScored, Scored
<1>4. list \in Seq(AllScored(L2))
  BY <1>3, SeqMonotonic DEF IsScores, HoldsScores
<1>5. HoldsScores(list, other, L2)
  BY <1>1, <1>2, <1>3, <1>4 DEF IsScores, HoldsScores
<1>. QED  BY <1>1, <1>2, <1>5 DEF IsScores

\* A shift that a call reports is one it saw.
LEMMA ShiftReported ==
  ASSUME SmartLimits, SmartInv, NEW e, NextCall(log, now, e, log', e.ip),
         "behavioral_shift" \in e.signals => \E score : Smart!Shift(e.ip, score)
  PROVE  ShiftsTrue(log')
<1>1. PICK l \in Nat :
        /\ l = Len(log) + 1 /\ DOMAIN log = 1 .. l - 1 /\ DOMAIN log' = 1 .. l
        /\ \A m \in DOMAIN log : log'[m] = log[m]
        /\ log'[l] = e
  <2>1. DOMAIN log = 1 .. Len(log) /\ Len(log) \in Nat
    BY LogElements DEF NextCall
  <2>. QED  BY <2>1 DEF NextCall, Logged
<1>2. ASSUME NEW n \in DOMAIN log, "behavioral_shift" \in log'[n].signals
      PROVE  ShiftTrue(log', n)
  <2>1. PICK k \in 1 .. n - 1, j \in 1 .. n - 1 :
          /\ k < j /\ {log[k].ip, log[j].ip} = {log[n].ip}
          /\ log[j].at - log[k].at <= HISTORY_WINDOW
          /\ \A m \in k + 1 .. n - 1 : log[m].ip = log[n].ip => m = j
    BY <1>1, <1>2 DEF SmartInv, ShiftsTrue, ShiftTrue
  <2>2. \A m \in 1 .. n - 1 : m \in DOMAIN log
    BY <1>1
  <2>3. log'[k] = log[k] /\ log'[j] = log[j] /\ log'[n] = log[n]
        /\ \A m \in k + 1 .. n - 1 : log'[m] = log[m]
    BY <1>1, <2>2
  <2>. QED  BY <2>1, <2>3 DEF ShiftTrue
<1>3. ASSUME "behavioral_shift" \in e.signals
      PROVE  ShiftTrue(log', l)
  <2>1. PICK k \in SentBy(log, e.ip), j \in SentBy(log, e.ip) :
          /\ k < j /\ log[j].at - log[k].at <= HISTORY_WINDOW
          /\ \A m \in SentBy(log, e.ip) : k < m => m = j
    BY <1>3, ShiftSeen
  <2>2. k \in 1 .. l - 1 /\ j \in 1 .. l - 1 /\ log[k].ip = e.ip /\ log[j].ip = e.ip
    BY <1>1 DEF SentBy
  <2>3. ASSUME NEW m \in k + 1 .. l - 1, log'[m].ip = e.ip PROVE m = j
    <3>1. m \in DOMAIN log /\ k < m
      BY <1>1, <2>2
    <3>. QED  BY <1>1, <2>1, <2>3, <3>1 DEF SentBy
  <2>4. log'[k] = log[k] /\ log'[j] = log[j]
    BY <1>1, <2>2
  <2>. QED  BY <1>1, <2>1, <2>2, <2>3, <2>4 DEF ShiftTrue
<1>4. ASSUME NEW n \in DOMAIN log', "behavioral_shift" \in log'[n].signals
      PROVE  ShiftTrue(log', n)
  <2>1. CASE n = l
    BY <1>1, <1>3, <1>4, <2>1
  <2>2. CASE n # l
    <3>1. n \in DOMAIN log
      BY <1>1, <2>2
    <3>. QED  BY <1>2, <1>4, <3>1
  <2>. QED  BY <2>1, <2>2
<1>. QED  BY <1>4 DEF ShiftsTrue

\* What a call records.
LEMMA CallScored ==
  ASSUME Smart!SmartAssumption, NEW q \in Suspects, Smart!Analyze(q)
  PROVE  \E e : /\ e.ip = q.ip /\ e.at = now /\ e.severity \in Severities
                /\ "behavioral_shift" \in e.signals => \E score : Smart!Shift(e.ip, score)
                /\ log' = Append(log, e)
                /\ history' = Put(history, e.ip,
                                  Smart!Updated(Smart!HistoryOf(e.ip), e.score, now))
<1>1. PICK scores, base, all, score, vectors :
        LET e == [ip |-> q.ip, at |-> now, score |-> score, base |-> base, signals |-> all,
                  categories |-> DOMAIN scores, severity |-> Smart!ScoreToSeverity(base),
                  vectors |-> vectors]
        IN  /\ all = q.signals \cup Smart!NovelSignals(q, scores)
                     \cup Smart!Flag("behavioral_shift", Smart!Shift(q.ip, base))
            /\ log' = Append(log, e)
            /\ history' = Smart!Put(history, q.ip, Smart!Updated(Smart!HistoryOf(q.ip), score, now))
  BY DEF Smart!Analyze
<1>2. PICK e : e = [ip |-> q.ip, at |-> now, score |-> score, base |-> base, signals |-> all,
                    categories |-> DOMAIN scores, severity |-> Smart!ScoreToSeverity(base),
                    vectors |-> vectors]
  OBVIOUS
<1>3. e.severity \in Severities
  BY <1>2 DEF Smart!ScoreToSeverity, Severities
<1>4. "behavioral_shift" \in all => Smart!Shift(q.ip, base)
  <2>1. "behavioral_shift" \notin q.signals
    BY DEF Smart!SmartAssumption
  <2>2. "behavioral_shift" \notin Smart!NovelSignals(q, scores)
    BY DEF Smart!NovelSignals, Smart!Flag
  <2>. QED  BY <1>1, <2>1, <2>2 DEF Smart!Flag
<1>. QED  BY <1>1, <1>2, <1>3, <1>4, SmartMaps

LEMMA SmartCallKeeps ==
  ASSUME Smart!SmartAssumption, SmartInv, NEW q \in Suspects, Smart!Analyze(q) PROVE SmartInv'
<1>1. PICK e : /\ e.ip = q.ip /\ e.at = now /\ e.severity \in Severities
               /\ "behavioral_shift" \in e.signals => \E score : Smart!Shift(e.ip, score)
               /\ log' = Append(log, e)
               /\ history' = Put(history, e.ip,
                                 Smart!Updated(Smart!HistoryOf(e.ip), e.score, now))
  BY CallScored
<1>2. PICK ip : ip = e.ip
  OBVIOUS
<1>3. now' = now /\ loads' = loads /\ feedbackStore' = feedbackStore
  BY DEF Smart!Analyze
<1>4. SmartLimits
  BY SmartLimited
<1>5. IsLog(log, now) /\ IsLog(log', now) /\ Logged(log, e, log')
  BY <1>1, LogAppended DEF SmartInv
<1>6. NextCall(log, now, e, log', ip)
  BY <1>1, <1>2, <1>5 DEF NextCall
<1>7. /\ \A n \in DOMAIN log : log'[n] = log[n]
      /\ \E l : DOMAIN log' = DOMAIN log \cup {l} /\ log'[l] = e
  BY <1>5 DEF Logged
<1>8. /\ DOMAIN history' = DOMAIN history \cup {ip}
      /\ history'[ip] = Smart!Updated(Smart!HistoryOf(ip), e.score, now)
      /\ \A other \in DOMAIN history : other # ip => history'[other] = history[other]
  BY <1>1, <1>2 DEF Put
<1>9. IsScores(history'[ip], ip, log')
  <2>1. HoldsScores(Smart!HistoryOf(ip), ip, log) /\ MissesScores(Smart!HistoryOf(ip), ip, log, now)
    BY <1>4, HistoryHeld
  <2>2. IsScores(Smart!Updated(Smart!HistoryOf(ip), e.score, now), ip, log')
    BY <1>4, <1>6, <2>1, ScoresUpdated
  <2>. QED  BY <1>8, <2>2
<1>10. ASSUME NEW other \in DOMAIN history' PROVE IsScores(history'[other], other, log')
  <2>1. CASE other = ip
    BY <1>9, <2>1
  <2>2. CASE other # ip
    <3>1. other \in DOMAIN history /\ history'[other] = history[other]
      BY <1>8, <2>2
    <3>2. PICK list : list = history[other]
      OBVIOUS
    <3>3. IsScores(list, other, log)
      BY <3>1, <3>2 DEF SmartInv
    <3>4. IsScores(list, other, log')
      BY <1>6, <2>2, <3>3, ScoresOfOther
    <3>. QED  BY <3>1, <3>2, <3>4
  <2>. QED  BY <2>1, <2>2
<1>11. \A n \in DOMAIN log' : log'[n].ip \notin DOMAIN history' => now - log'[n].at > HISTORY_WINDOW
  BY <1>2, <1>7, <1>8 DEF SmartInv
<1>12. \A n \in DOMAIN log' : log'[n].severity \in Severities
  BY <1>1, <1>7 DEF SmartInv
<1>13. ShiftsTrue(log')
  BY <1>1, <1>2, <1>4, <1>6, ShiftReported
<1>14. now' \in 0 .. MaxTime /\ loads' \in 1 .. MaxLoads /\ FeedbackTyped(feedbackStore')
       /\ IsLog(log', now')
  BY <1>3, <1>5 DEF SmartInv
<1>. QED  BY <1>3, <1>10, <1>11, <1>12, <1>13, <1>14 DEF SmartInv

\* Without a call, whoever is forgotten must be out of the window.
LEMMA SmartQuietKeeps ==
  ASSUME SmartLimits, SmartInv, log' = log, loads' \in 1 .. MaxLoads, FeedbackTyped(feedbackStore'),
         now' \in 0 .. MaxTime, now <= now',
         \A ip \in DOMAIN history' : ip \in DOMAIN history /\ history'[ip] = history[ip],
         \A ip \in DOMAIN history \ DOMAIN history' :
           \A n \in SentBy(log, ip) : now - log[n].at > HISTORY_WINDOW
  PROVE  SmartInv'
<1>1. /\ HISTORY_WINDOW \in Nat /\ IsLog(log, now) /\ now \in Nat /\ now' \in Nat
      /\ \A n \in DOMAIN log : log[n].at \in Nat /\ log[n].at <= now
  BY DEF SmartLimits, SmartInv, IsLog
<1>3. IsLog(log, now')
  <2>1. \A n \in DOMAIN log : log[n].at \in 0 .. now'
    BY <1>1
  <2>. QED  BY <1>1, <2>1 DEF IsLog
<1>4. ASSUME NEW n \in DOMAIN log, log[n].ip \notin DOMAIN history'
      PROVE  now' - log[n].at > HISTORY_WINDOW
  <2>1. now - log[n].at > HISTORY_WINDOW
    BY <1>4 DEF SmartInv, SentBy
  <2>. QED  BY <1>1, <2>1
<1>5. \A ip \in DOMAIN history' : IsScores(history'[ip], ip, log)
  BY DEF SmartInv
<1>6. ShiftsTrue(log) /\ \A n \in DOMAIN log : log[n].severity \in Severities
  BY DEF SmartInv
<1>. QED  BY <1>3, <1>4, <1>5, <1>6 DEF SmartInv

\* A verdict is counted on one side.
LEMMA FeedbackCounted ==
  ASSUME MaxFeedback \in Nat, FeedbackTyped(feedbackStore),
         NEW signals, NEW field \in {"tp", "fp"}, Smart!Feedback(signals, field)
  PROVE  FeedbackTyped(feedbackStore')
<1> DEFINE Verdict == [tp : 0 .. MaxFeedback, fp : 0 .. MaxFeedback]
<1>1. /\ DOMAIN feedbackStore' = DOMAIN feedbackStore \cup signals
      /\ \A s \in DOMAIN feedbackStore' :
           feedbackStore'[s] = IF s \in signals
                               THEN [Smart!FeedbackOf(s) EXCEPT ![field] = @ + 1]
                               ELSE feedbackStore[s]
      /\ feedbackStore' = [s \in DOMAIN feedbackStore' |-> feedbackStore'[s]]
  BY DEF Smart!Feedback
<1>2. ASSUME NEW s \in signals PROVE feedbackStore'[s] \in Verdict
  <2>1. PICK fb : fb = Smart!FeedbackOf(s)
    OBVIOUS
  <2>2. fb \in Verdict
    BY <2>1 DEF FeedbackTyped, Smart!FeedbackOf, Smart!NoFeedback
  <2>3. fb.tp + fb.fp < MaxFeedback
    BY <2>1 DEF Smart!Feedback
  <2>4. [fb EXCEPT ![field] = @ + 1] \in Verdict
    <3>1. CASE field = "tp"
      BY <2>2, <2>3, <3>1
    <3>2. CASE field = "fp"
      BY <2>2, <2>3, <3>2
    <3>. QED  BY <3>1, <3>2
  <2>. QED  BY <1>1, <2>1, <2>4
<1>3. ASSUME NEW s \in DOMAIN feedbackStore', s \notin signals PROVE feedbackStore'[s] \in Verdict
  <2>1. s \in DOMAIN feedbackStore /\ feedbackStore'[s] = feedbackStore[s]
    BY <1>1, <1>3
  <2>. QED  BY <2>1 DEF FeedbackTyped
<1>. HIDE DEF Verdict
<1>4. feedbackStore' \in [DOMAIN feedbackStore' -> Verdict]
  BY <1>1, <1>2, <1>3
<1>. QED  BY <1>4 DEF FeedbackTyped, Verdict

\* The last score kept is that of the last call.
LEMMA LastWasLast ==
  ASSUME SmartLimits, SmartInv, NEW ip \in DOMAIN history,
         now - history[ip][Len(history[ip])].at > HISTORY_WINDOW
  PROVE  \A n \in SentBy(log, ip) : now - log[n].at > HISTORY_WINDOW
<1>1. /\ IsLog(log, now) /\ HISTORY_WINDOW \in Nat /\ now \in Nat
      /\ \A n \in DOMAIN log : log[n].at \in Nat
      /\ SentBy(log, ip) \subseteq Nat /\ SentBy(log, ip) \subseteq DOMAIN log
  <2>1. IsLog(log, now) /\ HISTORY_WINDOW \in Nat
    BY DEF SmartInv, SmartLimits
  <2>. QED  BY <2>1, LogElements DEF SentBy, IsLog
<1>2. PICK list : list = history[ip]
  OBVIOUS
<1>3. IsScores(list, ip, log)
  BY <1>2 DEF SmartInv
<1>4. PICK N \in Nat : N = Len(list) /\ N # 0 /\ DOMAIN list = 1 .. N
  BY <1>3, LenProperties DEF IsScores, HoldsScores
<1>5. PICK j \in SentBy(log, ip) : After(log, ip, j) = 0
  <2>1. N \in DOMAIN list /\ N - N = 0
    BY <1>4
  <2>. QED  BY <1>3, <1>4, <2>1 DEF IsScores, HoldsScores
<1>6. list[N] = Scored(log, j)
  <2>1. 0 < N /\ N - 0 = N
    BY <1>4
  <2>. QED  BY <1>3, <1>4, <1>5, <2>1 DEF IsScores, HoldsScores
<1>7. now - log[j].at > HISTORY_WINDOW
  BY <1>2, <1>4, <1>6 DEF Scored
<1>8. ASSUME NEW n \in SentBy(log, ip) PROVE now - log[n].at > HISTORY_WINDOW
  <2>1. ~(j < n)
    <3>. SUFFICES ASSUME j < n PROVE FALSE
      OBVIOUS
    <3>1. After(log, ip, n) < 0 /\ After(log, ip, n) \in Nat
      BY <1>1, <1>5, FewerAfter
    <3>. QED  BY <3>1
  <2>2. n = j \/ n < j
    BY <1>1, <2>1
  <2>3. log[n].at <= log[j].at
    BY <1>1, <2>2 DEF IsLog
  <2>4. log[n].at \in Nat /\ log[j].at \in Nat
    BY <1>1
  <2>. QED  BY <1>1, <1>7, <2>3, <2>4
<1>. QED  BY <1>8

LEMMA SmartStep == Smart!SmartAssumption /\ SmartInv /\ [Smart!Next]_(Smart!vars) => SmartInv'
<1> SUFFICES ASSUME Smart!SmartAssumption, SmartInv, [Smart!Next]_(Smart!vars) PROVE SmartInv'
  OBVIOUS
<1>1. /\ SmartLimits /\ now \in 0 .. MaxTime /\ MaxTime \in Nat /\ loads \in 1 .. MaxLoads
      /\ MaxLoads \in Nat /\ FeedbackTyped(feedbackStore) /\ MaxFeedback \in Nat
      /\ HISTORY_WINDOW \in Nat
  BY SmartLimited DEF SmartInv, SmartLimits
<1>2. ASSUME NEW q \in Suspects, Smart!Analyze(q) PROVE SmartInv'
  BY <1>2, SmartCallKeeps
<1>3. ASSUME NEW signals \in Verdicts, NEW field \in {"tp", "fp"}, Smart!Feedback(signals, field)
      PROVE  SmartInv'
  <2>1. /\ history' = history /\ log' = log /\ now' = now /\ loads' = loads
    BY <1>3 DEF Smart!Feedback
  <2>2. FeedbackTyped(feedbackStore')
    BY <1>1, <1>3, FeedbackCounted
  <2>. QED  BY <1>1, <2>1, <2>2, SmartQuietKeeps
<1>4. ASSUME NEW set \in RuleSets, Smart!Reload(set) PROVE SmartInv'
  <2>1. /\ history' = history /\ log' = log /\ now' = now /\ feedbackStore' = feedbackStore
        /\ loads' \in 1 .. MaxLoads
    BY <1>1, <1>4 DEF Smart!Reload
  <2>. QED  BY <1>1, <2>1, SmartQuietKeeps
<1>5. CASE Smart!Collect
  <2>1. /\ log' = log /\ now' = now /\ feedbackStore' = feedbackStore /\ loads' = loads
        /\ \A ip \in DOMAIN history' : ip \in DOMAIN history /\ history'[ip] = history[ip]
        /\ \A ip \in DOMAIN history \ DOMAIN history' :
             now - history[ip][Len(history[ip])].at > HISTORY_WINDOW
    BY <1>5, SmartMaps DEF Smart!Collect, Drop
  <2>2. \A ip \in DOMAIN history \ DOMAIN history' :
          \A n \in SentBy(log, ip) : now - log[n].at > HISTORY_WINDOW
    BY <1>1, <2>1, LastWasLast
  <2>. QED  BY <1>1, <2>1, <2>2, SmartQuietKeeps
<1>6. CASE Smart!Tick
  <2>1. /\ history' = history /\ log' = log /\ loads' = loads /\ feedbackStore' = feedbackStore
        /\ now' \in 0 .. MaxTime /\ now <= now'
    BY <1>1, <1>6 DEF Smart!Tick
  <2>. QED  BY <1>1, <2>1, SmartQuietKeeps
<1>7. CASE UNCHANGED Smart!vars
  <2>1. /\ history' = history /\ log' = log /\ loads' = loads /\ feedbackStore' = feedbackStore
        /\ now' = now
    BY <1>7 DEF Smart!vars
  <2>. QED  BY <1>1, <2>1, SmartQuietKeeps
<1>. QED  BY <1>2, <1>3, <1>4, <1>5, <1>6, <1>7 DEF Smart!Next

-----------------------------------------------------------------------------
(* The parts side by side: the invariant of the part that a behaviour is of. *)

MemoriesInv ==
  /\ memory = "baselines"    => BaselinesInv
  /\ memory = "fingerprints" => PrintsInv
  /\ memory = "traps"        => TrapInv
  /\ memory = "api"          => ApiInv
  /\ memory = "bots"         => BotsInv
  /\ memory = "smart"        => SmartInv
  /\ memory = "rules"        => AutoInv

LEMMA MemoriesInitially == MemoriesInit => MemoriesInv
<1> SUFFICES ASSUME MemoriesInit PROVE MemoriesInv
  OBVIOUS
<1>. USE MemoriesAssumption
<1>1. CASE memory = "baselines" /\ Baselines!Init
  BY <1>1, BaselinesInit DEF MemoriesInv
<1>2. CASE memory = "fingerprints" /\ Prints!Init
  BY <1>2, PrintsInit DEF MemoriesInv
<1>3. CASE memory = "traps" /\ Traps!Init
  BY <1>3, TrapInit DEF MemoriesInv
<1>4. CASE memory = "api" /\ Api!Init
  BY <1>4, ApiInit DEF MemoriesInv
<1>5. CASE memory = "bots" /\ Bots!Init
  BY <1>5, BotsInit DEF MemoriesInv
<1>6. CASE memory = "smart" /\ Smart!Init
  BY <1>6, SmartInit DEF MemoriesInv
<1>7. CASE memory = "rules" /\ Generated!Init
  BY <1>7, AutoInit DEF MemoriesInv
<1>. QED  BY <1>1, <1>2, <1>3, <1>4, <1>5, <1>6, <1>7 DEF MemoriesInit

\* A step is one of the part the behaviour is of, or none.
LEMMA MemoriesStep == MemoriesInv /\ [MemoriesNext]_memoryVars => MemoriesInv'
<1> SUFFICES ASSUME MemoriesInv, [MemoriesNext]_memoryVars PROVE MemoriesInv'
  OBVIOUS
<1>. USE MemoriesAssumption
<1>1. memory' = memory
  BY DEF MemoriesNext, MemoriesDue, MemoriesTick, memoryVars,
         BaselinesCheck, BaselinesCollect, BaselinesTick, PrintsAnalyze, PrintsCleanup,
         PrintsTick, TrapsHandle, TrapsRelease, TrapsTick, ApiCheck, ApiCollect, ApiTick,
         BotsStart, BotsAnalyze, BotsCollect, BotsTick, SmartAnalyze, SmartFeedback,
         SmartReload, SmartCollect, SmartTick, AutoGenerate, AutoReload,
         AutoRestart, AutoTick, InBaselines, InPrints, InTraps, InApi, InBots, InSmart,
         InAuto
<1>2. CASE memory = "baselines"
  <2>1. [Baselines!Next]_(Baselines!vars)
    BY <1>2 DEF MemoriesNext, MemoriesDue, MemoriesTick, memoryVars, Clock,
         BaselinesCheck, BaselinesCollect, BaselinesTick, PrintsAnalyze, PrintsCleanup,
         PrintsTick, TrapsHandle, TrapsRelease, TrapsTick, ApiCheck, ApiCollect, ApiTick,
         BotsStart, BotsAnalyze, BotsCollect, BotsTick, SmartAnalyze, SmartFeedback,
         SmartReload, SmartCollect, SmartTick, AutoGenerate, AutoReload,
         AutoRestart, AutoTick, InBaselines, InPrints, InTraps, InApi, InBots, InSmart,
         InAuto,
         Baselines!Next, Baselines!vars
  <2>. QED  BY <1>1, <1>2, <2>1, BaselinesStep DEF MemoriesInv
<1>3. CASE memory = "fingerprints"
  <2>1. [Prints!Next]_(Prints!vars)
    BY <1>3 DEF MemoriesNext, MemoriesDue, MemoriesTick, memoryVars, Clock, OfPrints,
         BaselinesCheck, BaselinesCollect, BaselinesTick, PrintsAnalyze, PrintsCleanup,
         PrintsTick, TrapsHandle, TrapsRelease, TrapsTick, ApiCheck, ApiCollect, ApiTick,
         BotsStart, BotsAnalyze, BotsCollect, BotsTick, SmartAnalyze, SmartFeedback,
         SmartReload, SmartCollect, SmartTick, AutoGenerate, AutoReload,
         AutoRestart, AutoTick, InBaselines, InPrints, InTraps, InApi, InBots, InSmart,
         InAuto,
         Prints!Next, Prints!vars
  <2>. QED  BY <1>1, <1>3, <2>1, PrintsStep DEF MemoriesInv
<1>4. CASE memory = "traps"
  <2>1. [Traps!Next]_(Traps!vars)
    BY <1>4 DEF MemoriesNext, MemoriesDue, MemoriesTick, memoryVars, Clock, OfTraps,
         BaselinesCheck, BaselinesCollect, BaselinesTick, PrintsAnalyze, PrintsCleanup,
         PrintsTick, TrapsHandle, TrapsRelease, TrapsTick, ApiCheck, ApiCollect, ApiTick,
         BotsStart, BotsAnalyze, BotsCollect, BotsTick, SmartAnalyze, SmartFeedback,
         SmartReload, SmartCollect, SmartTick, AutoGenerate, AutoReload,
         AutoRestart, AutoTick, InBaselines, InPrints, InTraps, InApi, InBots, InSmart,
         InAuto,
         Traps!Next, Traps!vars
  <2>. QED  BY <1>1, <1>4, <2>1, TrapStep DEF MemoriesInv
<1>5. CASE memory = "api"
  <2>1. [Api!Next]_(Api!vars)
    BY <1>5 DEF MemoriesNext, MemoriesDue, MemoriesTick, memoryVars, Clock,
         BaselinesCheck, BaselinesCollect, BaselinesTick, PrintsAnalyze, PrintsCleanup,
         PrintsTick, TrapsHandle, TrapsRelease, TrapsTick, ApiCheck, ApiCollect, ApiTick,
         BotsStart, BotsAnalyze, BotsCollect, BotsTick, SmartAnalyze, SmartFeedback,
         SmartReload, SmartCollect, SmartTick, AutoGenerate, AutoReload,
         AutoRestart, AutoTick, InBaselines, InPrints, InTraps, InApi, InBots, InSmart,
         InAuto,
         Api!Next, Api!vars
  <2>. QED  BY <1>1, <1>5, <2>1, ApiStep DEF MemoriesInv
<1>6. CASE memory = "bots"
  <2>1. [Bots!Next]_(Bots!vars)
    BY <1>6 DEF MemoriesNext, MemoriesDue, MemoriesTick, memoryVars, Clock, OfBots,
         BaselinesCheck, BaselinesCollect, BaselinesTick, PrintsAnalyze, PrintsCleanup,
         PrintsTick, TrapsHandle, TrapsRelease, TrapsTick, ApiCheck, ApiCollect, ApiTick,
         BotsStart, BotsAnalyze, BotsCollect, BotsTick, SmartAnalyze, SmartFeedback,
         SmartReload, SmartCollect, SmartTick, AutoGenerate, AutoReload,
         AutoRestart, AutoTick, InBaselines, InPrints, InTraps, InApi, InBots, InSmart,
         InAuto,
         Bots!Next, Bots!vars
  <2>. QED  BY <1>1, <1>6, <2>1, BotsStep DEF MemoriesInv
<1>7. CASE memory = "smart"
  <2>1. [Smart!Next]_(Smart!vars)
    BY <1>7 DEF MemoriesNext, MemoriesDue, MemoriesTick, memoryVars, Clock, OfSmart,
         BaselinesCheck, BaselinesCollect, BaselinesTick, PrintsAnalyze, PrintsCleanup,
         PrintsTick, TrapsHandle, TrapsRelease, TrapsTick, ApiCheck, ApiCollect, ApiTick,
         BotsStart, BotsAnalyze, BotsCollect, BotsTick, SmartAnalyze, SmartFeedback,
         SmartReload, SmartCollect, SmartTick, AutoGenerate, AutoReload,
         AutoRestart, AutoTick, InBaselines, InPrints, InTraps, InApi, InBots, InSmart,
         InAuto,
         Smart!Next, Smart!vars
  <2>. QED  BY <1>1, <1>7, <2>1, SmartStep DEF MemoriesInv
<1>8. CASE memory = "rules"
  <2>1. [Generated!Next]_(Generated!vars)
    BY <1>8 DEF MemoriesNext, MemoriesDue, MemoriesTick, memoryVars, Clock, OfAuto,
         BaselinesCheck, BaselinesCollect, BaselinesTick, PrintsAnalyze, PrintsCleanup,
         PrintsTick, TrapsHandle, TrapsRelease, TrapsTick, ApiCheck, ApiCollect, ApiTick,
         BotsStart, BotsAnalyze, BotsCollect, BotsTick, SmartAnalyze, SmartFeedback,
         SmartReload, SmartCollect, SmartTick, AutoGenerate, AutoReload,
         AutoRestart, AutoTick, InBaselines, InPrints, InTraps, InApi, InBots, InSmart,
         InAuto,
         Generated!Next, Generated!vars
  <2>. QED  BY <1>1, <1>8, <2>1, AutoStep DEF MemoriesInv
<1>9. CASE memory \notin {"baselines", "fingerprints", "traps", "api", "bots", "smart", "rules"}
  BY <1>1, <1>9 DEF MemoriesInv
<1>. QED  BY <1>2, <1>3, <1>4, <1>5, <1>6, <1>7, <1>8, <1>9

LEMMA MemoriesInvariant == MemoriesSpec => []MemoriesInv
<1>. QED  BY MemoriesInitially, MemoriesStep, PTL DEF MemoriesSpec

LEMMA MemoriesInvHolds == MemoriesInv => MemoryTypes /\ MemoriesExact /\ RulesAccounted
<1>. USE MemoriesAssumption
<1>. QED  BY BaselinesInvHolds, PrintsInvHolds, TrapInvHolds, ApiInvHolds, BotsInvHolds,
        SmartInvHolds, AutoInvHolds
     DEF MemoriesInv, MemoryTypes, MemoriesExact, RulesAccounted

\* Of the memories of the engine, each keeps its types and the limits of its tables,
\* however many paths, addresses, clients and bodies there are.
THEOREM MemoriesTyped == MemoriesSpec => []MemoryTypes
<1>. QED  BY MemoriesInvariant, MemoriesInvHolds, PTL

\* Baselines, counts, drifts, trap limits, endpoints, sessions and histories of scores are
\* exactly those of the requests made, and no feedback mutes a signal, through any
\* evictions, decays, cleanups and reloads, and though the calls of a session are
\* interrupted at their await.
THEOREM MemoriesAreExact == MemoriesSpec => []MemoriesExact
<1>. QED  BY MemoriesInvariant, MemoriesInvHolds, PTL

\* The file of generated rules, the hashes and the rules matched with agree, whatever
\* fails, is reloaded or restarted.
THEOREM GeneratedRulesAccounted == MemoriesSpec => []RulesAccounted
<1>. QED  BY MemoriesInvariant, MemoriesInvHolds, PTL
=============================================================================
