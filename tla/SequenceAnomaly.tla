-------------------------- MODULE SequenceAnomaly --------------------------
(***************************************************************************)
(* src/modules/sequence-anomaly.js: a ring of values per address and       *)
(* parameter, and, per parameter, who asked for which value.  check has no *)
(* await.  The engine does not load the module; it is called directly.     *)
(***************************************************************************)
EXTENDS Integers, SequencesExt, Maps

CONSTANTS
  IPs, Values,
  Uuids,             \* the values that are no numbers
  Requests,          \* an address with the ids sent, a list of parameter and value
  None,
  Classes,           \* values config.paramClasses may be given
  Lengths,           \* values config.historyMaxLen may be given
  maxParamKeys, paramHistoryTtlMs, maxResources, resourceTtlMs,
  timeWindowMs, minDistinctIps, minHitsForFanout,
  minSequenceLength, minSequenceRate, minRequests, minRate, maxRate,
  LastActivity,      \* bound: when clients fall silent
  MaxCalls, MaxTime

\* Of the constants.
SequenceAssumption ==
  /\ {maxParamKeys, maxResources, minSequenceLength, minRequests} \subseteq Nat \ {0}
  /\ Lengths \subseteq Nat \ {0}

VARIABLES
  now,
  paramClasses, historyMaxLen,  \* the settings
  matchers, signature,          \* what is compiled, and of which classes
  rings,       \* PARAM_HISTORY: address, parameter, class -> ring; in order of insertion
  resources,   \* GLOBAL_RESOURCE_ACCESS: parameter -> value -> who and how often
  log          \* the calls made, each with what it returned

vars == <<now, paramClasses, historyMaxLen, matchers, signature, rings, resources, log>>

Flag(f, test) == IF test THEN {f} ELSE {}

-----------------------------------------------------------------------------
(* The ring.  `sizes` keeps the lengths it was used with, and `seen` what  *)
(* was pushed, in order: they are history, the code has neither.           *)

NewRing == [buf |-> <<>>, head |-> 0, count |-> 0, lastActivity |-> now,
            sizes |-> {}, seen |-> <<>>]

\* Mutant: the head stays where it is.
PushedInPlace(r, e) ==
  IF Len(r.buf) < historyMaxLen
  THEN [r EXCEPT !.buf = Append(@, e), !.count = Len(r.buf) + 1]
  ELSE [r EXCEPT !.buf[r.head + 1] = e, !.count = historyMaxLen]

\* _ringPush
Pushed(r, e) ==
  IF Len(r.buf) < historyMaxLen
  THEN [r EXCEPT !.buf = Append(@, e), !.count = Len(r.buf) + 1]
  ELSE [r EXCEPT !.buf[r.head + 1] = e, !.head = (@ + 1) % historyMaxLen,
                 !.count = historyMaxLen]

\* _ringIterate
Entries(r) ==
  IF r.count < Len(r.buf) THEN SubSeq(r.buf, 1, r.count)
  ELSE [i \in 1 .. Len(r.buf) |-> r.buf[((r.head + i - 1) % Len(r.buf)) + 1]]

Span(h) == h[Len(h)].at - h[1].at

\* _detectSequential: neighbours differ by one, and not too slowly; a burst within
\* one tick has no lower bound.
Sequential(h, class) ==
  /\ class # "page"
  /\ Len(h) >= minSequenceLength
  /\ \A i \in 1 .. Len(h) - 1 :
       /\ {h[i].val, h[i + 1].val} \cap Uuids = {}
       /\ h[i + 1].val - h[i].val \in {1, -1}
  /\ Span(h) <= 0 \/ Len(h) >= minSequenceRate * Span(h)

\* _detectVelocitySpike
Spike(h) ==
  /\ Len(h) >= minRequests
  /\ Span(h) > 0
  /\ minRate * Span(h) <= Len(h) /\ Len(h) <= maxRate * Span(h)

-----------------------------------------------------------------------------
(* The fan-out.                                                            *)

\* The record of a value after an access by ip.
Touched(values, v, ip) ==
  LET r == IF v \in DOMAIN values THEN values[v]
           ELSE [ips |-> {}, hits |-> 0, firstSeen |-> now, lastActivity |-> now]
  IN  [r EXCEPT !.ips = @ \cup {ip}, !.hits = @ + 1, !.lastActivity = now]

Stale(values) == {v \in DOMAIN values : values[v].lastActivity < now - timeWindowMs}

\* _detectGlobalFanout: the values of the parameter after the access.
Accessed(values, v, ip) ==
  LET touched == Put(values, v, Touched(values, v, ip))
  IN  Drop(touched, Stale(touched))

FannedOut(values) ==
  /\ Cardinality(UNION {values[v].ips : v \in DOMAIN values}) >= minDistinctIps
  /\ SumFunction([v \in DOMAIN values |-> values[v].hits]) >= minHitsForFanout

-----------------------------------------------------------------------------
Init ==
  /\ now = 0
  /\ paramClasses \in Classes /\ historyMaxLen \in Lengths
  /\ matchers = None /\ signature = None
  /\ rings = EmptyMap /\ resources = Empty
  /\ log = <<>>

\* _getClassMatchers: classes that are what they were are not compiled again.
Compiled ==
  IF matchers = None /\ signature # paramClasses THEN paramClasses ELSE matchers

\* A parameter that is in no class counts as an id.
ClassOf(key) == IF key \in DOMAIN Compiled THEN Compiled[key] ELSE "id"

\* The work of check on one id: the state it works on is [rings, resources, flags].
Id(s, ip, key, v) ==
  LET class == ClassOf(key)
      k     == <<ip, key, class>>
      ring  == IF MapHas(s.rings, k) THEN s.rings.of[k] ELSE NewRing
      entry == [val |-> v, at |-> now]
      after == [Pushed(ring, entry) EXCEPT !.lastActivity = now,
                  !.sizes = @ \cup {historyMaxLen}, !.seen = Append(@, entry)]
      known == IF key \in DOMAIN s.resources THEN s.resources[key] ELSE Empty
      values == Accessed(known, v, ip)
      number == v \notin Uuids
  IN  IF class = "batch" THEN s
      ELSE [rings |-> MapSet(s.rings, k, after),
            resources |-> IF class = "id" THEN Put(s.resources, key, values) ELSE s.resources,
            flags |-> s.flags
              \cup Flag("sequential_scraping", number /\ Sequential(Entries(after), class))
              \cup Flag("param_velocity_spike", number /\ Spike(Entries(after)))
              \cup Flag("distributed_scraping", class = "id" /\ FannedOut(values))]

Check(q) ==
  LET after == FoldLeft(LAMBDA s, p : Id(s, q.ip, p[1], p[2]),
                        [rings |-> rings, resources |-> resources, flags |-> {}], q.ids)
  IN  /\ Len(log) < MaxCalls /\ now <= LastActivity
      /\ q.ids # <<>>
      /\ matchers' = Compiled
      /\ signature' = IF matchers = None THEN paramClasses ELSE signature
      /\ IF Compiled = None    \* classifyParam throws a TypeError
         THEN /\ log' = Append(log, [q |-> q, at |-> now, flags |-> {"TypeError"}])
              /\ UNCHANGED <<rings, resources>>
         ELSE /\ rings' = after.rings /\ resources' = after.resources
              /\ log' = Append(log, [q |-> q, at |-> now, flags |-> after.flags])
      /\ UNCHANGED <<now, paramClasses, historyMaxLen>>

\* setConfig, and _loadConfig when the file changes.
Configure(classes, length) ==
  /\ paramClasses' = classes /\ historyMaxLen' = length /\ matchers' = None
  /\ UNCHANGED <<now, signature, rings, resources, log>>

\* The parameters in uses beyond the limit, least recently active first, the first inserted
\* first among equals.
Excess(uses, limit) ==
  LET place(k)    == CHOOSE n \in DOMAIN rings.keys : rings.keys[n] = k
      older(j, k) == \/ uses[j].lastActivity < uses[k].lastActivity
                     \/ uses[j].lastActivity = uses[k].lastActivity /\ place(j) < place(k)
  IN  {k \in DOMAIN uses :
         Cardinality({j \in DOMAIN uses : older(j, k)}) < Cardinality(DOMAIN uses) - limit}

\* _cleanup.  Each parameter keeps the values asked for within resourceTtlMs; of
\* parameters beyond the limit those with the latest activity stay.
Cleanup ==
  LET dead   == {k \in DOMAIN rings.of : rings.of[k].lastActivity < now - paramHistoryTtlMs}
      kept   == [key \in DOMAIN resources |-> Drop(resources[key],
                   {v \in DOMAIN resources[key] :
                      resources[key][v].lastActivity < now - resourceTtlMs})]
      used   == {key \in DOMAIN kept : DOMAIN kept[key] # {}}
      last(key) == CHOOSE t \in 0 .. now :
                     /\ \E v \in DOMAIN kept[key] : kept[key][v].lastActivity = t
                     /\ \A v \in DOMAIN kept[key] : kept[key][v].lastActivity <= t
  IN  /\ rings' = MapDelete(rings, dead \cup Excess(Drop(rings.of, dead), maxParamKeys))
      /\ \E stay \in SUBSET used :
           /\ Cardinality(stay) = IF Cardinality(used) < maxResources
                                  THEN Cardinality(used) ELSE maxResources
           /\ \A j \in stay, k \in used \ stay : last(k) <= last(j)
           /\ resources' = [key \in stay |-> kept[key]]
      /\ UNCHANGED <<now, paramClasses, historyMaxLen, matchers, signature, log>>

Tick ==
  /\ now < MaxTime /\ now' = now + 1
  /\ UNCHANGED <<paramClasses, historyMaxLen, matchers, signature, rings, resources, log>>

Next ==
  \/ \E q \in Requests : Check(q)
  \/ \E classes \in Classes, length \in Lengths : Configure(classes, length)
  \/ Cleanup
  \/ Tick

Spec == Init /\ [][Next]_vars

\* Time passes and the cleanup's interval fires.
FairSpec == Spec /\ WF_vars(Cleanup) /\ WF_vars(Tick)

-----------------------------------------------------------------------------
\* Type correctness.
TypeOK ==
  /\ now \in 0 .. MaxTime /\ historyMaxLen \in Lengths
  /\ {matchers, signature} \subseteq Classes \cup {None}
  /\ MapOrdered(rings)
  /\ \A k \in DOMAIN rings.of :
       /\ rings.of[k].count <= Len(rings.of[k].buf)
       /\ rings.of[k].head < Len(rings.of[k].buf)
       /\ rings.of[k].lastActivity \in 0 .. now

\* As long as its length is the same a ring yields, in order, the last values that
\* were pushed into it, however often it has gone round.
RingExact ==
  \A k \in DOMAIN rings.of :
    LET r == rings.of[k] IN
    \A n \in r.sizes : r.sizes = {n} =>
      Entries(r) = SubSeq(r.seen, IF Len(r.seen) > n THEN Len(r.seen) - n + 1 ELSE 1, Len(r.seen))

\* Of the calls that come to an end no distributed scraping goes unnoticed: a call that
\* makes an id parameter reach both limits within the window says so, as long as the
\* cleanup has not had to choose among parameters and the window is shorter than the life
\* of a value.  A call that ends in a TypeError neither counts nor notices, and once the
\* configuration was read again with its classes unchanged (sequence-anomaly.js:194)
\* every call does: the property says nothing of them, ReloadHarmless does.
FanoutNoticed ==
  \A n \in DOMAIN log :
    LET c == log[n] IN
    \A p \in {c.q.ids[i] : i \in DOMAIN c.q.ids} :
      LET hits == {<<m, i>> \in (1 .. n) \X (1 .. 3) :
                     /\ i \in DOMAIN log[m].q.ids /\ log[m].q.ids[i][1] = p[1]
                     /\ log[m].at >= c.at - timeWindowMs
                     /\ "TypeError" \notin log[m].flags}
      IN  /\ Cardinality(hits) >= minHitsForFanout
          /\ Cardinality({log[h[1]].q.ip : h \in hits}) >= minDistinctIps
          /\ \A classes \in Classes : p[1] \notin DOMAIN classes \/ classes[p[1]] = "id"
          /\ "TypeError" \notin c.flags
          => "distributed_scraping" \in c.flags

\* What the header says of the settings, "with hot-reload and runtime override via
\* setConfig()" (sequence-anomaly.js:14): a call after either of them is checked like any
\* other.  The code violates it: the invalidation forgets the matchers and not what they were
\* compiled from, so that classes that stay as they were are not compiled again.
ReloadHarmless == \A n \in DOMAIN log : "TypeError" \notin log[n].flags

\* Nothing is remembered of clients that have been silent long enough.
NothingKept == rings = EmptyMap /\ resources = Empty
=============================================================================
