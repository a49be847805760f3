-------------------------- MODULE AdaptiveBaselines --------------------------
(***************************************************************************)
(* src/modules/adaptive-baselines.js: what is normal for a path, learnt    *)
(* from the requests to it.  check has no await.  The engine calls it when *)
(* its option is on; the body is a string by then and adds no parameters.  *)
(***************************************************************************)
EXTENDS Integers, Maps

CONSTANTS
  Paths,
  Requests,            \* a path, a method, the parameters with type and length
  MAX_BASELINES, MAX_KNOWN_PARAMS, LEARNING_THRESHOLD,
  learnPct, detectPct, \* EWMA_ALPHA_LEARN and EWMA_ALPHA_DETECT in per cent
  floor,               \* 5 parameters are never too many
  manyUnknown,         \* 3
  idleMs,
  LastActivity,        \* bound: when clients fall silent
  MaxCalls, MaxTime    \* bounds of the log and of the clock

\* Of the constants.
BaselinesAssumption ==
  /\ {MAX_KNOWN_PARAMS, LEARNING_THRESHOLD, MaxTime} \subseteq Nat /\ MAX_BASELINES \in Nat \ {0}
  /\ \A q \in Requests : IsFiniteSet(DOMAIN q.params)

VARIABLES
  now,
  baselines,   \* BASELINES, least recently used first
  log          \* the calls made, each with what it returned

vars == <<now, baselines, log>>

Flag(f, test) == IF test THEN {f} ELSE {}

-----------------------------------------------------------------------------
(* Averages are fractions num / den: the code's are floating point.        *)

Average(x) == [num |-> x, den |-> 1]

Moved(avg, x, pct) ==
  [num |-> avg.num * (100 - pct) + x * pct * avg.den, den |-> avg.den * 100]

\* x is more than factor times the average, plus some.
Above(x, avg, factor, plus) == (x - plus) * avg.den > factor * avg.num

-----------------------------------------------------------------------------
\* Mutant: a path that is used again keeps its place in the order of eviction.
GetBaselineInPlace(path) ==
  LET room == IF MapHas(baselines, path) \/ MapSize(baselines) < MAX_BASELINES
              THEN baselines ELSE MapDeleteFirst(baselines)
  IN  MapSet(room, path,
        IF MapHas(baselines, path) THEN baselines.of[path]
        ELSE [count |-> 0, avgParams |-> Average(0), knownParams |-> Empty, methods |-> {},
              lastSeen |-> now, born |-> Len(log) + 1])

\* getBaseline: the path becomes the last one used.
GetBaseline(path) ==
  LET met  == MapHas(baselines, path)
      room == IF met THEN MapDelete(baselines, {path})
              ELSE IF MapSize(baselines) >= MAX_BASELINES THEN MapDeleteFirst(baselines)
              ELSE baselines
  IN  MapSet(room, path,
        IF met THEN [baselines.of[path] EXCEPT !.lastSeen = now]
        ELSE [count |-> 0, avgParams |-> Average(0), knownParams |-> Empty, methods |-> {},
              lastSeen |-> now, born |-> Len(log) + 1])

\* A parameter after a request: an average of zero starts again.
Profile(known, p, value, pct) ==
  LET old == IF p \in DOMAIN known THEN known[p] ELSE [types |-> {}, avgLen |-> Average(0)]
  IN  [types  |-> old.types \cup {value.type},
       avgLen |-> IF old.avgLen.num = 0 THEN Average(value.len)
                  ELSE Moved(old.avgLen, value.len, pct)]

\* What may be admitted: all that is new, or, by its place in the request, as much
\* of it as there is room for.
Admissible(known, params) ==
  LET new  == DOMAIN params \ DOMAIN known
      room == MAX_KNOWN_PARAMS - Cardinality(DOMAIN known)
  IN  IF Cardinality(new) <= room THEN {new}
      ELSE {S \in SUBSET new : Cardinality(S) = room}

ParamFlags(known, kept, params) ==
  LET profile(p) == IF p \in DOMAIN known THEN known[p]
                    ELSE [types |-> {}, avgLen |-> Average(0)]
  IN  Flag("param_type_anomaly", \E p \in kept :
             /\ params[p].type = "string"
             /\ profile(p).types # {} /\ "string" \notin profile(p).types)
      \cup Flag("param_length_anomaly", \E p \in kept :
             Above(params[p].len, profile(p).avgLen, 5, 20))

Init == now = 0 /\ baselines = EmptyMap /\ log = <<>>

Check(q) ==
  LET opened == GetBaseline(q.path)
      b      == opened.of[q.path]
      count  == b.count + 1
      pct    == IF count <= LEARNING_THRESHOLD THEN learnPct ELSE detectPct
      asked  == Cardinality(DOMAIN q.params)
      avg    == IF count = 1 THEN Average(asked) ELSE Moved(b.avgParams, asked, pct)
  IN  /\ Len(log) < MaxCalls /\ now <= LastActivity
      /\ \E admitted \in Admissible(b.knownParams, q.params) :
           LET known == DOMAIN b.knownParams \cup admitted
               kept  == DOMAIN q.params \cap known
               flags ==
                 IF count < LEARNING_THRESHOLD THEN {}
                 ELSE ParamFlags(b.knownParams, kept, q.params)
                      \cup Flag("param_count_anomaly", asked > floor /\ Above(asked, avg, 3, 0))
                      \cup Flag("unknown_params_anomaly",
                             Cardinality(DOMAIN q.params \ known) > manyUnknown)
                      \cup Flag("unusual_method_anomaly",
                             q.method \notin b.methods \cup {q.method})
           IN  /\ baselines' = [opened EXCEPT !.of[q.path] =
                    [count |-> count, avgParams |-> avg, lastSeen |-> b.lastSeen,
                     born |-> b.born, methods |-> b.methods \cup {q.method},
                     knownParams |-> [p \in known |->
                       IF p \in kept THEN Profile(b.knownParams, p, q.params[p], pct)
                       ELSE b.knownParams[p]]]]
               /\ log' = Append(log, [q |-> q, at |-> now, flags |-> flags])
      /\ UNCHANGED now

\* Mutant: the collector waits for the table to be full.
CollectWhenFull ==
  /\ baselines' = IF MapSize(baselines) < MAX_BASELINES THEN baselines
                  ELSE MapDelete(baselines,
                    {p \in DOMAIN baselines.of : now - baselines.of[p].lastSeen > idleMs})
  /\ UNCHANGED <<now, log>>

\* The collector.
Collect ==
  /\ baselines' = MapDelete(baselines,
       {p \in DOMAIN baselines.of : now - baselines.of[p].lastSeen > idleMs})
  /\ UNCHANGED <<now, log>>

Tick == now < MaxTime /\ now' = now + 1 /\ UNCHANGED <<baselines, log>>

Next == (\E q \in Requests : Check(q)) \/ Collect \/ Tick

Spec == Init /\ [][Next]_vars

\* Time passes and the collector's interval fires.
FairSpec == Spec /\ WF_vars(Collect) /\ WF_vars(Tick)

-----------------------------------------------------------------------------
\* Type correctness and the limits of both tables.
TypeOK ==
  /\ now \in 0 .. MaxTime
  /\ MapOrdered(baselines) /\ MapSize(baselines) <= MAX_BASELINES
  /\ \A p \in DOMAIN baselines.of :
       /\ Cardinality(DOMAIN baselines.of[p].knownParams) <= MAX_KNOWN_PARAMS
       /\ baselines.of[p].lastSeen \in 0 .. now

\* The baseline of a path stands for every request to it since it was opened, with
\* the types of every parameter it admitted; the paths kept are the most recently
\* requested, in that order, whatever was evicted and collected before; and nothing
\* is reported of a path that is still being learnt.
BaselinesExact ==
  /\ \A p \in DOMAIN baselines.of :
       LET b    == baselines.of[p]
           own  == {n \in DOMAIN log : n >= b.born /\ log[n].q.path = p}
           with(k) == {n \in own : k \in DOMAIN log[n].q.params}
       IN  /\ b.count = Cardinality(own)
           /\ b.methods = {log[n].q.method : n \in own}
           /\ \A k \in DOMAIN b.knownParams :
                b.knownParams[k].types = {log[n].q.params[k].type : n \in with(k)}
           /\ Cardinality(DOMAIN b.knownParams) < MAX_KNOWN_PARAMS =>
                DOMAIN b.knownParams = UNION {DOMAIN log[n].q.params : n \in own}
           /\ b.count < LEARNING_THRESHOLD => \A n \in own : log[n].flags = {}
  /\ \A i, j \in DOMAIN baselines.keys : i < j =>
       \E n \in DOMAIN log : /\ log[n].q.path = baselines.keys[j]
                             /\ \A m \in n .. Len(log) : log[m].q.path # baselines.keys[i]

\* Paths nobody asks for are forgotten.
NothingKept == baselines = EmptyMap
=============================================================================
