--------------------------- MODULE SessionAnomaly ---------------------------
(***************************************************************************)
(* src/modules/session-anomaly.js: what check remembers of a session and   *)
(* of an address, and the indicators it derives from that memory.          *)
(*                                                                         *)
(* check has no await, so one call is one step.  Each detector has a       *)
(* switch in config.features; Inputs maps every setting of the switches    *)
(* under study to the requests that reach it.  The engine supplies no      *)
(* session id, no location and no fingerprint; other callers of check do.  *)
(***************************************************************************)
EXTENDS Integers, Functions, Maps

CONSTANTS
  Ids, NoId,            \* session ids; none, or one that is not well formed
  Inputs,               \* set of switches -> set of requests
  None,                 \* an absent value
  SensitiveChoices,     \* values config.sensitivePaths may be given
  ApiPaths, PublicPaths,\* paths under /api/, those with /public/ in them
  Distance,             \* kilometres between two cities
  ScreenShift,          \* pairs of screens: area by 20 per cent, not the shape
  maxSessionAgeMs, ipSessionTtlMs, maxIpSessions, ipSessionWindowMs,
  farmPerIp, errorSpikeCount, bucketMs, errorBucketCount,
  sessionIpFlood, sessionIpFloodCap, lateralMovementIds, lateralMovementCap,
  distinctPaths, rateWindowMs, orphanApiWindow, historySize,
  shortWindowMs, longWindowMs, shortKmh, midKmh, longKmh,
  rapidMobileMs, rapidDesktopMs, noCityMs,
  LastActivity,         \* bound: when clients fall silent
  MaxCalls, MaxTime     \* bounds of the log and of the clock

\* Of the constants.
SessionAssumption ==
  /\ {maxSessionAgeMs, ipSessionTtlMs, maxIpSessions, bucketMs,
      errorBucketCount, historySize} \subseteq Nat \ {0}
  /\ PublicPaths \subseteq ApiPaths

VARIABLES
  now,
  features,    \* the switches that are on
  sensitivePaths, regexps, signature,  \* the setting, what is compiled, of what
  sessions,    \* SESSION_DATA
  graphs,      \* SESSION_GRAPHS
  resources,   \* RESOURCE_ACCESS: session -> parameter -> values
  ipMap,       \* IP_SESSION_MAP, in order of insertion
  log          \* the calls made, each with the indicators it returned

vars == <<now, features, sensitivePaths, regexps, signature, sessions, graphs,
          resources, ipMap, log>>

On(feature)  == feature \in features
Flag(f, test) == IF test THEN {f} ELSE {}

-----------------------------------------------------------------------------
(* Errors: a ring of buckets, of which `offset` is current.                *)

Buckets == 0 .. errorBucketCount - 1

NoErrors == [buckets |-> [i \in Buckets |-> 0], offset |-> 0, start |-> now]

\* Mutant: the buckets left keep what they counted until the ring comes round.
SlidKeeping(e) ==
  LET k == (now - e.start) \div bucketMs
  IN  [e EXCEPT !.start = @ + k * bucketMs, !.offset = (@ + k) % errorBucketCount]

\* while (now - start >= bucketMs): the bucket left is zeroed, then the next one
\* becomes current.
Slid(e) ==
  LET k    == (now - e.start) \div bucketMs
      left == {(e.offset + j) % errorBucketCount : j \in 0 .. k - 1}
  IN  [buckets |-> [i \in Buckets |-> IF i \in left THEN 0 ELSE e.buckets[i]],
       offset  |-> (e.offset + k) % errorBucketCount,
       start   |-> e.start + k * bucketMs]

ErrorsAfter(e, q) ==
  IF On("errorSpike") /\ q.clientError
  THEN LET slid == Slid(e) IN [slid EXCEPT !.buckets[slid.offset] = @ + 1]
  ELSE e

SpikeFlags(e, q) ==
  Flag("fuzzing_error_spike",
       On("errorSpike") /\ q.clientError /\ SumFunction(e.buckets) > errorSpikeCount)

-----------------------------------------------------------------------------
(* Sensitive paths: compiled when asked for, forgotten when a setting of   *)
(* any kind changes.                                                       *)

\* _getSensitivePathRegexps: the same paths as last time are not compiled again.
Compiled ==
  IF regexps # None THEN regexps
  ELSE IF signature = sensitivePaths THEN {} ELSE sensitivePaths

SensitiveFlags(q) ==
  IF ~On("sensitiveReferer") \/ q.path \notin Compiled THEN {}
  ELSE Flag("sensitive_no_referer", q.referer = None)
       \cup Flag("cross_origin_sensitive", q.referer = "other")

-----------------------------------------------------------------------------
(* Lineage, resources, location, fingerprint, addresses.                   *)

\* The last n entries of a list.
LastOf(list, n) == SubSeq(list, IF Len(list) > n THEN Len(list) - n + 1 ELSE 1, Len(list))

\* history: the entries before this one.
LineageFlags(history, q) ==
  LET recent == {i \in DOMAIN history :
                   \A j \in i .. Len(history) : history[j].at >= now - rateWindowMs}
      window == LastOf(history, orphanApiWindow)
  IN  IF ~On("requestLineage") THEN {}
      ELSE Flag("orphan_api_call",
                /\ q.path \in ApiPaths \ PublicPaths
                /\ \A i \in DOMAIN window : window[i].path \in ApiPaths)
           \cup Flag("rate_velocity",
                Len(history) >= 2
                /\ Cardinality({history[i].path : i \in recent}) >= distinctPaths)

HistoryAfter(history, q) ==
  LastOf(Append(history, [path |-> q.path, at |-> now]), historySize)

\* Mutant: the cap is not tested.
AccessAfterUncapped(access, q) ==
  [n \in DOMAIN access \cup DOMAIN q.params |->
     (IF n \in DOMAIN access THEN access[n] ELSE {})
       \cup (IF n \in DOMAIN q.params THEN {q.params[n]} ELSE {})]

\* q.params: the parameters that name one resource, each with its value.
AccessAfter(access, q) ==
  [n \in DOMAIN access \cup DOMAIN q.params |->
     LET known == IF n \in DOMAIN access THEN access[n] ELSE {}
     IN  IF n \in DOMAIN q.params /\ Cardinality(known) < lateralMovementCap
         THEN known \cup {q.params[n]} ELSE known]

LateralFlags(access, q) ==
  Flag("lateral_movement",
       On("lateralMovement")
       /\ \E n \in DOMAIN q.params : Cardinality(access[n]) > lateralMovementIds)

Threshold(ms) ==
  IF ms < shortWindowMs THEN shortKmh ELSE IF ms > longWindowMs THEN longKmh ELSE midKmh

\* Kilometres per millisecond against the threshold, without the division.
TooFast(from, to, ms) ==
  Distance[from, to] > Threshold(ms) * ms

\* checkGeoVelocity: where the session was last, on a mobile device or not; a
\* country and a city may be unknown.
GeoFlags(last, mobile, q) ==
  LET ms       == now - last.at
      switched == q.geo.country # last.country
      cities   == q.geo.city # None /\ last.city # None
  IN  IF ~On("geoVelocity") \/ ms <= 0 \/ None \in {q.geo.country, last.country} THEN {}
      ELSE Flag(IF q.vpn THEN "vpn_node_switch" ELSE "impossible_travel",
                cities /\ TooFast(last.city, q.geo.city, ms))
           \cup Flag("rapid_country_switch_no_city",
                ~cities /\ switched /\ ms < noCityMs /\ ~q.vpn)
           \cup Flag(IF q.vpn THEN "vpn_country_switch" ELSE "rapid_country_switch",
                switched /\ ms < (IF mobile THEN rapidMobileMs ELSE rapidDesktopMs))

\* checkFingerprintChange: prev and curr may lack a part.
FingerprintFlags(prev, curr) ==
  LET differs(part) == /\ prev[part] # None /\ curr[part] # None
                       /\ prev[part] # curr[part]
      ua     == differs("userAgent")
      canvas == differs("canvas")
      screen == differs("screen") /\ <<prev.screen, curr.screen>> \in ScreenShift
      weight == (IF ua THEN 2 ELSE 0) + (IF canvas THEN 3 ELSE 0) + (IF screen THEN 2 ELSE 0)
  IN  IF ~On("fingerprintChange") THEN {}
      ELSE Flag("ua_changed", ua) \cup Flag("canvas_changed", canvas)
           \cup Flag("screen_changed", screen) \cup Flag("fingerprint_takeover", weight >= 5)

\* An address is stamped, a known one again, only while there is room.
IpsAfter(ips, q) ==
  LET recent == Drop(ips, {i \in DOMAIN ips : ips[i] < now - ipSessionWindowMs})
  IN  IF ~On("sessionIpFlood") THEN ips
      ELSE IF Cardinality(DOMAIN recent) < sessionIpFloodCap
      THEN Put(recent, q.ip, now) ELSE recent

\* IP_SESSION_MAP after a call of session s.
IpMapAfter(q, s) ==
  LET known == IF MapHas(ipMap, q.ip) THEN ipMap.of[q.ip].sessions ELSE {}
  IN  IF On("credentialStuffing")
      THEN MapSet(ipMap, q.ip, [sessions |-> known \cup {s}, lastUsed |-> now])
      ELSE ipMap

-----------------------------------------------------------------------------
Init ==
  /\ now = 0
  /\ features \in DOMAIN Inputs
  /\ sensitivePaths \in SensitiveChoices /\ regexps = None /\ signature = None
  /\ sessions = Empty /\ graphs = Empty /\ resources = Empty
  /\ ipMap = EmptyMap
  /\ log = <<>>

\* Ids a call may work on: its own, or one just drawn at random.
SessionOf(q) ==
  IF q.id # NoId THEN {q.id} ELSE Ids \ {log[i].id : i \in DOMAIN log}

NewSession(mobile) ==
  [firstSeen |-> now, lastSeen |-> now, mobile |-> mobile, ips |-> Empty, location |-> None,
   fingerprint |-> None, errors |-> NoErrors]

Check(q) == \E s \in SessionOf(q) :
  /\ Len(log) < MaxCalls /\ now <= LastActivity
  /\ LET data    == IF s \in DOMAIN sessions THEN sessions[s] ELSE NewSession(q.mobile)
         history == IF s \in DOMAIN graphs THEN graphs[s] ELSE <<>>
         access  == IF s \in DOMAIN resources THEN resources[s] ELSE Empty
         after   == [data EXCEPT
                       !.lastSeen = now,
                       !.errors   = ErrorsAfter(@, q),
                       !.location = IF q.geo = None THEN @ ELSE
                           [country |-> q.geo.country, city |-> q.geo.city, at |-> now],
                       !.fingerprint = IF q.fingerprint = None THEN @ ELSE q.fingerprint,
                       !.ips      = IpsAfter(@, q)]
         flags   ==
           Flag("credential_stuffing_farm",
                On("credentialStuffing")
                /\ Cardinality(IpMapAfter(q, s).of[q.ip].sessions) > farmPerIp)
           \cup SpikeFlags(after.errors, q)
           \cup SensitiveFlags(q)
           \cup LineageFlags(history, q)
           \cup LateralFlags(AccessAfter(access, q), q)
           \cup (IF None \in {q.geo, data.location} THEN {}
                 ELSE GeoFlags(data.location, data.mobile, q))
           \cup (IF None \in {q.fingerprint, data.fingerprint} THEN {}
                 ELSE FingerprintFlags(data.fingerprint, q.fingerprint))
           \cup Flag("session_ip_flood",
                On("sessionIpFlood") /\ Cardinality(DOMAIN after.ips) > sessionIpFlood)
     IN  /\ sessions' = Put(sessions, s, after)
         /\ graphs' = IF On("requestLineage") THEN Put(graphs, s, HistoryAfter(history, q))
                      ELSE graphs
         /\ resources' = IF On("lateralMovement") THEN Put(resources, s, AccessAfter(access, q))
                         ELSE resources
         /\ log' = Append(log, [id |-> s, at |-> now, q |-> q, flags |-> flags,
                                sensitive |-> sensitivePaths])
  /\ ipMap' = IpMapAfter(q, s)
  /\ IF On("sensitiveReferer")
     THEN /\ regexps' = IF regexps = None /\ signature = sensitivePaths THEN None ELSE Compiled
          /\ signature' = IF regexps = None THEN sensitivePaths ELSE signature
     ELSE UNCHANGED <<regexps, signature>>
  /\ UNCHANGED <<now, features, sensitivePaths>>

\* setConfig, and _loadConfig when the file changes; the paths may stay as they are.
Configure(paths) ==
  /\ On("sensitiveReferer")
  /\ sensitivePaths' = paths /\ regexps' = None
  /\ UNCHANGED <<now, features, signature, sessions, graphs, resources, ipMap, log>>

\* Mutant: the lineage of a session outlives it.
ForgottenSessionsOnly(table, dead) == table

Forgotten(table, dead) == Drop(table, dead)

\* The addresses in uses, in order of use, the first inserted first among equals, that
\* exceed the limit.
Excess(uses) ==
  LET place(i)    == CHOOSE n \in DOMAIN ipMap.keys : ipMap.keys[n] = i
      older(i, j) == \/ uses[i].lastUsed < uses[j].lastUsed
                     \/ uses[i].lastUsed = uses[j].lastUsed /\ place(i) < place(j)
  IN  {i \in DOMAIN uses :
         Cardinality({j \in DOMAIN uses : older(j, i)}) < Cardinality(DOMAIN uses) - maxIpSessions}

\* _cleanup, by its interval or by the setImmediate of a check past maxSessions.
Cleanup ==
  LET dead    == {s \in DOMAIN sessions : sessions[s].lastSeen < now - maxSessionAgeMs}
      alive   == DOMAIN sessions \ dead
      unused  == {i \in DOMAIN ipMap.of : \/ ipMap.of[i].lastUsed < now - ipSessionTtlMs
                                          \/ ipMap.of[i].sessions \cap alive = {}}
      kept    == MapDelete(ipMap, unused \cup Excess(Drop(ipMap.of, unused)))
  IN  /\ sessions' = Drop(sessions, dead)
      /\ graphs' = Forgotten(graphs, dead)
      /\ resources' = Forgotten(resources, dead)
      /\ ipMap' = [kept EXCEPT !.of = [i \in DOMAIN @ |-> [@[i] EXCEPT !.sessions = @ \cap alive]]]
      /\ UNCHANGED <<now, features, sensitivePaths, regexps, signature, log>>

Tick ==
  /\ now < MaxTime
  /\ now' = now + 1
  /\ UNCHANGED <<features, sensitivePaths, regexps, signature, sessions, graphs,
                 resources, ipMap, log>>

Next ==
  \/ \E q \in Inputs[features] : Check(q)
  \/ \E paths \in SensitiveChoices : Configure(paths)
  \/ Cleanup
  \/ Tick

Spec == Init /\ [][Next]_vars

\* Time passes and the interval fires; nobody owes a request.
FairSpec == Spec /\ WF_vars(Tick) /\ WF_vars(Cleanup)

-----------------------------------------------------------------------------
Indicators ==
  {"credential_stuffing_farm", "fuzzing_error_spike", "sensitive_no_referer",
   "cross_origin_sensitive", "orphan_api_call", "rate_velocity", "lateral_movement",
   "vpn_node_switch", "impossible_travel", "rapid_country_switch_no_city",
   "vpn_country_switch", "rapid_country_switch", "ua_changed", "canvas_changed",
   "screen_changed", "fingerprint_takeover", "session_ip_flood"}

\* Type correctness, and the bounds the code sets: rings, lists and sets keep to
\* their limits.  (SESSION_DATA itself has none but the age of its entries.)
TypeOK ==
  /\ now \in 0 .. MaxTime /\ sensitivePaths \in SensitiveChoices
  /\ {regexps, signature} \subseteq SensitiveChoices \cup {None}
  /\ DOMAIN sessions \subseteq Ids
  /\ \A s \in DOMAIN sessions :
       /\ sessions[s].firstSeen <= sessions[s].lastSeen /\ sessions[s].lastSeen <= now
       /\ sessions[s].errors.buckets \in [Buckets -> 0 .. MaxCalls]
       /\ sessions[s].errors.offset \in Buckets
       /\ Cardinality(DOMAIN sessions[s].ips) <= sessionIpFloodCap
  /\ \A s \in DOMAIN graphs : Len(graphs[s]) <= historySize
  /\ \A s \in DOMAIN resources : \A n \in DOMAIN resources[s] :
       Cardinality(resources[s][n]) <= lateralMovementCap
  /\ MapOrdered(ipMap)
  /\ \A i \in DOMAIN log : log[i].flags \subseteq Indicators

\* What session s has done since it was first seen.
Own(s) == SelectSeq(log, LAMBDA e : e.id = s /\ e.at >= sessions[s].firstSeen)

Members(list) == {list[i] : i \in DOMAIN list}

\* What is kept of a session is what it did since it was first seen: the last
\* historySize pages in order, and, as long as they stay below their caps, every value and
\* every address of the window.  Of its errors only those of the current bucket count: the
\* ring has errorBucketCount buckets, for a "sliding bucket window instead of single
\* counter+reset" (session-anomaly.js:35), but a bucket is zeroed when it is left (535 to
\* 539), so that errors of two buckets are never added up and the count is, against
\* that comment and the detail of line 550, one of a single bucket.  The
\* tables keyed by session speak of sessions that are kept, after any interleaving
\* of checks, which write all of them, and cleanups, which prune each by its own rule.
SessionMemory ==
  /\ DOMAIN graphs \cup DOMAIN resources \subseteq DOMAIN sessions
  /\ \A i \in DOMAIN ipMap.of :
       ipMap.of[i].sessions # {} /\ ipMap.of[i].sessions \subseteq DOMAIN sessions
  /\ \A s \in DOMAIN sessions :
       LET own    == Own(s)
           kept   == sessions[s]
           valuesOf(n) == {e.q.params[n] : e \in {e \in Members(own) : n \in DOMAIN e.q.params}}
           ips    == {e.q.ip : e \in Members(own)}
       IN  /\ On("requestLineage") =>
                graphs[s] = LastOf([i \in DOMAIN own |->
                               [path |-> own[i].q.path, at |-> own[i].at]], historySize)
           /\ On("errorSpike") =>
                SumFunction(kept.errors.buckets) =
                  Cardinality({i \in DOMAIN own :
                     own[i].q.clientError /\ own[i].at >= kept.errors.start})
           /\ On("lateralMovement") => \A n \in DOMAIN resources[s] :
                /\ resources[s][n] \subseteq valuesOf(n)
                /\ Cardinality(valuesOf(n)) <= lateralMovementCap => resources[s][n] = valuesOf(n)
           /\ On("sessionIpFlood") /\ Cardinality(ips) < sessionIpFloodCap =>
                {e.q.ip : e \in {e \in Members(own) : e.at >= now - ipSessionWindowMs}}
                  \subseteq DOMAIN kept.ips

\* No indicator without its cause: whatever was forgotten, evicted or compiled in
\* between, an indicator a call returns is borne out by the calls made before it.
FlagsEarned ==
  log # <<>> =>
  LET n       == Len(log)
      e       == log[n]
      own     == SelectSeq(log, LAMBDA c : c.id = e.id)
      before  == Members(SubSeq(own, 1, Len(own) - 1))
      within(ms) == {c \in Members(own) : c.at >= e.at - ms}
      raised(f)  == f \in e.flags
  IN  /\ raised("credential_stuffing_farm") =>
           Cardinality({c.id : c \in {c \in Members(log) : c.q.ip = e.q.ip}}) > farmPerIp
      /\ raised("fuzzing_error_spike") =>
           Cardinality({i \in DOMAIN own : own[i].q.clientError
              /\ own[i].at >= e.at - bucketMs * errorBucketCount}) > errorSpikeCount
      /\ {"sensitive_no_referer", "cross_origin_sensitive"} \cap e.flags # {} =>
           e.q.path \in e.sensitive
      /\ raised("orphan_api_call") =>
           \A i \in DOMAIN own : i \in Len(own) - orphanApiWindow .. Len(own) - 1
             /\ own[i].at >= e.at - maxSessionAgeMs => own[i].q.path \in ApiPaths
      /\ raised("rate_velocity") =>
           Cardinality({c.q.path : c \in within(rateWindowMs)}) >= distinctPaths
      /\ raised("lateral_movement") => \E p \in DOMAIN e.q.params :
           Cardinality({c.q.params[p] : c \in {c \in Members(own) : p \in DOMAIN c.q.params}})
             > lateralMovementIds
      /\ raised("session_ip_flood") =>
           Cardinality({c.q.ip : c \in within(ipSessionWindowMs)}) > sessionIpFlood
      /\ raised("rapid_country_switch") => \E c \in before :
           /\ c.at >= e.at - (IF rapidMobileMs > rapidDesktopMs THEN rapidMobileMs ELSE rapidDesktopMs)
           /\ c.q.geo # None /\ c.q.geo.country # e.q.geo.country
      /\ raised("impossible_travel") => \E c \in before :
           /\ c.q.geo # None /\ c.q.geo.city # None
           /\ TooFast(c.q.geo.city, e.q.geo.city, e.at - c.at)
      /\ raised("fingerprint_takeover") => \E c \in before :
           /\ c.q.fingerprint # None
           /\ Cardinality({p \in {"userAgent", "canvas", "screen"} :
                 c.q.fingerprint[p] # e.q.fingerprint[p]}) >= 2

\* Every session, and every address, is forgotten in the end once clients are
\* silent: the cleanup leaves no table an entry no later cleanup would find.
NothingKept == sessions = Empty /\ graphs = Empty /\ resources = Empty /\ ipMap = EmptyMap
=============================================================================
