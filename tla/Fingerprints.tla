----------------------------- MODULE Fingerprints -----------------------------
(***************************************************************************)
(* src/modules/reputation.js, what FingerprintTracker remembers, and       *)
(* src/modules/fingerprinter.js, the analysis of a request that asks it.   *)
(* Neither has an await: one call is one step.                             *)
(***************************************************************************)
EXTENDS Integers, Functions, Maps

CONSTANTS
  IPs, Unknown,        \* addresses; an address that is not well formed
  Ja3s,                \* JA3 strings
  None,                \* a header that is absent or not well formed
  Ja4l,                \* the fingerprint of a JA3 string
  Requests,            \* what may be sent
  SecretSet,           \* GATEWAY_SECRET is set
  ttlMs, maxHistory,   \* the window of the drift and its length
  coldStart,           \* 100 samples before anything is rare
  RarityLevels,        \* rarest first: less than num in den scores score
  decayAbove, ONE_HOUR,
  caps, blockThreshold,
  LastActivity,        \* bound: when clients fall silent
  MaxCalls, MaxTime    \* bounds of the log and of the clock

\* Of the constants.  One other fingerprint among more than a hundred would be a drift
\* of zero.
PrintsAssumption ==
  /\ {ttlMs, ONE_HOUR, MaxTime, caps.behavioral} \subseteq Nat /\ ttlMs > 0
  /\ maxHistory \in 1 .. 101
  /\ \A q \in Requests : q.ip \in IPs \cup {Unknown}
  /\ RarityLevels \in Seq([num : Nat, den : Nat, score : Nat])

VARIABLES
  now,
  history,     \* address -> fingerprints with their time
  popularity,  \* fingerprint -> how often
  totalSeen, lastDecayAt,
  log          \* the calls that got as far as a fingerprint, with their result

vars == <<now, history, popularity, totalSeen, lastDecayAt, log>>

Least(a, b) == IF a < b THEN a ELSE b

-----------------------------------------------------------------------------
Count(fp) == IF fp \in DOMAIN popularity THEN popularity[fp] ELSE 0

\* getRarityScore
RarityScore(fp) ==
  LET below == {i \in DOMAIN RarityLevels :
                  Count(fp) * RarityLevels[i].den < RarityLevels[i].num * totalSeen}
  IN  IF totalSeen < coldStart \/ below = {} THEN 0
      ELSE RarityLevels[CHOOSE i \in below : \A j \in below : i <= j].score

Within(list) == Without(list, {h \in Range(list) : now - h.ts >= ttlMs})

\* trackDrift: the list of an address after fp.
Tracked(ip, fp) ==
  LET old    == IF ip \in DOMAIN history THEN history[ip] ELSE <<>>
      recent == Within(Append(old, [fp |-> fp, ts |-> now]))
  IN  SubSeq(recent, IF Len(recent) > maxHistory THEN Len(recent) - maxHistory + 1 ELSE 1,
             Len(recent))

\* Math.round of the share of other fingerprints, 50 at most.
DriftScore(list) ==
  LET unique == Cardinality({list[i].fp : i \in DOMAIN list})
  IN  IF unique <= 1 THEN 0
      ELSE Least(50, (100 * (unique - 1) + maxHistory - 1) \div (2 * (maxHistory - 1)))

\* classify
Classify(score) ==
  IF score >= blockThreshold THEN "likely-bot"
  ELSE IF 10 * score >= 6 * blockThreshold THEN "suspicious"
  ELSE IF 10 * score >= 3 * blockThreshold THEN "elevated"
  ELSE "clean"

-----------------------------------------------------------------------------
Init ==
  /\ now = 0
  /\ history = Empty /\ popularity = Empty /\ totalSeen = 0
  /\ lastDecayAt = -ONE_HOUR - 1   \* never: the first decay need not wait
  /\ log = <<>>

\* The JA3 string a request is judged by: the gateway's only from the gateway.
Ja3Of(q) ==
  IF q.ja3 # None THEN q.ja3
  ELSE IF SecretSet /\ ~q.trusted THEN None ELSE q.gatewayJa3

EntropyScore(q) ==
  IF SecretSet /\ ~q.trusted THEN 0
  ELSE CASE q.entropy = "low" -> 30 [] q.entropy = "weak" -> 15 [] OTHER -> 0

\* _analyzeRequest: q.structure and q.consistency are what the TLS and HTTP/2
\* parameters add up to, q.greaseGap whether a Chrome comes without GREASE.  The
\* request's rarity is read before the request is counted.
AnalyzeRequest(q) ==
  LET fp         == Ja4l[Ja3Of(q)]
      list       == Tracked(q.ip, fp)
      drift      == IF q.ip = Unknown THEN 0 ELSE DriftScore(list)
      behavioral == Least(caps.behavioral,
                      Least(caps.behavioral, drift + RarityScore(fp)) + EntropyScore(q))
      structure  == Least(q.structure, caps.structure) + (IF q.greaseGap THEN 25 ELSE 0)
      sum        == structure + Least(q.consistency, caps.consistency) + behavioral
      total      == ((IF q.hosting THEN 14 ELSE 10) * sum + 5) \div 10
  IN  /\ Len(log) < MaxCalls /\ now <= LastActivity
      /\ q.headersValid /\ Ja3Of(q) # None
      /\ totalSeen' = totalSeen + 1
      /\ popularity' = Put(popularity, fp, Count(fp) + 1)
      /\ history' = IF q.ip = Unknown THEN history ELSE Put(history, q.ip, list)
      /\ log' = Append(log, [ip |-> q.ip, fp |-> fp, at |-> now, drift |-> drift,
                             rarity |-> RarityScore(fp), behavioral |-> behavioral,
                             total |-> total, class |-> Classify(total)])
      /\ UNCHANGED <<now, lastDecayAt>>

Halved(n) == n \div 2

DecayDue == totalSeen > decayAbove /\ now - lastDecayAt > ONE_HOUR

Cleanup ==
  LET gone == {ip \in DOMAIN history : Within(history[ip]) = <<>>}
      dead == {fp \in DOMAIN popularity : Halved(popularity[fp]) = 0}
  IN  /\ history' = [ip \in DOMAIN history \ gone |-> Within(history[ip])]
      /\ IF DecayDue
         THEN /\ popularity' = [fp \in DOMAIN popularity \ dead |-> Halved(popularity[fp])]
              /\ totalSeen' = totalSeen \div 2
              /\ lastDecayAt' = now
         ELSE UNCHANGED <<popularity, totalSeen, lastDecayAt>>
      /\ UNCHANGED <<now, log>>

Tick ==
  now < MaxTime /\ now' = now + 1
  /\ UNCHANGED <<history, popularity, totalSeen, lastDecayAt, log>>

Next == (\E q \in Requests : AnalyzeRequest(q)) \/ Cleanup \/ Tick

Spec == Init /\ [][Next]_vars

\* Time passes and the cleanup's interval fires.
FairSpec == Spec /\ WF_vars(Cleanup) /\ WF_vars(Tick)

-----------------------------------------------------------------------------
\* Type correctness; a behavioural score keeps to its cap.
TypeOK ==
  /\ now \in 0 .. MaxTime /\ totalSeen \in Nat /\ lastDecayAt <= now
  /\ DOMAIN history \subseteq IPs
  /\ \A ip \in DOMAIN history : Len(history[ip]) \in 1 .. maxHistory
  /\ \A fp \in DOMAIN popularity : popularity[fp] \in Nat \ {0}
  /\ \A n \in DOMAIN log : log[n].behavioral \in 0 .. caps.behavioral

\* The counts, unit by unit.
Counts == UNION {{fp} \X (1 .. popularity[fp]) : fp \in DOMAIN popularity}

\* However requests, cleanups and decays alternate, no fingerprint counts for more
\* than there is: the counts never exceed the total they are measured by, and until
\* the first decay they are exact.  What an address is charged for drifting is what
\* it sent within the window, its last maxHistory requests at most.
FingerprintsExact ==
  /\ Cardinality(Counts) <= totalSeen
  /\ lastDecayAt < 0 =>
       /\ totalSeen = Len(log)
       /\ popularity = [fp \in {log[n].fp : n \in DOMAIN log} |->
                          Cardinality({n \in DOMAIN log : log[n].fp = fp})]
  /\ \A n \in {n \in DOMAIN log : log[n].ip # Unknown} :
       LET own    == {m \in 1 .. n : log[m].ip = log[n].ip}
           window == {m \in own : /\ log[n].at - log[m].at < ttlMs
                                  /\ Cardinality({k \in own : k > m}) < maxHistory}
           unique == Cardinality({log[m].fp : m \in window})
       IN  (log[n].drift = 0) <=> (unique = 1)

\* Addresses that fall silent are forgotten: their drift histories, that is.  Popularity and
\* total are of fingerprints, and only decay ("evicts stale data", reputation.js:18, is true
\* of the histories alone).
NothingKept == history = Empty
=============================================================================
