---------------------------- MODULE BotDetection ----------------------------
(***************************************************************************)
(* src/modules/bot-detection.js: sessions of requests by address.          *)
(*                                                                         *)
(* check runs to `await lock.promise` in analyzeBehavior with the clock    *)
(* read before.  The promise is resolved when it is made, so the rest of   *)
(* the call is queued as a microtask at once and waits for nobody: `queue` *)
(* holds the calls so interrupted.  The collector, a timer, runs when no   *)
(* microtask is left.                                                      *)
(***************************************************************************)
EXTENDS Integers, Maps

CONSTANTS
  Ids,                   \* session keys: addresses, or ids where a caller has them
  Requests,              \* what may be sent
  Assets,                \* paths of scripts, styles and images
  maxSessions, maxRequests,
  rateMs, rateMax,       \* more than rateMax requests in rateMs
  runLength, runMs,      \* runLength different paths in less than runMs
  ratioLength,           \* requests before the share of assets is looked at
  idleMs,
  LastActivity,          \* bound: when clients fall silent
  MaxCalls, MaxTime      \* bounds of the log and of the clock

\* Of the constants.
BotAssumption ==
  /\ {maxSessions, maxRequests, runLength, idleMs} \subseteq Nat \ {0}
  /\ MaxTime \in Nat

VARIABLES
  now,
  sessions,   \* SESSION_DATA, in order of insertion
  locks,      \* the keys of SESSION_LOCKS
  queue,      \* calls at their await, in order
  log         \* the calls: what was asked, what was found

vars == <<now, sessions, locks, queue, log>>

Flag(f, test) == IF test THEN {f} ELSE {}

\* Pages outnumber assets by more than 95 to 5.
NoAssets(requests) ==
  LET pages == Cardinality({i \in DOMAIN requests : requests[i].path \notin Assets})
  IN  Len(requests) > ratioLength /\ 100 * pages > 95 * Len(requests)

-----------------------------------------------------------------------------
Init ==
  /\ now = 0
  /\ sessions = EmptyMap /\ locks = {} /\ queue = <<>>
  /\ log = <<>>

\* check up to the await.  q.found is what the static tests found in the headers.
\* `known` keeps which session the call met, by the call that created it.
Start(q) ==
  /\ Len(log) < MaxCalls /\ now <= LastActivity
  /\ LET met == MapHas(sessions, q.id)
     IN  /\ sessions' = IF q.trap /\ met
                        THEN [sessions EXCEPT !.of[q.id].isBot = TRUE] ELSE sessions
         /\ log' = Append(log,
              [q |-> q, at |-> now, known |-> IF met THEN sessions.of[q.id].born ELSE 0,
               in |-> 0,
               flags |-> q.found \cup Flag("no_static_assets_fetched",
                                           met /\ NoAssets(sessions.of[q.id].requests))])
  /\ locks' = locks \cup {q.id}
  /\ queue' = Append(queue, Len(log) + 1)
  /\ UNCHANGED now

\* The session that makes room for id, if any.
Evicted(id) ==
  IF MapHas(sessions, id) \/ MapSize(sessions) < maxSessions THEN {}
  ELSE {Head(sessions.keys)}

Shifted(requests) == IF Len(requests) >= maxRequests THEN Tail(requests) ELSE requests

\* What the last requests of a session show at the time t.
PaceFlags(requests, t) ==
  LET k       == Len(requests)
      recent  == {i \in 1 .. k : t - requests[i].at < rateMs}
      lastRun == {requests[i].path : i \in k - runLength + 1 .. k}
  IN  Flag("excessive_request_rate", Cardinality(recent) > rateMax)
      \cup Flag("sequential_path_access",
             /\ k >= runLength
             /\ Cardinality(lastRun) = runLength
             /\ t - requests[k - runLength + 1].at < runMs)

\* The rest of the n-th call: the clock is the one read before the await.
Analyze(n) ==
  LET c       == log[n]
      id      == c.q.id
      gone    == Evicted(id)
      met     == MapHas(sessions, id)
      data    == IF met THEN [sessions.of[id] EXCEPT !.lastSeen = c.at]
                 ELSE [lastSeen |-> c.at, requests |-> <<>>, isBot |-> FALSE, born |-> n]
      after   == IF data.isBot THEN data
                 ELSE [data EXCEPT !.requests =
                         Append(Shifted(@), [at |-> c.at, path |-> c.q.path])]
      flags   == IF data.isBot THEN {"honeypot_flagged"} ELSE PaceFlags(after.requests, c.at)
  IN  /\ queue # <<>> /\ n = Head(queue)
      /\ queue' = Tail(queue)
      /\ sessions' = MapSet(MapDelete(sessions, gone), id, after)
      /\ locks' = locks \ gone
      /\ log' = [log EXCEPT ![n].flags = @ \cup flags, ![n].in = data.born]
      /\ UNCHANGED now

\* The collector.
Collect ==
  LET idle == {id \in DOMAIN sessions.of : now - sessions.of[id].lastSeen > idleMs}
  IN  /\ queue = <<>>
      /\ sessions' = MapDelete(sessions, idle)
      /\ locks' = locks \ idle
      /\ UNCHANGED <<now, queue, log>>

Tick == now < MaxTime /\ now' = now + 1 /\ UNCHANGED <<sessions, locks, queue, log>>

Next ==
  \/ \E q \in Requests : Start(q)
  \/ \E n \in DOMAIN log : Analyze(n)
  \/ Collect
  \/ Tick

Spec == Init /\ [][Next]_vars

\* Microtasks are run, time passes, the collector's interval fires.
FairSpec ==
  Spec /\ WF_vars(\E n \in DOMAIN log : Analyze(n)) /\ WF_vars(Collect) /\ WF_vars(Tick)

-----------------------------------------------------------------------------
\* How severe the engine takes the indicators of a call to be.
Severity(c) ==
  IF c.flags = {} THEN "none"
  ELSE IF c.q.api /\ c.flags \subseteq {"automation_ua"} THEN "medium"
  ELSE IF c.flags \cap {"automation_ua", "headless_ua", "sec_ch_ua_headless"} # {}
  THEN "high" ELSE "medium"

\* Type correctness and the limits of the tables.
TypeOK ==
  /\ now \in 0 .. MaxTime
  /\ MapOrdered(sessions) /\ MapSize(sessions) <= maxSessions
  /\ \A id \in DOMAIN sessions.of :
       /\ Len(sessions.of[id].requests) <= maxRequests
       /\ sessions.of[id].lastSeen \in 0 .. now
  /\ \A i \in DOMAIN queue : queue[i] \in DOMAIN log
  /\ \A n \in DOMAIN log : Severity(log[n]) \in {"none", "medium", "high"}

Members(list) == {list[i] : i \in DOMAIN list}
Least(a, b)   == IF a < b THEN a ELSE b

\* Calls of one session, each interrupted at an await no lock makes exclusive, leave
\* what one after another would: a session holds the last maxRequests of its calls
\* since it was created, in order; only sessions and calls in flight have a lock;
\* and a call that is analysed in a session the honeypot marked says so.
SessionsAsSequential ==
  /\ locks \subseteq DOMAIN sessions.of \cup {log[n].q.id : n \in Members(queue)}
  /\ \A id \in DOMAIN sessions.of :
       LET data     == sessions.of[id]
           own      == {n \in DOMAIN log : log[n].q.id = id /\ log[n].in = data.born}
           after(n) == Cardinality({m \in own : m > n})
       IN  ~data.isBot =>
             /\ Len(data.requests) = Least(maxRequests, Cardinality(own))
             /\ \A n \in own : after(n) < maxRequests =>
                  data.requests[Len(data.requests) - after(n)]
                    = [at |-> log[n].at, path |-> log[n].q.path]
  /\ \A m, n \in DOMAIN log :
       /\ m <= n /\ log[m].q.trap /\ log[m].known # 0
       /\ log[m].q.id = log[n].q.id /\ log[n].in = log[m].known
       => "honeypot_flagged" \in log[n].flags

\* Sessions and their locks are forgotten once clients are silent.
NothingKept == sessions = EmptyMap /\ locks = {}
=============================================================================
