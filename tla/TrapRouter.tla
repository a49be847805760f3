----------------------------- MODULE TrapRouter -----------------------------
(***************************************************************************)
(* src/modules/trap-router.js: the middleware that answers scanners with   *)
(* refusals, decoys or, after a delay, either.  The middleware runs to its *)
(* answer, or to the timer of the tarpit, in one step.                     *)
(***************************************************************************)
EXTENDS Integers, Maps

CONSTANTS
  Clients,
  Requests,              \* a client, a search engine or not, a kind, a decoy or not
  RATE_LIMIT_WINDOW_MS, RATE_LIMIT_MAX_HITS,
  enableTarpit, enableDecoys, blockLegitBots,
  tarpitDelayMs,
  LastActivity,          \* bound: when clients fall silent
  MaxCalls, MaxTime      \* bounds of the log and of the clock

\* Of the constants.
TrapAssumption ==
  /\ Requests \subseteq [client : Clients, bot : BOOLEAN, decoy : BOOLEAN,
        kind : {"attack", "suspiciousMethod", "trapToken", "robots", "trapPath", "other"}]
  /\ {RATE_LIMIT_WINDOW_MS, RATE_LIMIT_MAX_HITS, tarpitDelayMs, MaxCalls, MaxTime} \subseteq Nat

VARIABLES
  now,
  trapHits,   \* client -> times of its hits
  tarpit,     \* answers that wait: request -> when they are due
  log         \* the requests with their status

vars == <<now, trapHits, tarpit, log>>

\* What the tracker is told of a kind of request, and what the client gets.
Refusal ==
  [attack           |-> [status |-> 403, reason |-> "Attack_Pattern_In_URL"],
   suspiciousMethod |-> [status |-> 405, reason |-> "Suspicious_Method"],
   trapToken        |-> [status |-> 403, reason |-> "Trap_Token_Triggered"],
   limited          |-> [status |-> 429, reason |-> "Rate_Limit_Exceeded"]]

Waiting == 0       \* no answer yet
Passed  == -1      \* next() was called

Unrecorded == [status |-> 0, reason |-> "none"]

\* checkRateLimit: the hits of a client after this one.
Hits(c) ==
  LET old == IF c \in DOMAIN trapHits THEN trapHits[c] ELSE <<>>
  IN  Append(Without(old, {t \in 0 .. now : now - t >= RATE_LIMIT_WINDOW_MS}), now)

\* Decoy or not found.
Bait(q) == IF enableDecoys /\ q.decoy THEN 200 ELSE 404

-----------------------------------------------------------------------------
Init == now = 0 /\ trapHits = Empty /\ tarpit = Empty /\ log = <<>>

Answer(q, status, recorded) ==
  log' = Append(log, [q |-> q, at |-> now, status |-> status, recorded |-> recorded])

\* q.kind is the first test that catches the request; a search engine passes all but
\* the first, which comes before it is recognized.
Trusted(q) == q.bot /\ ~blockLegitBots /\ q.kind # "attack"

PassOn(q) ==
  /\ Trusted(q) \/ q.kind = "other"
  /\ Answer(q, Passed, Unrecorded) /\ UNCHANGED <<trapHits, tarpit>>

Refuse(q) ==
  /\ ~Trusted(q) /\ q.kind \in {"attack", "suspiciousMethod", "trapToken"}
  /\ Answer(q, Refusal[q.kind].status, Refusal[q.kind])
  /\ UNCHANGED <<trapHits, tarpit>>

Robots(q) ==
  /\ ~Trusted(q) /\ q.kind = "robots"
  /\ Answer(q, 200, Unrecorded) /\ UNCHANGED <<trapHits, tarpit>>

TrapPath(q) ==
  /\ ~Trusted(q) /\ q.kind = "trapPath"
  /\ trapHits' = Put(trapHits, q.client, Hits(q.client))
  /\ IF Len(Hits(q.client)) > RATE_LIMIT_MAX_HITS
     THEN Answer(q, 429, Refusal.limited) /\ UNCHANGED tarpit
     ELSE /\ Answer(q, IF enableTarpit THEN Waiting ELSE Bait(q),
                    [status |-> 200, reason |-> "Recon_Trap_Path"])
          /\ tarpit' = IF enableTarpit THEN Put(tarpit, Len(log) + 1, now + tarpitDelayMs)
                       ELSE tarpit

Handle(q) ==
  /\ Len(log) < MaxCalls /\ now <= LastActivity
  /\ PassOn(q) \/ Refuse(q) \/ Robots(q) \/ TrapPath(q)
  /\ UNCHANGED now

\* The timer of a trapped request.
Release(n) ==
  /\ n \in DOMAIN tarpit /\ tarpit[n] <= now
  /\ tarpit' = Drop(tarpit, {n})
  /\ log' = [log EXCEPT ![n].status = Bait(log[n].q)]
  /\ UNCHANGED <<now, trapHits>>

Tick == now < MaxTime /\ now' = now + 1 /\ UNCHANGED <<trapHits, tarpit, log>>

Next ==
  \/ \E q \in Requests : Handle(q)
  \/ \E n \in DOMAIN log : Release(n)
  \/ Tick

Spec == Init /\ [][Next]_vars

\* Time passes and timers fire.
FairSpec == Spec /\ WF_vars(\E n \in DOMAIN log : Release(n)) /\ WF_vars(Tick)

-----------------------------------------------------------------------------
\* Type correctness; a request waits in the tarpit if and only if it has no answer.
TypeOK ==
  /\ now \in 0 .. MaxTime
  /\ DOMAIN tarpit = {n \in DOMAIN log : log[n].status = Waiting}
  /\ \A c \in DOMAIN trapHits : Len(trapHits[c]) \in 1 .. MaxCalls

Trapped == {n \in DOMAIN log : log[n].q.kind = "trapPath" /\ log[n].status # Passed}

\* The traps its client asked for within the window before.
Earlier(n) ==
  {m \in Trapped : /\ m < n /\ log[m].q.client = log[n].q.client
                    /\ log[n].at - log[m].at < RATE_LIMIT_WINDOW_MS}

\* A trap is refused to a client exactly when it has asked for RATE_LIMIT_MAX_HITS
\* others in the window, those refused included, however many wait in the tarpit
\* and whatever else was asked in between; the tracker is told of every trap.  With 3
\* hits that is the fourth, not the third that trap-router.js:76 ("3 hits = block") and
\* :185 ("If the scanner hits 3 traps in 10 seconds, block them immediately") announce.
TrapLimitExact ==
  \A n \in Trapped :
    /\ log[n].recorded # Unrecorded
    /\ (log[n].status = 429) <=> Cardinality(Earlier(n)) >= RATE_LIMIT_MAX_HITS

\* Whoever is caught in the tarpit gets an answer in the end.
NothingKept == tarpit = Empty
=============================================================================
