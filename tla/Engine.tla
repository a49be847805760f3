------------------------------- MODULE Engine -------------------------------
(***************************************************************************)
(* The path of a request through ShieldWallEngine.analyze and back through *)
(* the middleware: src/core/engine.js and src/index.js, with the memories  *)
(* of recon-tracker.js and mitigation.js.                                  *)
(*                                                                         *)
(* analyze runs to its first await, the first module's check, when it is   *)
(* called; from the last module's answer to its return it does not yield,  *)
(* unless it sleeps to throttle.  Other requests, the application and the  *)
(* timers run in between.  What the modules and the rules find is a number *)
(* chosen per request: the risk their matches add up to, 0 for none.       *)
(*                                                                         *)
(* The engine knows a client by the address _extractIP takes from the      *)
(* forwarding header; mitigation knows it by req.ip, its peer.             *)
(***************************************************************************)
EXTENDS Integers, ReconTracker, Mitigation

CONSTANTS
  IPs, Peers, Requests,
  mode, blockThreshold,
  Risks,               \* risks the modules and rules may find, above 0
  PathsSent, SolutionsSent, UrlsSent, AppStatuses,   \* inputs of the runs
  ErrorCacheMax,       \* errorCacheMaxSize
  ThrottleMs,          \* length of a throttling sleep
  MaxTime              \* bound of the clock; it runs on while a request sleeps

ASSUME EngineAssumption ==
  /\ mode \in {"block", "detect"}
  /\ Risks \subseteq Nat \ {0}
  /\ PathsSent \subseteq Paths /\ SolutionsSent \subseteq Solutions
  /\ UrlsSent \subseteq Urls \ {"undecodable"}
  /\ AppStatuses \subseteq {200, 403, 404, 500}
  /\ {blockThreshold, MaxReconEntries, ErrorCacheMax, ChallengeMs, PassMs} \subseteq Nat \ {0}
  /\ {ReconTTL, ThrottleMs, MaxTime} \subseteq Nat

VARIABLES
  now,        \* Date.now()
  recon,      \* RECON_HISTORY
  sessions,   \* CHALLENGE_SESSIONS
  errors,     \* errorCache: address -> count
  stats,      \* totalRequests and blockedRequests
  request     \* request -> where it is and what became of it

vars == <<now, recon, sessions, errors, stats, request>>

Statuses == {200, 302, 403, 404, 500}

\* analyzing: awaits the modules; sleeping: is throttled; analyzed: back in the
\* middleware; app: passed on; finishing: answered, its finish event pending; failed:
\* analyze threw, and the middleware, which does not catch it, never answers.
Exchange ==
  [stage : {"analyzing", "sleeping", "analyzed", "app", "finishing", "done", "failed"},
   ip : IPs, peer : Peers, path : Paths, solution : Solutions, url : Urls,
   hooked : BOOLEAN, start : Nat,
   score : Nat, scored : Nat, action : Actions, blocked : BOOLEAN,
   status : Statuses \cup {0}, end : Nat]

Stage(r, s) == r \in DOMAIN request /\ request[r].stage = s

Arrival(r) == <<r, "arrival">>
AnswerOf(r) == <<r, "answer">>

-----------------------------------------------------------------------------
Init ==
  /\ now = 0
  /\ recon = EmptyMap /\ sessions = Empty /\ errors = EmptyMap
  /\ stats = [total |-> 0, blocked |-> 0]
  /\ request = Empty

Arrived(r, ip, peer, path, solution, url, stage) ==
  /\ r \notin DOMAIN request
  /\ request' = Put(request, r,
       [stage |-> stage,
        ip |-> ip, peer |-> peer, path |-> path, solution |-> solution, url |-> url,
        hooked |-> stage = "analyzing", start |-> now,
        score |-> 0, scored |-> 0, action |-> "none", blocked |-> FALSE,
        status |-> 0, end |-> 0])
  /\ stats' = [stats EXCEPT !.total = @ + 1]

\* A path or an address of excludePaths or excludeIPs leaves analyze at once;
\* what it is for is never looked at.
EnterExcluded(r, ip, peer) ==
  /\ Arrived(r, ip, peer, "plain", "none", "sound", "analyzed")
  /\ UNCHANGED <<now, recon, sessions, errors>>

\* decodeRequest throws, before anything is hooked or recorded: what the path is stays
\* unknown.
EnterUndecodable(r, ip, peer) ==
  /\ Arrived(r, ip, peer, "plain", "none", "undecodable", "failed")
  /\ UNCHANGED <<now, recon, sessions, errors>>

\* analyze up to the first await: writeHead is hooked, a probe is recorded.
Enter(r, ip, peer, path, solution, url) ==
  /\ Arrived(r, ip, peer, path, solution, url, "analyzing")
  /\ recon' = IF path = "probe"
              THEN RecordReconAttempt(recon, ip, Arrival(r), path, 404, now)
              ELSE recon
  /\ UNCHANGED <<now, sessions, errors>>

\* Neither modules nor rules match.
Clean(r) ==
  /\ Stage(r, "analyzing")
  /\ request' = [request EXCEPT ![r].stage = "analyzed"]
  /\ UNCHANGED <<now, recon, sessions, errors, stats>>

\* Mutant: the taint is not added.
RiskScoreUntainted(r, risk) == risk

\* The risk of the matches and the taint of a client that goes for a target.
RiskScore(r, risk) ==
  LET taint == Taint(recon, request[r].ip, now)
  IN  risk + (IF taint > 15 /\ IsSensitiveTarget(request[r].path) THEN taint ELSE 0)

\* From the modules' matches to the return of analyze, to its sleep, or to the error
\* mitigation throws, which is before the event is logged and counted.
Judge(r, risk) ==
  /\ Stage(r, "analyzing")
  /\ LET q       == request[r]
         score   == RiskScore(r, risk)
         action  == MitigationAction(sessions, q.peer, score, q.solution, q.url, now)
         blocked == /\ action # "error"
                    /\ \/ mode = "block" /\ score >= blockThreshold
                       \/ action = "block"
     IN  /\ request' = [request EXCEPT ![r] =
              [q EXCEPT !.stage = IF action = "error" THEN "failed"
                                  ELSE IF action = "throttle" /\ ~blocked
                                  THEN "sleeping" ELSE "analyzed",
                        !.score = score, !.scored = now,
                        !.action = action, !.blocked = blocked]]
         /\ sessions' = AfterMitigation(sessions, q.peer, score, q.solution, q.url, now)
         /\ recon' = AfterTaint(recon, q.ip, now)
         /\ stats' = IF blocked THEN [stats EXCEPT !.blocked = @ + 1] ELSE stats
  /\ UNCHANGED <<now, errors>>


Wake(r) ==
  /\ Stage(r, "sleeping") /\ now >= request[r].scored + ThrottleMs
  /\ request' = [request EXCEPT ![r].stage = "analyzed"]
  /\ UNCHANGED <<now, recon, sessions, errors, stats>>

\* The response's head is written: the hook records a refusal.
WriteHead(r, status, stage) ==
  /\ request' = [request EXCEPT ![r].stage = stage, ![r].status = status, ![r].end = now]
  /\ recon' = IF request[r].hooked /\ Refusal(status)
              THEN RecordReconAttempt(recon, request[r].ip, AnswerOf(r),
                                      request[r].path, status, now)
              ELSE recon
  /\ UNCHANGED <<now, sessions, errors, stats>>

\* The middleware answers in the application's place.
Challenge(r) ==
  /\ Stage(r, "analyzed") /\ ~request[r].blocked
  /\ request[r].action \in {"challenge", "redirect"}
  /\ WriteHead(r, IF request[r].action = "redirect" THEN 302 ELSE 200, "done")

Block(r) ==
  /\ Stage(r, "analyzed") /\ request[r].blocked
  /\ WriteHead(r, 403, "done")

Pass(r) ==
  /\ Stage(r, "analyzed") /\ ~request[r].blocked
  /\ request[r].action \notin {"challenge", "redirect"}
  /\ request' = [request EXCEPT ![r].stage = "app"]
  /\ UNCHANGED <<now, recon, sessions, errors, stats>>

\* The application answers.  The finish handler is there only after a match, and
\* only a server error concerns it.
Answer(r, status) ==
  /\ Stage(r, "app")
  /\ WriteHead(r, status,
       IF request[r].score > 0 /\ status >= 500 THEN "finishing" ELSE "done")

\* errorCache after one more server error of ip.
CountedError(cache, ip) ==
  LET count == IF MapHas(cache, ip) THEN cache.of[ip] ELSE 0
      added == MapSet(cache, ip, count + 1)
  IN  IF MapSize(added) > ErrorCacheMax THEN MapDeleteFirst(added) ELSE added

Finish(r) ==
  /\ Stage(r, "finishing")
  /\ errors' = CountedError(errors, request[r].ip)
  /\ request' = [request EXCEPT ![r].stage = "done"]
  /\ UNCHANGED <<now, recon, sessions, stats>>

Cleanup ==
  /\ recon' = Cleaned(recon, now)
  /\ UNCHANGED <<now, sessions, errors, stats, request>>

Tick ==
  /\ \/ now < MaxTime
     \/ \E r \in DOMAIN request : Stage(r, "sleeping") /\ now < request[r].scored + ThrottleMs
  /\ now' = now + 1
  /\ UNCHANGED <<recon, sessions, errors, stats, request>>

Next ==
  \/ \E r \in Requests :
       \/ \E ip \in IPs, peer \in Peers :
            \/ EnterExcluded(r, ip, peer) \/ EnterUndecodable(r, ip, peer)
            \/ \E path \in PathsSent, solution \in SolutionsSent, url \in UrlsSent :
                 Enter(r, ip, peer, path, solution, url)
       \/ Clean(r) \/ \E risk \in Risks : Judge(r, risk)
       \/ Wake(r) \/ Challenge(r) \/ Block(r) \/ Pass(r)
       \/ \E status \in AppStatuses : Answer(r, status)
       \/ Finish(r)
  \/ Cleanup
  \/ Tick

Spec == Init /\ [][Next]_vars

\* Awaited modules and sleeps end, the event loop gets to every continuation,
\* and the application answers.
Fairness ==
  /\ \A r \in Requests :
       WF_vars(\/ Clean(r) \/ \E risk \in Risks : Judge(r, risk)
               \/ Wake(r) \/ Challenge(r) \/ Block(r) \/ Pass(r)
               \/ \E status \in AppStatuses : Answer(r, status)
               \/ Finish(r))
  /\ WF_vars(Tick)

FairSpec == Spec /\ Fairness
-----------------------------------------------------------------------------
(* Properties.                                                             *)

Event == Requests \X {"arrival", "answer"}

Record == [scans : SUBSET Event, errors : SUBSET Event, seen : Nat]

TypeOK ==
  /\ now \in Nat
  /\ DOMAIN recon.of \subseteq IPs /\ \A ip \in DOMAIN recon.of : recon.of[ip] \in Record
  /\ DOMAIN sessions \subseteq Peers /\ \A p \in DOMAIN sessions : sessions[p] \in Session
  /\ DOMAIN errors.of \subseteq IPs
  /\ \A ip \in DOMAIN errors.of : errors.of[ip] \in Nat
  /\ stats \in [total : Nat, blocked : Nat]
  /\ DOMAIN request \subseteq Requests /\ \A r \in DOMAIN request : request[r] \in Exchange

\* The clients fit in the history: none is ever evicted.
Roomy == IsFiniteSet(IPs) /\ Cardinality(IPs) <= MaxReconEntries

\* What ip did that counts as reconnaissance, at or after time t.
ProbesSince(ip, t) ==
  {Arrival(r) : r \in {q \in DOMAIN request :
     /\ request[q].hooked /\ request[q].ip = ip /\ request[q].path = "probe"
     /\ request[q].start >= t}}

RefusalsSince(ip, t) ==
  {AnswerOf(r) : r \in {q \in DOMAIN request :
     /\ request[q].hooked /\ request[q].ip = ip /\ Refusal(request[q].status)
     /\ request[q].end >= t}}

ScansSince(ip, t) ==
  ProbesSince(ip, t) \cup {e \in RefusalsSince(ip, t) : ScannerPath(request[e[1]].path)}

ErrorsSince(ip, t) == ProbesSince(ip, t) \cup RefusalsSince(ip, t)

\* A client's record holds nothing it did not do, and everything it did within
\* the last ReconTTL, whatever the order in which its requests are answered,
\* blocked, judged and cleaned up after: nothing recent is ever forgotten.
ReconRemembers ==
  /\ \A ip \in DOMAIN recon.of : /\ recon.of[ip].scans \subseteq ScansSince(ip, 0)
                                 /\ recon.of[ip].errors \subseteq ErrorsSince(ip, 0)
  /\ Roomy => \A ip \in IPs :
       ErrorsSince(ip, now - ReconTTL) # {} =>
         /\ MapHas(recon, ip) /\ ~Stale(recon, ip, now)
         /\ ScansSince(ip, now - ReconTTL) \subseteq recon.of[ip].scans
         /\ ErrorsSince(ip, now - ReconTTL) \subseteq recon.of[ip].errors

\* Reconnaissance worth more than 15 within the last ReconTTL is enough to stop
\* any match on a sensitive endpoint, however low its own risk: the request is
\* blocked, challenged, or stopped by the error an unparsable url causes, unless the
\* peer's session is in force.
KillChain ==
  [][\A r \in Requests, risk \in Risks :
       /\ Judge(r, risk) /\ Roomy
       /\ IsSensitiveTarget(request[r].path)
       /\ Score([scans  |-> ScansSince(request[r].ip, now - ReconTTL),
                 errors |-> ErrorsSince(request[r].ip, now - ReconTTL)]) > 15
       /\ ~InForce(sessions, request[r].peer, now)
       => \/ request'[r].blocked
          \/ request'[r].action \in {"challenge", "redirect", "error"}]_vars

\* A request that scores 15 or more is let through only if another request of
\* its peer was challenged less than ChallengeMs before it was judged.  Whether anyone
\* solved that challenge makes no difference: to have been asked is enough, which is not
\* what mitigation.js:23 says (AdmittedOnceSolved).
AdmittedByChallenge ==
  \A r \in DOMAIN request :
    request[r].score >= 15 /\ ~request[r].blocked /\ request[r].action \in {"none", "throttle"}
      => \E q \in DOMAIN request :
           /\ q # r
           /\ request[q].action = "challenge" /\ request[q].peer = request[r].peer
           /\ request[q].scored <= request[r].scored
           /\ request[r].scored < request[q].scored + ChallengeMs

\* History and error cache stay within their limits, and the order in which
\* they evict lists each address they hold once, whatever was dropped in between.
TablesBounded ==
  /\ MapSize(recon) <= MaxReconEntries /\ MapSize(errors) <= ErrorCacheMax
  /\ MapOrdered(recon) /\ MapOrdered(errors)

\* "Check if session is already in "Challenge Solved" state" (mitigation.js:23): a
\* request that scores 15 or more is let through only if another one of its peer
\* presented a solution that was accepted.
AdmittedOnceSolved ==
  \A r \in DOMAIN request :
    request[r].score >= 15 /\ ~request[r].blocked /\ request[r].action \in {"none", "throttle"}
      => \E q \in DOMAIN request :
           q # r /\ request[q].action = "redirect" /\ request[q].peer = request[r].peer

=============================================================================
