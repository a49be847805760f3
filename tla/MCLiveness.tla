----------------------------- MODULE MCLiveness -----------------------------
(* What must come about in the engine and in the brute-force guard, side by  *)
(* side, at the limits of their tables.  They share nothing: `subject` names *)
(* the one that a behaviour is about, and the other stays as it starts.      *)
EXTENDS Engine

CONSTANTS a1, a2, p1, p2, r1, r2, NoAccount, NoBlock

VARIABLES
  subject,
  gnow, state, accountState, failures, gcRunning, login    \* of the guard

TwoIPs    == {a1, a2}
TwoPeers  == {p1, p2}
Requests2 == {r1, r2}
Logins    == Requests2
Accounts  == {"a", "b"}

Guard == INSTANCE BruteForceGuard WITH
  Requests <- Logins, maxAttempts <- 1, windowMs <- 2, blockDurationMs <- 1,
  maxBlockDurationMs <- 3, progressiveBackoff <- TRUE, accountMaxAttempts <- 2,
  maxStateSize <- 1, maxAccountStateSize <- 1, LastActivity <- 1, MaxTime <- 3,
  now <- gnow, request <- login

OfGuard == <<gnow, state, accountState, failures, gcRunning, login>>

allVars == <<subject, vars, OfGuard>>

InEngine(A) == subject = "engine" /\ A /\ UNCHANGED <<subject, OfGuard>>
InGuard(A)  == subject = "guard" /\ A /\ UNCHANGED <<subject, vars>>

AllInit == subject \in {"engine", "guard"} /\ Init /\ Guard!Init

\* What has to come about for a request: everything after its arrival.
Serve(r) ==
  \/ Clean(r) \/ \E risk \in Risks : Judge(r, risk)
  \/ Wake(r) \/ Challenge(r) \/ Block(r) \/ Pass(r)
  \/ \E status \in AppStatuses : Answer(r, status)
  \/ Finish(r)

EngineNext ==
  \/ \E r \in Requests :
       \/ \E ip \in IPs, peer \in Peers :
            \/ InEngine(EnterExcluded(r, ip, peer)) \/ InEngine(EnterUndecodable(r, ip, peer))
            \/ \E path \in PathsSent, solution \in SolutionsSent, url \in UrlsSent :
                 InEngine(Enter(r, ip, peer, path, solution, url))
       \/ InEngine(Clean(r)) \/ \E risk \in Risks : InEngine(Judge(r, risk))
       \/ InEngine(Wake(r)) \/ InEngine(Challenge(r)) \/ InEngine(Block(r))
       \/ InEngine(Pass(r)) \/ \E status \in AppStatuses : InEngine(Answer(r, status))
       \/ InEngine(Finish(r))
  \/ InEngine(Cleanup) \/ InEngine(Tick)

GuardNext ==
  \/ \E r \in Logins :
       \/ \E ip \in IPs, acct \in Accounts \cup {NoAccount}, s \in BOOLEAN :
            InGuard(Guard!Arrive(r, ip, acct, s))
       \/ InGuard(Guard!RespondElsewhere(r)) \/ InGuard(Guard!RespondNotFailed(r))
       \/ InGuard(Guard!RespondFailed(r))
  \/ \E ip \in IPs : InGuard(Guard!Reset(ip))
  \/ InGuard(Guard!Gc) \/ InGuard(Guard!Destroy) \/ InGuard(Guard!Tick)

\* The fairness of each specification, for the behaviours that are about it.
AllFairness ==
  /\ \A r \in Requests : WF_allVars(InEngine(Serve(r)))
  /\ WF_allVars(InEngine(Tick))
  /\ WF_allVars(InGuard(Guard!Tick)) /\ WF_allVars(InGuard(Guard!Gc))

AllSpec == AllInit /\ [][EngineNext \/ GuardNext]_allVars /\ AllFairness

ASSUME Guard!GuardAssumption
-----------------------------------------------------------------------------
\* Once clients are quiet the guard's collector empties both of its tables.
GuardDrains == Guard!MemoryDrains
=============================================================================
