----------------------------- MODULE Mitigation -----------------------------
(***************************************************************************)
(* MitigationEngine, src/core/mitigation.js: CHALLENGE_SESSIONS maps the   *)
(* peer of a connection (req.ip) to its session, which is either an        *)
(* outstanding challenge or the pass that follows its solution.            *)
(***************************************************************************)
EXTENDS Maps

CONSTANTS
  ChallengeMs,   \* life of a challenge, 300000
  PassMs         \* life of a pass, 3600000

\* expected: the session stores a challenge.
Session == [expires : Nat, expected : BOOLEAN]

\* What a request may carry in __shield_solve: nothing, the hash the challenge
\* page computes, or the keyed hash of the stored challenge.
Solutions == {"none", "page", "hmac"}

\* What a request's url and parts may be: unparsable is a url that new URL rejects,
\* as it does //; undecodable a part that decodeRequest throws for.
Urls == {"sound", "unparsable", "undecodable"}

\* error: process throws.
Actions == {"none", "block", "challenge", "redirect", "throttle", "error"}

InForce(sessions, peer, t) == peer \in DOMAIN sessions /\ t < sessions[peer].expires

VerifySolution(sessions, peer, solution) ==
  /\ peer \in DOMAIN sessions /\ sessions[peer].expected
  /\ solution = "hmac"

\* The session is looked up before the solution is: an expired one is deleted.
Live(sessions, peer, t) ==
  IF InForce(sessions, peer, t) THEN sessions ELSE Drop(sessions, {peer})

\* Mutant: a session admits for a tick after it expires.
MitigationActionLax(sessions, peer, score, solution, url, t) ==
  IF peer \in DOMAIN sessions /\ t <= sessions[peer].expires THEN "none"
  ELSE IF score >= 40 THEN "block"
  ELSE IF score >= 15 THEN IF url = "unparsable" THEN "error" ELSE "challenge"
  ELSE IF score >= 8 THEN "throttle"
  ELSE "none"

\* The action process returns, or its error.  Any session in force admits, whether its
\* challenge was solved or not.
MitigationAction(sessions, peer, score, solution, url, t) ==
  IF InForce(sessions, peer, t) THEN "none"
  ELSE IF score >= 40 THEN "block"
  ELSE IF score >= 15
       THEN IF url = "unparsable" THEN "error"
            ELSE IF VerifySolution(Live(sessions, peer, t), peer, solution)
            THEN "redirect" ELSE "challenge"
  ELSE IF score >= 8 THEN "throttle"
  ELSE "none"

\* Mutant: the sign of the challenge's life.
AfterMitigationBackwards(sessions, peer, score, solution, url, t) ==
  IF MitigationAction(sessions, peer, score, solution, url, t) = "challenge"
  THEN Put(sessions, peer, [expires |-> t - ChallengeMs, expected |-> TRUE])
  ELSE sessions

\* The sessions process leaves; one that expired is gone even if it throws.
AfterMitigation(sessions, peer, score, solution, url, t) ==
  LET live   == Live(sessions, peer, t)
      action == MitigationAction(sessions, peer, score, solution, url, t)
  IN  IF action = "challenge"
      THEN Put(live, peer, [expires |-> t + ChallengeMs, expected |-> TRUE])
      ELSE IF action = "redirect"
      THEN Put(live, peer, [expires |-> t + PassMs, expected |-> FALSE])
      ELSE live
=============================================================================
