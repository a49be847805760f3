-------------------------- MODULE BruteForceGuard --------------------------
(***************************************************************************)
(* The brute-force guard of src/modules/brute-force.js and the requests    *)
(* that pass through its middleware.                                       *)
(*                                                                         *)
(* Every handler of the guard runs to completion on the JavaScript event   *)
(* loop, so each is one action.  What interleaves is the life of the       *)
(* requests: the guard is consulted when a request arrives, the            *)
(* application answers later, and only the answer is recorded.  Between    *)
(* the two, other requests of the same client or account arrive and are    *)
(* answered, the collector runs, and time passes.                          *)
(*                                                                         *)
(* One tick of `now` stands for any fixed amount of time.  An attempt is   *)
(* the time stamp the code pushes, labelled by the request that caused it. *)
(***************************************************************************)
EXTENDS Integers, Maps

CONSTANTS
  IPs,                  \* client addresses, as _ip() extracts them
  Accounts,             \* values of body.email / username / account
  NoAccount,            \* the body names no account
  Requests,             \* requests that may be made, each at most once
  NoBlock,              \* blockUntil = null
  maxAttempts, windowMs, blockDurationMs, maxBlockDurationMs,
  progressiveBackoff, accountMaxAttempts, maxStateSize, maxAccountStateSize,
  LastActivity,         \* bound: clients and the application act up to here
  MaxTime               \* bound: the clock stops here

ASSUME GuardAssumption ==
  /\ {maxAttempts, windowMs, blockDurationMs, maxBlockDurationMs,
      accountMaxAttempts, maxStateSize, maxAccountStateSize} \subseteq Nat \ {0}
  /\ progressiveBackoff \in BOOLEAN
  /\ LastActivity \in Nat /\ MaxTime \in Nat
  /\ NoAccount \notin Accounts
  /\ NoBlock \notin Int

VARIABLES
  now,           \* Date.now()
  state,         \* _state: IP -> entry, defined on the addresses it holds
  accountState,  \* _accountState: account -> entry
  failures,      \* failed attempts recorded so far; orders Map insertions
  gcRunning,     \* the interval timer of the constructor is armed
  request        \* request -> what became of it, defined once it arrived

vars == <<now, state, accountState, failures, gcRunning, request>>

Attempt == [req : Requests, at : Nat]

Entry == [attempts : SUBSET Attempt, blockUntil : Int \cup {NoBlock},
          blockCount : Nat, born : Nat]

AccountEntry == [attempts : SUBSET Attempt, born : Nat]

\* A request in flight since, or answered with a failed code at, time `at`;
\* of any other only the end is kept.
Request ==
  [phase : {"inflight", "failed"}, ip : IPs, acct : Accounts \cup {NoAccount},
   sensitive : BOOLEAN, at : Nat] \cup [phase : {"closed", "error"}]

-----------------------------------------------------------------------------
(* Maps, the window and the backoff.                                       *)

\* attempts.filter(ts => now - ts < windowMs)
Recent(attempts) == {a \in attempts : now - a.at < windowMs}

\* Math.min(blockDurationMs * 2^(blockCount - 1), maxBlockDurationMs)
BlockLength(count) ==
  LET mult == IF progressiveBackoff THEN 2 ^ (count - 1) ELSE 1
  IN  IF blockDurationMs * mult <= maxBlockDurationMs
      THEN blockDurationMs * mult
      ELSE maxBlockDurationMs

\* The first key a Map iterates is the one inserted first.
Oldest(table) ==
  {k \in DOMAIN table : \A j \in DOMAIN table : table[k].born <= table[j].born}

\* The table after `if (size >= limit) delete(oldest)`.
AfterLimit(table, limit) ==
  IF Cardinality(DOMAIN table) >= limit
  THEN {Drop(table, {k}) : k \in Oldest(table)}
  ELSE {table}

Blocked(ip) ==
  /\ ip \in DOMAIN state
  /\ state[ip].blockUntil # NoBlock
  /\ now < state[ip].blockUntil

BlockExpired(ip) ==
  /\ ip \in DOMAIN state
  /\ state[ip].blockUntil # NoBlock
  /\ now >= state[ip].blockUntil

Locked(acct) ==
  /\ acct \in DOMAIN accountState
  /\ Cardinality(Recent(accountState[acct].attempts)) >= accountMaxAttempts

InFlight(r) == r \in DOMAIN request /\ request[r].phase = "inflight"

-----------------------------------------------------------------------------
Init ==
  /\ now = 0
  /\ state = Empty
  /\ accountState = Empty
  /\ failures = 0
  /\ gcRunning = TRUE
  /\ request = Empty

\* check: an expired block is cleared together with its attempts, but keeps
\* its blockCount.
CheckIP(ip, sensitive) ==
  state' = IF sensitive /\ BlockExpired(ip)
           THEN Put(state, ip, [state[ip] EXCEPT !.blockUntil = NoBlock,
                                                 !.attempts = {}])
           ELSE state

\* Mutant: checkAccount forgets what it counted, as check does.
CheckAccountForgets(acct) ==
  accountState' = IF acct \in DOMAIN accountState
                  THEN Put(accountState, acct,
                           [accountState[acct] EXCEPT !.attempts = {}])
                  ELSE accountState

\* checkAccount trims the account's attempts, whatever the path.
CheckAccount(acct) ==
  accountState' = IF acct \in DOMAIN accountState
                  THEN Put(accountState, acct,
                           [accountState[acct] EXCEPT !.attempts = Recent(@)])
                  ELSE accountState

\* Mutant: both checks must refuse.
RefusedByBoth(ip, acct, sensitive) == sensitive /\ Blocked(ip) /\ Locked(acct)

Refused(ip, acct, sensitive) == (sensitive /\ Blocked(ip)) \/ Locked(acct)

\* The middleware: a refused request is answered 429 after the tarpit's delay
\* and never recorded; any other goes to the application with res.end hooked.
Arrive(r, ip, acct, sensitive) ==
  /\ r \notin DOMAIN request
  /\ now <= LastActivity
  /\ CheckIP(ip, sensitive)
  /\ CheckAccount(acct)
  /\ request' = Put(request, r,
       IF Refused(ip, acct, sensitive) THEN [phase |-> "closed"]
       ELSE [phase |-> "inflight", ip |-> ip, acct |-> acct,
             sensitive |-> sensitive, at |-> now])
  /\ UNCHANGED <<now, failures, gcRunning>>

Finish(r, sensitive, end) ==
  /\ InFlight(r) /\ request[r].sensitive = sensitive
  /\ now <= LastActivity
  /\ request' = Put(request, r, end)
  /\ UNCHANGED <<now, gcRunning>>

\* recordResponse off the sensitive paths records nothing.
RespondElsewhere(r) ==
  /\ Finish(r, FALSE, [phase |-> "closed"])
  /\ UNCHANGED <<state, accountState, failures>>

\* recordResponse with a code outside failedCodes: an accepted login
\* ("closed") or any other code (404, 500, ...).  Room is made before the code
\* is looked at.
RespondNotFailed(r) ==
  /\ \E end \in {"closed", "error"} : Finish(r, TRUE, [phase |-> end])
  /\ \E table \in AfterLimit(state, maxStateSize) :
       state' = Drop(table, {request[r].ip})
  /\ UNCHANGED <<accountState, failures>>

\* Mutant: the threshold is crossed one attempt late.
EntryAfterFailureLate(entry, r) ==
  LET attempts == Recent(entry.attempts) \cup {[req |-> r, at |-> now]}
      count    == entry.blockCount + 1
  IN  IF Cardinality(attempts) > maxAttempts
      THEN [entry EXCEPT !.attempts = attempts, !.blockCount = count,
                         !.blockUntil = now + BlockLength(count)]
      ELSE [entry EXCEPT !.attempts = attempts]

\* Mutant: the counter runs the wrong way.
EntryAfterFailureDown(entry, r) ==
  LET attempts == Recent(entry.attempts) \cup {[req |-> r, at |-> now]}
  IN  IF Cardinality(attempts) >= maxAttempts
      THEN [entry EXCEPT !.attempts = attempts, !.blockCount = @ - 1,
                         !.blockUntil = now + BlockLength(1)]
      ELSE [entry EXCEPT !.attempts = attempts]

\* The entry of an address after one more failed attempt.
EntryAfterFailure(entry, r) ==
  LET attempts == Recent(entry.attempts) \cup {[req |-> r, at |-> now]}
      count    == entry.blockCount + 1
  IN  IF Cardinality(attempts) >= maxAttempts
      THEN [entry EXCEPT !.attempts = attempts, !.blockCount = count,
                         !.blockUntil = now + BlockLength(count)]
      ELSE [entry EXCEPT !.attempts = attempts]

RecordForIP(r, ip) ==
  \E table \in AfterLimit(state, maxStateSize) :
    LET entry == IF ip \in DOMAIN table THEN table[ip]
                 ELSE [attempts |-> {}, blockUntil |-> NoBlock,
                       blockCount |-> 0, born |-> failures]
    IN  state' = Put(table, ip, EntryAfterFailure(entry, r))

RecordForAccount(r, acct) ==
  IF acct = NoAccount THEN UNCHANGED accountState
  ELSE \E table \in AfterLimit(accountState, maxAccountStateSize) :
         LET entry == IF acct \in DOMAIN table THEN table[acct]
                      ELSE [attempts |-> {}, born |-> failures]
         IN  accountState' = Put(table, acct,
               [entry EXCEPT !.attempts = @ \cup {[req |-> r, at |-> now]}])

\* recordResponse with a failed code (401, 403, 422).
RespondFailed(r) ==
  /\ Finish(r, TRUE, [request[r] EXCEPT !.phase = "failed", !.at = now])
  /\ RecordForAccount(r, request[r].acct)
  /\ RecordForIP(r, request[r].ip)
  /\ failures' = failures + 1

\* Mutant: the collector looks at the attempts alone.
GcIgnoresBlocks ==
  /\ gcRunning
  /\ LET live == {ip \in DOMAIN state : Recent(state[ip].attempts) # {}}
         held == {a \in DOMAIN accountState : Recent(accountState[a].attempts) # {}}
     IN  /\ state' = [ip \in live |-> [state[ip] EXCEPT !.attempts = Recent(@)]]
         /\ accountState' = [a \in held |->
                        [accountState[a] EXCEPT !.attempts = Recent(@)]]
  /\ UNCHANGED <<now, failures, gcRunning, request>>

\* Mutant: an entry once blocked is never dropped.
GcKeepsBlocked ==
  /\ gcRunning
  /\ LET live == {ip \in DOMAIN state : \/ Recent(state[ip].attempts) # {}
                                        \/ state[ip].blockUntil # NoBlock}
         held == {a \in DOMAIN accountState : Recent(accountState[a].attempts) # {}}
     IN  /\ state' = [ip \in live |-> [state[ip] EXCEPT !.attempts = Recent(@)]]
         /\ accountState' = [a \in held |->
                        [accountState[a] EXCEPT !.attempts = Recent(@)]]
  /\ UNCHANGED <<now, failures, gcRunning, request>>

\* _gc, run by the interval timer.
Gc ==
  /\ gcRunning
  /\ LET live == {ip \in DOMAIN state : \/ Recent(state[ip].attempts) # {}
                                        \/ Blocked(ip)}
         held == {a \in DOMAIN accountState : Recent(accountState[a].attempts) # {}}
     IN  /\ state' = [ip \in live |->
                        [state[ip] EXCEPT !.attempts = Recent(@)]]
         /\ accountState' = [a \in held |->
                        [accountState[a] EXCEPT !.attempts = Recent(@)]]
  /\ UNCHANGED <<now, failures, gcRunning, request>>

Reset(ip) ==
  /\ now <= LastActivity
  /\ state' = Drop(state, {ip})
  /\ UNCHANGED <<now, accountState, failures, gcRunning, request>>

Destroy ==
  /\ gcRunning' = FALSE
  /\ state' = Empty
  /\ UNCHANGED <<now, accountState, failures, request>>

Tick ==
  /\ now < MaxTime
  /\ now' = now + 1
  /\ UNCHANGED <<state, accountState, failures, gcRunning, request>>

Next ==
  \/ \E r \in Requests :
       \/ \E ip \in IPs, acct \in Accounts \cup {NoAccount}, s \in BOOLEAN :
            Arrive(r, ip, acct, s)
       \/ RespondElsewhere(r)
       \/ RespondNotFailed(r)
       \/ RespondFailed(r)
  \/ \E ip \in IPs : Reset(ip)
  \/ Gc \/ Destroy \/ Tick

\* The timers fire and time passes; clients and the application owe nothing.
Fairness == WF_vars(Tick) /\ WF_vars(Gc)

Spec == Init /\ [][Next]_vars
FairSpec == Spec /\ Fairness
-----------------------------------------------------------------------------
(* Properties.                                                             *)

\* The variables' types.
Types ==
  /\ now \in Nat /\ failures \in Nat /\ gcRunning \in BOOLEAN
  /\ DOMAIN state \subseteq IPs
  /\ \A ip \in DOMAIN state : state[ip] \in Entry
  /\ DOMAIN accountState \subseteq Accounts
  /\ \A a \in DOMAIN accountState : accountState[a] \in AccountEntry
  /\ DOMAIN request \subseteq Requests
  /\ \A r \in DOMAIN request : request[r] \in Request

\* r was answered with a failed code on a sensitive path.
FailedLogin(r) ==
  r \in DOMAIN request /\ request[r].phase = "failed"

\* Neither table outgrows its limit.
TablesBounded ==
  /\ Cardinality(DOMAIN state) <= maxStateSize
  /\ Cardinality(DOMAIN accountState) <= maxAccountStateSize

\* Type correctness, with the limits of both tables, however the evictions of
\* recordResponse, the insertions that follow them and the collector interleave.
TypeOK == Types /\ TablesBounded

\* An address that has used up its attempts has a block on record, every block
\* was counted, and none reaches further than maxBlockDurationMs from now.
BlockSound ==
  \A ip \in DOMAIN state :
    LET e == state[ip]
    IN  /\ Cardinality(e.attempts) >= maxAttempts => e.blockUntil # NoBlock
        /\ e.blockUntil # NoBlock => /\ e.blockCount >= 1
                                     /\ e.blockUntil <= now + maxBlockDurationMs

\* The failed logins of account a inside the window, from the life of the
\* requests alone: what checkAccount is meant to count.
AccountFailures(a) ==
  {r \in Requests : /\ FailedLogin(r)
                    /\ request[r].acct = a
                    /\ now - request[r].at < windowMs}

AccountAttempts(a) ==
  IF a \in DOMAIN accountState
  THEN {x.req : x \in Recent(accountState[a].attempts)}
  ELSE {}

\* The distributed lock of an account counts exactly the failed logins inside
\* the window, from whichever address they came: trimming in checkAccount, the
\* collector and answers of other requests neither lose nor invent one.  At
\* capacity the table may forget, but still invents nothing.
AccountMemory ==
  \A a \in Accounts :
    /\ AccountAttempts(a) \subseteq AccountFailures(a)
    /\ IsFiniteSet(Accounts) /\ Cardinality(Accounts) < maxAccountStateSize
         => AccountAttempts(a) = AccountFailures(a)

\* While an address is blocked, its logins still in flight were let through no
\* later than the failed answer that imposed the block in force: nothing slips
\* past check during a block.
InFlightPredatesBlock ==
  \A ip \in IPs : Blocked(ip) =>
    \E q \in Requests :
      /\ FailedLogin(q) /\ request[q].ip = ip
      /\ state[ip].blockUntil = request[q].at + BlockLength(state[ip].blockCount)
      /\ \A r \in Requests :
           InFlight(r) /\ request[r].sensitive /\ request[r].ip = ip
             => request[r].at <= request[q].at

\* A block in force is lifted, before its time, only by an answer outside
\* failedCodes to one of the address's own requests let through earlier, by
\* reset or destroy, or because an answer at capacity evicts the address inserted
\* first; never by the collector, a check or other traffic.
BlockLiftedOnlyBy ==
  [][\A ip \in IPs : Blocked(ip) /\ now' = now /\ ~Blocked(ip)' =>
       \/ \E r \in Requests : RespondNotFailed(r) /\ request[r].ip = ip
       \/ Reset(ip)
       \/ Destroy
       \/ /\ Cardinality(DOMAIN state) >= maxStateSize /\ ip \in Oldest(state)
          /\ \E r \in Requests : InFlight(r) /\ request'[r].phase # "inflight"]_vars

\* An answer that arrives late, while its address is already blocked, may
\* prolong the block but never shortens it (below capacity).
BlockNeverShortened ==
  [][\A ip \in IPs :
       /\ Blocked(ip) /\ Cardinality(DOMAIN state) < maxStateSize
       /\ ip \in DOMAIN state' /\ state'[ip].blockUntil # NoBlock
       => state'[ip].blockUntil >= state[ip].blockUntil]_vars

\* A block in force stands to its end but for these, and is never cut.
BlockStands == BlockLiftedOnlyBy /\ BlockNeverShortened

\* Once clients are quiet the collector empties both tables: no entry, in
\* particular none with a long block or a forgotten account, is kept for ever.
MemoryDrains ==
  <>[](gcRunning => state = Empty /\ accountState = Empty)
=============================================================================
