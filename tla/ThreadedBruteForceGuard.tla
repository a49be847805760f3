---------------------- MODULE ThreadedBruteForceGuard ----------------------
(***************************************************************************)
(* The C++ brute-force guard, src/modules/BruteForceGuard.cpp, under       *)
(* threads.                                                                *)
(*                                                                         *)
(* Addresses and accounts have a mutex each, so one recordResponse is two  *)
(* critical sections, with a clock read before both.  A call is a thread   *)
(* that serves one login: check, checkAccount, the application, and        *)
(* recordResponse.  gc is private and has no caller: it is not an action.  *)
(***************************************************************************)
EXTENDS Integers, Maps

CONSTANTS
  IPs, Accounts, NoAccount, Calls,
  maxAttempts, windowMs, blockDurationMs, maxBlockDurationMs,
  progressiveBackoff, accountMaxAttempts, maxStateSize, maxAccountSize,
  MaxInt,               \* the largest int64_t
  MaxTime               \* bound of the clock

GuardAssumption ==
  /\ {maxAttempts, windowMs, blockDurationMs, maxBlockDurationMs,
      accountMaxAttempts, maxStateSize, maxAccountSize} \subseteq Nat \ {0}
  /\ progressiveBackoff \in BOOLEAN
  /\ MaxInt \in Nat /\ MaxTime \in Nat
  /\ maxBlockDurationMs + MaxTime <= MaxInt
  /\ NoAccount \notin Accounts

VARIABLES
  now,        \* the system clock
  ipState,    \* address -> [attempts, blockUntil, blockCount]
  accState,   \* account -> attempts
  call        \* call -> where its thread is

vars == <<now, ipState, accState, call>>

\* A stamp, labelled by the call that pushed it.
Attempt == [call : Calls, at : Nat]

IpEntry == [attempts : SUBSET Attempt, blockUntil : -(MaxInt + 1)..MaxInt, blockCount : Nat]

\* checked: passed check, has read the clock for checkAccount; serving: in the
\* application; failed, passed: recordResponse has read the clock; recorded: the
\* account is done; failure, success, refused: final.  The stamps it left were
\* void: wiped or evicted; lost: evicted with its account.
Thread == [pc : {"checked", "serving", "failed", "passed", "recorded",
                 "failure", "success", "refused"},
           ip : IPs, acct : Accounts \cup {NoAccount}, at : Nat, void : BOOLEAN, lost : BOOLEAN]

Recent(attempts, t) == {a \in attempts : t - a.at < windowMs}

\* blockDurationMs * mult, a double.
Backoff(count) == blockDurationMs * (IF progressiveBackoff THEN 2 ^ (count - 1) ELSE 1)

\* std::min(static_cast<int64_t>(Backoff), maxBlockDurationMs).  The conversion of
\* a double that does not fit is undefined: the hardware yields the least integer,
\* or the greatest.
BlockLengths(count) ==
  LET casts == IF Backoff(count) <= MaxInt THEN {Backoff(count)} ELSE {-(MaxInt + 1), MaxInt}
  IN  {IF d <= maxBlockDurationMs THEN d ELSE maxBlockDurationMs : d \in casts}

\* Mutant: room is made one entry late.
AfterLimitLate(table, limit) ==
  IF Cardinality(DOMAIN table) > limit
  THEN {Drop(table, {k}) : k \in DOMAIN table}
  ELSE {table}

\* An unordered_map has no order: begin() is any entry.
AfterLimit(table, limit) ==
  IF Cardinality(DOMAIN table) >= limit
  THEN {Drop(table, {k}) : k \in DOMAIN table}
  ELSE {table}

Blocked(ip) ==
  /\ ip \in DOMAIN ipState
  /\ ipState[ip].blockUntil > 0
  /\ now < ipState[ip].blockUntil

At(c, pc) == c \in DOMAIN call /\ call[c].pc = pc

-----------------------------------------------------------------------------
Init ==
  /\ now = 0
  /\ ipState = Empty /\ accState = Empty
  /\ call = Empty

\* check, under the shared lock, changes nothing; the next clock is read.
Check(c, ip, acct) ==
  /\ c \notin DOMAIN call
  /\ call' = Put(call, c, [pc |-> IF Blocked(ip) THEN "refused" ELSE "checked",
                           ip |-> ip, acct |-> acct, at |-> now, void |-> FALSE, lost |-> FALSE])
  /\ UNCHANGED <<now, ipState, accState>>

\* checkAccount counts the attempts of the window without trimming them.
CheckAccount(c) ==
  /\ At(c, "checked")
  /\ LET a      == call[c].acct
         locked == /\ a \in DOMAIN accState
                   /\ Cardinality(Recent(accState[a], call[c].at)) >= accountMaxAttempts
     IN  call' = [call EXCEPT ![c].pc = IF locked THEN "refused" ELSE "serving"]
  /\ UNCHANGED <<now, ipState, accState>>

\* The application answers and recordResponse reads the clock.
Respond(c, pc) ==
  /\ At(c, "serving")
  /\ call' = [call EXCEPT ![c].pc = pc, ![c].at = now]
  /\ UNCHANGED <<now, ipState, accState>>

\* The attempts recorded for the addresses, or accounts, in S so far are gone.
Wiped(f, S) == [c \in DOMAIN f |->
  [f[c] EXCEPT !.void = @ \/ (f[c].ip \in S /\ f[c].pc = "failure")]]

Lost(f, S) == [c \in DOMAIN f |->
  [f[c] EXCEPT !.lost = @ \/ (f[c].acct \in S /\ f[c].pc \in {"recorded", "failure"})]]

\* Mutant: the account's stamps are overwritten.
RecordForAccountOver(c) ==
  /\ At(c, "failed")
  /\ LET a == call[c].acct
     IN  IF a = NoAccount THEN UNCHANGED accState
         ELSE \E table \in AfterLimit(accState, maxAccountSize) :
                accState' = Put(table, a, {[call |-> c, at |-> call[c].at]})
  /\ call' = [Lost(call, DOMAIN accState \ DOMAIN accState') EXCEPT ![c].pc = "recorded"]
  /\ UNCHANGED <<now, ipState>>

\* recordResponse under accMutex.
RecordForAccount(c) ==
  /\ At(c, "failed")
  /\ \E table \in (IF call[c].acct = NoAccount THEN {accState}
                   ELSE AfterLimit(accState, maxAccountSize)) :
       LET a == call[c].acct
       IN  /\ accState' = IF a = NoAccount THEN table
                          ELSE Put(table, a, (IF a \in DOMAIN table THEN table[a] ELSE {})
                                               \cup {[call |-> c, at |-> call[c].at]})
           /\ call' = [Lost(call, DOMAIN accState \ DOMAIN table) EXCEPT ![c].pc = "recorded"]
  /\ UNCHANGED <<now, ipState>>

\* Mutant: a failure below the threshold ends the block.
EntriesAfterFailureEnds(e, c) ==
  LET attempts == Recent(e.attempts, call[c].at) \cup {[call |-> c, at |-> call[c].at]}
      count    == e.blockCount + 1
  IN  IF Cardinality(attempts) >= maxAttempts
      THEN {[attempts |-> attempts, blockCount |-> count, blockUntil |-> call[c].at + d] :
              d \in BlockLengths(count)}
      ELSE {[e EXCEPT !.attempts = attempts, !.blockUntil = 0]}

\* The entry of an address after one more failure.
EntriesAfterFailure(e, c) ==
  LET attempts == Recent(e.attempts, call[c].at) \cup {[call |-> c, at |-> call[c].at]}
      count    == e.blockCount + 1
  IN  IF Cardinality(attempts) >= maxAttempts
      THEN {[attempts |-> attempts, blockCount |-> count, blockUntil |-> call[c].at + d] :
              d \in BlockLengths(count)}
      ELSE {[e EXCEPT !.attempts = attempts]}

\* recordResponse under ipMutex, a failed code.
RecordForIP(c) ==
  /\ At(c, "recorded")
  /\ \E table \in AfterLimit(ipState, maxStateSize) :
       LET ip == call[c].ip
           e  == IF ip \in DOMAIN table THEN table[ip]
                 ELSE [attempts |-> {}, blockUntil |-> 0, blockCount |-> 0]
       IN  /\ \E entry \in EntriesAfterFailure(e, c) : ipState' = Put(table, ip, entry)
           /\ call' = [Wiped(call, DOMAIN ipState \ DOMAIN table) EXCEPT ![c].pc = "failure"]
  /\ UNCHANGED <<now, accState>>

\* recordResponse under ipMutex, any other code.
RecordSuccess(c) ==
  /\ At(c, "passed")
  /\ ipState' = Drop(ipState, {call[c].ip})
  /\ call' = [Wiped(call, {call[c].ip}) EXCEPT ![c].pc = "success"]
  /\ UNCHANGED <<now, accState>>

Reset(ip) ==
  /\ ipState' = Drop(ipState, {ip})
  /\ call' = Wiped(call, {ip})
  /\ UNCHANGED <<now, accState>>

Tick ==
  /\ now < MaxTime
  /\ now' = now + 1
  /\ UNCHANGED <<ipState, accState, call>>

Next ==
  \/ \E c \in Calls :
       \/ \E ip \in IPs, acct \in Accounts \cup {NoAccount} : Check(c, ip, acct)
       \/ CheckAccount(c)
       \/ Respond(c, "failed") \/ Respond(c, "passed")
       \/ RecordForAccount(c) \/ RecordForIP(c) \/ RecordSuccess(c)
  \/ \E ip \in IPs : Reset(ip)
  \/ Tick

Spec == Init /\ [][Next]_vars

-----------------------------------------------------------------------------
(* Properties.                                                             *)

TypeOK ==
  /\ now \in Nat
  /\ DOMAIN ipState \subseteq IPs /\ \A ip \in DOMAIN ipState : ipState[ip] \in IpEntry
  /\ DOMAIN accState \subseteq Accounts
  /\ \A a \in DOMAIN accState : accState[a] \subseteq Attempt
  /\ DOMAIN call \subseteq Calls /\ \A c \in DOMAIN call : call[c] \in Thread

\* An account's stamps inside the window are those of its failed logins, from
\* whichever threads and addresses: only an eviction of the account loses any.
AccountMemory ==
  \A a \in Accounts :
    (IF a \in DOMAIN accState THEN {x.call : x \in Recent(accState[a], now)} ELSE {})
      = {c \in Calls : /\ At(c, "recorded") \/ At(c, "failure")
                       /\ call[c].acct = a /\ ~call[c].lost
                       /\ now - call[c].at < windowMs}

\* An address's stamps inside the window are those of its failed logins since
\* it was last wiped or evicted, although threads slide the window with older
\* clocks.
IpMemory ==
  \A ip \in IPs :
    (IF ip \in DOMAIN ipState
     THEN {x.call : x \in Recent(ipState[ip].attempts, now)} ELSE {})
      = {c \in Calls : /\ At(c, "failure") /\ ~call[c].void
                       /\ call[c].ip = ip /\ now - call[c].at < windowMs}

\* Both: what the guard remembers of an address and of an account.
LoginsRemembered == AccountMemory /\ IpMemory

\* The tables stay within their limits: room is made and used under one lock.
TablesBounded ==
  /\ Cardinality(DOMAIN ipState) <= maxStateSize
  /\ Cardinality(DOMAIN accState) <= maxAccountSize

\* The types of both tables and of the threads, with the limits.
TableTypes == TypeOK /\ TablesBounded

\* Why a step may end the block of ip early: a success of its address, reset, an
\* eviction; why it may shorten it: a failed answer that read the clock earlier, or a
\* backoff that has outgrown int64_t.
BlockKept(ip) ==
  /\ Blocked(ip) /\ now' = now
  /\ ip \notin DOMAIN ipState' \/ ipState'[ip].blockUntil < ipState[ip].blockUntil
  => \/ Reset(ip)
     \/ Cardinality(DOMAIN ipState) >= maxStateSize /\ \E c \in Calls : RecordForIP(c)
     \/ \E c \in Calls :
          /\ call[c].ip = ip
          /\ \/ RecordSuccess(c)
             \/ RecordForIP(c) /\ \/ call[c].at < now
                                  \/ Backoff(ipState[ip].blockCount + 1) > MaxInt

\* A block in force ends early only by a success of its address, by reset, or by
\* eviction; a failed answer shortens one only if it read the clock earlier, or
\* if the backoff has outgrown int64_t.
BlocksStand == [][\A ip \in IPs : BlockKept(ip)]_vars

\* "Progressive backoff cap" (comment of maxBlockDurationMs): the cap is the
\* length of the longest blocks, so a block counted is a block in force for at
\* least the base length.
BackoffCaps ==
  [][\A c \in Calls :
       RecordForIP(c) /\ Cardinality(ipState'[call[c].ip].attempts) >= maxAttempts
         => ipState'[call[c].ip].blockUntil > call[c].at]_vars
=============================================================================
