------------------------ MODULE ThreadedRateLimiter ------------------------
(***************************************************************************)
(* The C++ rate limiter, src/modules/RateLimiter.cpp, under threads.       *)
(*                                                                         *)
(* One shared_mutex guards both tables, so what runs under it is one       *)
(* action; a call of check takes it up to four times, and reads the clock  *)
(* before it takes it.  Between two critical sections other threads check, *)
(* block, unblock, collect and clear.  A call is a thread that runs check  *)
(* once; the collector is one timer thread.                                *)
(***************************************************************************)
EXTENDS Integers, Maps

CONSTANTS
  Keys, Calls,
  windowMs, max, blockDuration, maxKeys,
  OperatorMs,           \* durations passed to blockIP
  NoTime,               \* the collector is not running
  MaxTime               \* bound of the clock

\* What the constants are; the runs assert it.
ThreadedAssumption ==
  /\ {windowMs, max, blockDuration, maxKeys} \subseteq Nat \ {0}
  /\ OperatorMs \subseteq Nat \ {0}
  /\ MaxTime \in Nat
  /\ NoTime \notin Int

VARIABLES
  now,        \* the system clock
  requests,   \* requests_: key -> deque of stamps, labelled by call
  blocked,    \* blocked_: key -> time
  call,       \* call -> where its thread is in check
  sweep       \* the time the collector read, or NoTime

vars == <<now, requests, blocked, call, sweep>>

Stamp == [call : Calls, at : Nat]

\* look: has read the clock for isBlocked; erase: saw an expired block and
\* gave up the shared lock; clock: on its way to increment; count: has read the
\* clock for it; counted: knows its count.  at is the time read, saw the expired
\* block found, void whether an operator wiped the key after the count.
Thread == [pc : {"look", "erase", "clock", "count", "counted", "passed", "limited", "refused"},
           key : Keys, at : Nat, saw : Nat, count : Nat, void : BOOLEAN]

Deque(k) == IF k \in DOMAIN requests THEN requests[k] ELSE <<>>

\* Mutant: the cutoff a tick too late.
SlideFar(dq, cutoff) ==
  LET fresh == {i \in DOMAIN dq : dq[i].at > cutoff + 1}
  IN  IF fresh = {} THEN <<>>
      ELSE SubSeq(dq, CHOOSE i \in fresh : \A j \in fresh : i <= j, Len(dq))

\* while (!dq.empty() && dq.front() <= cutoff) dq.pop_front()
Slide(dq, cutoff) ==
  LET fresh == {i \in DOMAIN dq : dq[i].at > cutoff}
  IN  IF fresh = {} THEN <<>>
      ELSE SubSeq(dq, CHOOSE i \in fresh : \A j \in fresh : i <= j, Len(dq))

Blocked(k) == k \in DOMAIN blocked /\ now < blocked[k]

At(c, pc) == c \in DOMAIN call /\ call[c].pc = pc

\* c has its stamp in the table, or had it.
Counted(c) == c \in DOMAIN call /\ call[c].pc \in {"counted", "passed", "limited"}

Goto(c, pc) == call' = [call EXCEPT ![c].pc = pc]

-----------------------------------------------------------------------------
Init ==
  /\ now = 0
  /\ requests = Empty /\ blocked = Empty
  /\ call = Empty
  /\ sweep = NoTime

\* check, up to the clock isBlocked reads.
Begin(c, k) ==
  /\ c \notin DOMAIN call
  /\ call' = Put(call, c, [pc |-> "look", key |-> k, at |-> now, saw |-> 0, count |-> 0,
                         void |-> FALSE])
  /\ UNCHANGED <<now, requests, blocked, sweep>>

\* isBlocked under the shared lock.
Look(c) ==
  /\ At(c, "look")
  /\ LET k == call[c].key
     IN  IF k \notin DOMAIN blocked THEN Goto(c, "clock")
         ELSE IF call[c].at < blocked[k] THEN Goto(c, "refused")
         ELSE call' = [call EXCEPT ![c].pc = "erase", ![c].saw = blocked[k]]
  /\ UNCHANGED <<now, requests, blocked, sweep>>

\* isBlocked under the exclusive lock: the block is not looked at again.
EraseExpired(c) ==
  /\ At(c, "erase")
  /\ blocked' = Drop(blocked, {call[c].key})
  /\ Goto(c, "clock")
  /\ UNCHANGED <<now, requests, sweep>>

\* increment reads the clock before it takes the lock.
ReadClock(c) ==
  /\ At(c, "clock")
  /\ call' = [call EXCEPT ![c].pc = "count", ![c].at = now]
  /\ UNCHANGED <<now, requests, blocked, sweep>>

Full == Cardinality(DOMAIN requests) >= maxKeys

\* Two tables without an order: begin() is any entry of each.
Evicted(table) ==
  IF DOMAIN table = {} THEN {table} ELSE {Drop(table, {k}) : k \in DOMAIN table}

\* The calls counted under the keys in S have lost their stamps.
Void(S) == [c \in DOMAIN call |->
              [call[c] EXCEPT !.void = @ \/ (call[c].key \in S /\ Counted(c))]]

\* increment under the exclusive lock.
Count(c) ==
  /\ At(c, "count")
  /\ \E reqs \in (IF Full THEN Evicted(requests) ELSE {requests}) :
       LET k  == call[c].key
           dq == Append(Slide(IF k \in DOMAIN reqs THEN reqs[k] ELSE <<>>,
                              call[c].at - windowMs),
                        [call |-> c, at |-> call[c].at])
       IN  /\ requests' = Put(reqs, k, dq)
           /\ call' = [Void(DOMAIN requests \ DOMAIN reqs)
                         EXCEPT ![c].pc = "counted", ![c].count = Len(dq)]
  /\ blocked' \in IF Full THEN Evicted(blocked) ELSE {blocked}
  /\ UNCHANGED <<now, sweep>>

\* Mutant: one call too many.
PassOneMore(c) ==
  /\ At(c, "counted") /\ call[c].count <= max + 1
  /\ Goto(c, "passed")
  /\ UNCHANGED <<now, requests, blocked, sweep>>

Pass(c) ==
  /\ At(c, "counted") /\ call[c].count <= max
  /\ Goto(c, "passed")
  /\ UNCHANGED <<now, requests, blocked, sweep>>

\* block: the clock is read under the lock.
Limit(c) ==
  /\ At(c, "counted") /\ call[c].count > max
  /\ blocked' = Put(blocked, call[c].key, now + blockDuration)
  /\ Goto(c, "limited")
  /\ UNCHANGED <<now, requests, sweep>>

\* cleanup reads the clock, then takes the lock.
CleanupRead ==
  /\ sweep = NoTime
  /\ sweep' = now
  /\ UNCHANGED <<now, requests, blocked, call>>

Cleanup ==
  /\ sweep # NoTime
  /\ requests' = [k \in {j \in DOMAIN requests : Slide(requests[j], sweep - windowMs) # <<>>} |->
                    Slide(requests[k], sweep - windowMs)]
  /\ blocked' = [k \in {j \in DOMAIN blocked : sweep < blocked[j]} |-> blocked[k]]
  /\ sweep' = NoTime
  /\ UNCHANGED <<now, call>>

BlockIP(k, ms) ==
  /\ blocked' = Put(blocked, k, now + ms)
  /\ UNCHANGED <<now, requests, call, sweep>>

UnblockIP(k) ==
  /\ blocked' = Drop(blocked, {k})
  /\ requests' = Drop(requests, {k})
  /\ call' = Void({k})
  /\ UNCHANGED <<now, sweep>>

Tick ==
  /\ now < MaxTime
  /\ now' = now + 1
  /\ UNCHANGED <<requests, blocked, call, sweep>>

Next ==
  \/ \E c \in Calls :
       \/ \E k \in Keys : Begin(c, k)
       \/ Look(c) \/ EraseExpired(c) \/ ReadClock(c) \/ Count(c) \/ Pass(c) \/ Limit(c)
  \/ \E k \in Keys : UnblockIP(k) \/ \E ms \in OperatorMs : BlockIP(k, ms)
  \/ CleanupRead \/ Cleanup \/ Tick

Spec == Init /\ [][Next]_vars

-----------------------------------------------------------------------------
(* Properties.                                                             *)

TypeOK ==
  /\ now \in Nat
  /\ DOMAIN requests \subseteq Keys /\ \A k \in DOMAIN requests : requests[k] \in Seq(Stamp)
  /\ DOMAIN blocked \subseteq Keys /\ \A k \in DOMAIN blocked : blocked[k] \in Nat
  /\ DOMAIN call \subseteq Calls /\ \A c \in DOMAIN call : call[c] \in Thread
  /\ sweep \in Nat \cup {NoTime}

\* The stamp of a counted call stays in its deque for a whole window, unless its
\* key is wiped or evicted, although threads push stamps out of order, slide with
\* cutoffs read before they had the lock, and the collector does the same.
WindowKept ==
  \A c \in Calls :
    Counted(c) /\ ~call[c].void /\ call[c].at > now - windowMs
      => \E i \in DOMAIN Deque(call[c].key) : Deque(call[c].key)[i].call = c

\* The types of all of it, with the stamps of the window.
StampsKept == TypeOK /\ WindowKept

\* A call counts as admitted from the moment its count is taken.
IsAdmitted(c) ==
  /\ c \in DOMAIN call /\ ~call[c].void
  /\ \/ call[c].pc = "counted" /\ call[c].count <= max
     \/ call[c].pc = "passed"

Admitted == {[req |-> c, key |-> call[c].key, at |-> call[c].at] :
               c \in {d \in Calls : IsAdmitted(d)}}

Window == INSTANCE SlidingWindow
            WITH Requests <- Calls, Max <- max, Window <- windowMs, admitted <- Admitted

\* The threaded limiter implements the sliding window.
ThreadedImplements == Window!Spec

\* A block in force is lifted or shortened only by the operator, by eviction, by
\* a call that was counted before the operator's longer block, or by a thread
\* that saw an earlier block of the key expire.
BlockLiftedOnlyBy ==
  [][\A k \in Keys :
       /\ Blocked(k) /\ now' = now
       /\ k \notin DOMAIN blocked' \/ blocked'[k] < blocked[k]
       => \/ UnblockIP(k) \/ \E ms \in OperatorMs : BlockIP(k, ms)
          \/ \E c \in Calls : Count(c) /\ Full
          \/ \E c \in Calls : Limit(c) /\ call[c].key = k
          \/ \E c \in Calls : /\ EraseExpired(c) /\ call[c].key = k
                              /\ call[c].saw <= now /\ call[c].saw < blocked[k]]_vars

\* "Expired - upgrade to exclusive and erase" (comment of isBlocked): what is
\* erased has expired.
ErasesOnlyExpired ==
  [][\A c \in Calls : EraseExpired(c) => ~Blocked(call[c].key)]_vars
=============================================================================
