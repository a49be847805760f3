---------------------------- MODULE RateLimiter ----------------------------
(***************************************************************************)
(* RateLimiter and its MemoryStore, src/modules/rate-limiter.js.           *)
(*                                                                         *)
(* check is an async function: it runs up to its first await when called,  *)
(* and its continuations are microtasks, which run in FIFO order until     *)
(* none is left before the event loop takes the next request, timer or     *)
(* operator call.  Several requests parsed from one read are started       *)
(* before any microtask runs; from then on they advance in lock step.      *)
(* `queue` is the microtask queue.  The clock may move at any time.        *)
(*                                                                         *)
(* A path in skipPaths leaves check before it touches the store and is     *)
(* not modelled.                                                           *)
(***************************************************************************)
EXTENDS Integers, Maps

CONSTANTS
  Keys, Requests,
  windowMs, max, blockDuration, maxKeys,
  OperatorMs,           \* durations passed to blockIP
  MaxTime               \* bound of the clock

ASSUME LimiterAssumption ==
  /\ {windowMs, max, blockDuration, maxKeys} \subseteq Nat \ {0}
  /\ OperatorMs \subseteq Nat \ {0}
  /\ MaxTime \in Nat

VARIABLES
  now,        \* Date.now()
  requests,   \* _requests: key -> [stamps, born], stamps labelled by request
  blocked,    \* _blocked: key -> time
  locks,      \* keys of _locks
  queue,      \* requests whose continuation is queued
  request,    \* request -> where it is in check
  gc          \* the interval of cleanup is set

vars == <<now, requests, blocked, locks, queue, request, gc>>

Stamp == [req : Requests, at : Nat]

\* asked: awaits isBlocked; entered: awaits lock.promise in increment;
\* counted: awaits increment's result.  The other stages are final.
Call == [stage : {"asked", "entered", "counted", "passed", "limited", "refused"},
         key : Keys, until : Nat, at : Nat, count : Nat]

\* Mutant: the window a tick too short.
InWindowShort(stamps, t) == {s \in stamps : s.at > t - windowMs + 1}

\* reqs.filter(t => t > now - windowMs)
InWindow(stamps, t) == {s \in stamps : s.at > t - windowMs}

Stamps(k) == IF k \in DOMAIN requests THEN requests[k].stamps ELSE {}

Counted(r) == /\ r \in DOMAIN request
              /\ request[r].stage \in {"counted", "passed", "limited"}

Blocked(k) == k \in DOMAIN blocked /\ now < blocked[k]

\* Keys in the order a Map iterates them.
Oldest == {k \in DOMAIN requests :
             \A j \in DOMAIN requests : requests[k].born <= requests[j].born}

-----------------------------------------------------------------------------
Init ==
  /\ now = 0
  /\ requests = Empty /\ blocked = Empty /\ locks = {}
  /\ queue = <<>>
  /\ request = Empty
  /\ gc = TRUE

Idle == queue = <<>>

\* check up to its first await, isBlocked included.
Start(r, k) ==
  /\ r \notin DOMAIN request
  /\ \A i \in DOMAIN queue : request[queue[i]].stage = "asked"
  /\ request' = Put(request, r,
       [stage |-> "asked", key |-> k, until |-> IF Blocked(k) THEN blocked[k] ELSE 0,
        at |-> 0, count |-> 0])
  /\ queue' = Append(queue, r)
  /\ blocked' = IF Blocked(k) THEN blocked ELSE Drop(blocked, {k})
  /\ UNCHANGED <<now, requests, locks, gc>>

\* The continuation of r is taken from the queue and leaves r at call;
\* Continue queues the next one, Finish is its return.
Continue(r, call) ==
  /\ queue # <<>> /\ r = Head(queue)
  /\ queue' = Append(Tail(queue), r)
  /\ request' = Put(request, r, call)

Finish(r, call) ==
  /\ queue # <<>> /\ r = Head(queue)
  /\ queue' = Tail(queue)
  /\ request' = Put(request, r, call)

\* What the counted calls of the keys in S left behind is of no account any more.
\* None of them is still queued: calls advance in lock step.
Forgotten(S) == [r \in DOMAIN request |->
                   IF request[r].key \in S /\ Counted(r)
                   THEN [request[r] EXCEPT !.stage = "refused"] ELSE request[r]]

\* if (blockUntil > 0) return limited
Refuse(r) ==
  /\ r \in DOMAIN request /\ request[r].stage = "asked" /\ request[r].until > 0
  /\ Finish(r, [request[r] EXCEPT !.stage = "refused"])
  /\ UNCHANGED <<now, requests, blocked, locks, gc>>

\* The keys deleted to make room: none below capacity.
Room == IF Cardinality(DOMAIN requests) >= maxKeys THEN {{k} : k \in Oldest} ELSE {{}}

\* increment up to `await lock.promise`: the time is read, room is made, the
\* lock, whose promise is already resolved, is looked up or created.
Enter(r) ==
  /\ r \in DOMAIN request /\ request[r].stage = "asked" /\ request[r].until = 0
  /\ queue # <<>> /\ r = Head(queue)
  /\ queue' = Append(Tail(queue), r)
  /\ \E S \in Room :
       /\ requests' = Drop(requests, S)
       /\ blocked' = Drop(blocked, S)
       /\ locks' = (locks \ S) \cup {request[r].key}
       /\ request' = [Forgotten(S) EXCEPT ![r].stage = "entered", ![r].at = now]
  /\ UNCHANGED <<now, gc>>

\* The rest of increment, with the time read before the await.
Count(r) ==
  /\ r \in DOMAIN request /\ request[r].stage = "entered"
  /\ LET k     == request[r].key
         reqs  == InWindow(Stamps(k), request[r].at)
                    \cup {[req |-> r, at |-> request[r].at]}
         born  == IF k \in DOMAIN requests THEN requests[k].born
                  ELSE Cardinality({q \in DOMAIN request : Counted(q)})
     IN  /\ requests' = Put(requests, k, [stamps |-> reqs, born |-> born])
         /\ locks' = locks \ {k}
         /\ Continue(r, [request[r] EXCEPT !.stage = "counted",
                                           !.count = Cardinality(reqs)])
  /\ UNCHANGED <<now, blocked, gc>>

\* Mutant: one request too many.
PassOneMore(r) ==
  /\ r \in DOMAIN request /\ request[r].stage = "counted" /\ request[r].count <= max + 1
  /\ Finish(r, [request[r] EXCEPT !.stage = "passed"])
  /\ UNCHANGED <<now, requests, blocked, locks, gc>>

Pass(r) ==
  /\ r \in DOMAIN request /\ request[r].stage = "counted" /\ request[r].count <= max
  /\ Finish(r, [request[r] EXCEPT !.stage = "passed"])
  /\ UNCHANGED <<now, requests, blocked, locks, gc>>

\* Mutant: the sign of the duration.
LimitBackwards(r) ==
  /\ r \in DOMAIN request /\ request[r].stage = "counted" /\ request[r].count > max
  /\ blocked' = Put(blocked, request[r].key, now - blockDuration)
  /\ Finish(r, [request[r] EXCEPT !.stage = "limited"])
  /\ UNCHANGED <<now, requests, locks, gc>>

Limit(r) ==
  /\ r \in DOMAIN request /\ request[r].stage = "counted" /\ request[r].count > max
  /\ blocked' = Put(blocked, request[r].key, now + blockDuration)
  /\ Finish(r, [request[r] EXCEPT !.stage = "limited"])
  /\ UNCHANGED <<now, requests, locks, gc>>

\* Mutant: a block goes with its key's last stamp.
CleanupUnblocks ==
  /\ Idle /\ gc
  /\ LET kept == {j \in DOMAIN requests : InWindow(Stamps(j), now) # {}}
     IN  /\ requests' = [k \in kept |-> [requests[k] EXCEPT !.stamps = InWindow(@, now)]]
         /\ blocked' = [k \in {j \in kept \cap DOMAIN blocked : now < blocked[j]} |-> blocked[k]]
  /\ locks' = {}
  /\ UNCHANGED <<now, queue, request, gc>>

\* cleanup, from the interval timer.
Cleanup ==
  /\ Idle /\ gc
  /\ requests' = [k \in {j \in DOMAIN requests : InWindow(Stamps(j), now) # {}} |->
                    [requests[k] EXCEPT !.stamps = InWindow(@, now)]]
  /\ blocked' = [k \in {j \in DOMAIN blocked : now < blocked[j]} |-> blocked[k]]
  /\ locks' = {}
  /\ UNCHANGED <<now, queue, request, gc>>

BlockIP(k, ms) ==
  /\ Idle
  /\ blocked' = Put(blocked, k, now + ms)
  /\ UNCHANGED <<now, requests, locks, queue, request, gc>>

UnblockIP(k) ==
  /\ Idle
  /\ blocked' = Drop(blocked, {k})
  /\ requests' = Drop(requests, {k})
  /\ request' = Forgotten({k})
  /\ UNCHANGED <<now, locks, queue, gc>>

Destroy ==
  /\ Idle
  /\ requests' = Empty /\ blocked' = Empty
  /\ request' = Forgotten(Keys)
  /\ gc' = FALSE
  /\ UNCHANGED <<now, locks, queue>>

Tick ==
  /\ now < MaxTime
  /\ now' = now + 1
  /\ UNCHANGED <<requests, blocked, locks, queue, request, gc>>

Microtask(r) == Refuse(r) \/ Enter(r) \/ Count(r) \/ Pass(r) \/ Limit(r)

Next ==
  \/ \E r \in Requests : (\E k \in Keys : Start(r, k)) \/ Microtask(r)
  \/ \E k \in Keys : UnblockIP(k) \/ \E ms \in OperatorMs : BlockIP(k, ms)
  \/ Cleanup \/ Destroy \/ Tick

Spec == Init /\ [][Next]_vars

-----------------------------------------------------------------------------
(* Properties.                                                             *)

TypeOK ==
  /\ now \in Nat
  /\ DOMAIN requests \subseteq Keys
  /\ \A k \in DOMAIN requests : requests[k] \in [stamps : SUBSET Stamp, born : Nat]
  /\ DOMAIN blocked \subseteq Keys /\ \A k \in DOMAIN blocked : blocked[k] \in Nat
  /\ locks \subseteq Keys
  /\ queue \in Seq(Requests)
  /\ DOMAIN request \subseteq Requests
  /\ \A r \in DOMAIN request : request[r] \in Call
  /\ gc \in BOOLEAN

\* The store holds, of every key, exactly the counted requests of the window
\* since the key was last wiped or evicted: neither the time read before the await, nor the collector,
\* nor the requests between two continuations lose or repeat one.
WindowExact ==
  \A k \in Keys :
    {s.req : s \in InWindow(Stamps(k), now)}
      = {r \in Requests : /\ Counted(r) /\ request[r].key = k
                          /\ request[r].at > now - windowMs}

\* A block in force is shortened or lifted only by the operator or by the
\* eviction of its key: not by cleanup, a check, or another key's traffic.
BlockStands ==
  [][\A k \in Keys :
       /\ Blocked(k)
       /\ k \notin DOMAIN blocked' \/ blocked'[k] < blocked[k]
       => \/ \E r \in Requests : Enter(r) /\ {k} \in Room
          \/ UnblockIP(k) \/ Destroy
          \/ \E ms \in OperatorMs : BlockIP(k, ms)]_vars

\* The limiter implements the sliding window: a request counts as admitted
\* from the moment its count is taken, or when it passes after all.
IsAdmitted(r) ==
  /\ r \in DOMAIN request
  /\ \/ request[r].stage = "counted" /\ request[r].count <= max
     \/ request[r].stage = "passed"

Admitted == {[req |-> r, key |-> request[r].key, at |-> request[r].at] :
               r \in {q \in Requests : IsAdmitted(q)}}

Window == INSTANCE SlidingWindow
            WITH Max <- max, Window <- windowMs, admitted <- Admitted

ImplementsSlidingWindow == Window!Spec

RateBound == Window!RateBound
=============================================================================
